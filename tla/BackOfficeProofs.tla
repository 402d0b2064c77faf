---------------------------- MODULE BackOfficeProofs ----------------------------
(***************************************************************************)
(* Proofs about the six parts of the back office, for any sets of          *)
(* requests, authorizations, items, menus, tables, zones and people: what  *)
(* a merchant account promises payments, that some selection passes the    *)
(* check of an order, the lists that requests replace as a whole, what     *)
(* guests are shown, which profile a sign-in names and when its PIN locks, *)
(* and what the administration of the staff keeps.                         *)
(*                                                                         *)
(* Each part is proved about its own specification: its types, then an     *)
(* inductive invariant.  The last section shows that the back office       *)
(* implements these specifications, and carries the results over; the      *)
(* staff also moves under the sign-in there, and is proved again.          *)
(***************************************************************************)
EXTENDS BackOffice, FiniteSetTheorems, TLAPS

(* Merchant accounts                                                       *)

LEMMA AccountsTypeInit == AccountsInit => AccountsTypeOK
BY MaxPriorityAssumption DEF AccountsInit, AccountsTypeOK, AccountRecords, AccountStatuses,
   AccountRequestRecords, AccountSteps, NoAccount, IdleAccountRequest, Providers, MP, TBK

\* Moving a request to another step, or ending it, keeps its type.
LEMMA AccountReqType ==
    ASSUME AccountsTypeOK, NEW r \in AccountRequests, NEW step \in AccountSteps,
           AccountGoto(r, step) \/ AccountReqEnds(r)
    PROVE  accountReq' \in [AccountRequests -> AccountRequestRecords]
BY DEF AccountsTypeOK, AccountGoto, AccountReqEnds, AccountRequestRecords, IdleAccountRequest,
       AccountSteps, Providers, MP, TBK

LEMMA AccountType ==
    ASSUME AccountsTypeOK, NEW p \in Providers, NEW record \in AccountRecords,
           account' = [account EXCEPT ![p] = record]
    PROVE  account' \in [Providers -> AccountRecords]
BY DEF AccountsTypeOK

LEMMA AccountsTypeStep == AccountsTypeOK /\ [AccountsNext]_accountsVars => AccountsTypeOK'
<1> SUFFICES ASSUME AccountsTypeOK, [AccountsNext]_accountsVars
             PROVE  AccountsTypeOK'
  OBVIOUS
<1> USE DEF AccountsTypeOK
<1>a. /\ MP \in Providers /\ TBK \in Providers
      /\ \A p \in Providers : account[p] \in AccountRecords
  BY DEF Providers
<1>1. ASSUME NEW s \in OAuthStates, StartConnection(s) \/ StateExpires(s)
      PROVE  AccountsTypeOK'
  BY <1>1, <1>a DEF StartConnection, StateExpires, AccountRecords, AccountStatuses
<1>2. ASSUME NEW r \in AccountRequests, NEW s \in OAuthStates, FindState(r, s)
      PROVE  AccountsTypeOK'
  BY <1>2, <1>a DEF FindState, AccountRequestRecords, AccountSteps, IdleAccountRequest
<1>3. ASSUME NEW r \in AccountRequests, ConsumeState(r)
      PROVE  AccountsTypeOK'
  BY <1>3, AccountReqType DEF ConsumeState, AccountSteps
<1>4. ASSUME NEW r \in AccountRequests, ExchangeCode(r)
      PROVE  AccountsTypeOK'
  <2> DEFINE s == accountReq[r].state
  <2>1. s \in OAuthStates => exchanges[s] + 1 \in Nat
    OBVIOUS
  <2>2. exchanges' = [exchanges EXCEPT ![s] = exchanges[s] + 1]
    BY <1>4 DEF ExchangeCode
  <2> HIDE DEF s
  <2>3. exchanges' \in [OAuthStates -> Nat]
    BY <2>1, <2>2
  <2> QED
    BY <1>4, <2>3, AccountReqType DEF ExchangeCode, AccountSteps
<1>5. ASSUME NEW r \in AccountRequests, SaveTokens(r) \/ MarkError(r)
      PROVE  AccountsTypeOK'
  <2>1. accountReq' \in [AccountRequests -> AccountRequestRecords]
    BY <1>5, AccountReqType DEF SaveTokens, MarkError, AccountSteps
  <2>2. PICK record \in AccountRecords : account' = [account EXCEPT ![MP] = record]
    BY <1>5, <1>a DEF SaveTokens, MarkError, AccountRecords, AccountStatuses
  <2> QED
    BY <1>5, <1>a, <2>1, <2>2, AccountType DEF SaveTokens, MarkError
<1>6. ASSUME NEW r \in AccountRequests, ResolveAvailable(r)
      PROVE  AccountsTypeOK'
  BY <1>6, <1>a DEF ResolveAvailable, AccountRequestRecords, AccountSteps, IdleAccountRequest
<1>7. ASSUME NEW r \in AccountRequests, RefreshAccessToken(r) \/ AccountRequestDies(r)
      PROVE  AccountsTypeOK'
  BY <1>7, AccountReqType DEF RefreshAccessToken, AccountRequestDies, AccountSteps
<1>8. ASSUME NEW r \in AccountRequests, SetPreferred(r)
      PROVE  AccountsTypeOK'
  <2>1. accountReq' \in [AccountRequests -> AccountRequestRecords]
    BY <1>8, AccountReqType DEF SetPreferred, AccountSteps
  <2>2. accountReq[r].of \in Providers /\ accountReq[r].max + 1 \in Nat
    BY DEF AccountRequestRecords
  <2>3. [account[accountReq[r].of] EXCEPT !.priority = accountReq[r].max + 1] \in AccountRecords
    BY <1>a, <2>2 DEF AccountRecords
  <2>4. account' \in [Providers -> AccountRecords]
    BY <1>8, <2>2, <2>3 DEF SetPreferred
  <2> QED
    BY <1>8, <2>1, <2>4 DEF SetPreferred
<1>9. ASSUME NEW r \in AccountRequests, NEW p \in Providers, ReadPriorities(r, p)
      PROVE  AccountsTypeOK'
  BY <1>9, <1>a DEF ReadPriorities, AccountRecords, AccountRequestRecords, AccountSteps,
                    IdleAccountRequest
<1>10. ASSUME NEW p \in Providers, Disconnect(p) \/ Pause(p) \/ Resume(p)
       PROVE  AccountsTypeOK'
  <2>1. PICK record \in AccountRecords : account' = [account EXCEPT ![p] = record]
    <3>1. ASSUME NEW status \in AccountStatuses
          PROVE  [account[p] EXCEPT !.status = status] \in AccountRecords
      BY <1>a DEF AccountRecords
    <3>2. [account[p] EXCEPT !.status = "DISCONNECTED", !.credentials = FALSE,
                             !.refresh = FALSE, !.expiring = FALSE] \in AccountRecords
      BY <1>a DEF AccountRecords, AccountStatuses
    <3>3. "PAUSED" \in AccountStatuses /\ "CONNECTED" \in AccountStatuses
      BY DEF AccountStatuses
    <3> QED
      BY <1>10, <3>1, <3>2, <3>3 DEF Disconnect, Pause, Resume
  <2> QED
    BY <1>10, <2>1, AccountType DEF Disconnect, Pause, Resume
<1>11. ASSUME TokensAge \/ ConnectTransbank
       PROVE  AccountsTypeOK'
  <2>1. PICK p \in Providers, record \in AccountRecords :
           account' = [account EXCEPT ![p] = record]
    <3>1. [account[MP] EXCEPT !.expiring = TRUE] \in AccountRecords
      BY <1>a DEF AccountRecords
    <3>2. [account[TBK] EXCEPT !.status = "CONNECTED", !.credentials = TRUE] \in AccountRecords
      BY <1>a DEF AccountRecords, AccountStatuses
    <3> QED
      BY <1>11, <1>a, <3>1, <3>2 DEF TokensAge, ConnectTransbank
  <2> QED
    BY <1>11, <2>1, AccountType DEF TokensAge, ConnectTransbank
<1>12. CASE UNCHANGED accountsVars
  BY <1>12 DEF accountsVars
<1> QED
  BY <1>1, <1>2, <1>3, <1>4, <1>5, <1>6, <1>7, <1>8, <1>9, <1>10, <1>11, <1>12
     DEF AccountsNext

\* Every variable of the merchant accounts keeps its type.
THEOREM AccountsTypes == AccountsSpec => []AccountsTypeOK
BY AccountsTypeInit, AccountsTypeStep, PTL DEF AccountsSpec

\* Until its state is consumed nobody exchanges the code of an authorization, and the
\* request that consumed it is the only one that does, once.
ExchangeInv ==
    /\ AccountsTypeOK
    /\ \A s \in OAuthStates :
           /\ exchanges[s] <= 1
           /\ exchanges[s] # 0 => oauthState[s] = "consumed"
    /\ \A r \in AccountRequests :
           /\ AccountReqAt(r, "found") \/ AccountReqAt(r, "exchanging")
              => accountReq[r].state \in OAuthStates
           /\ AccountReqAt(r, "exchanging")
              => /\ oauthState[accountReq[r].state] = "consumed"
                 /\ exchanges[accountReq[r].state] = 0
    /\ \A r, q \in AccountRequests :
           /\ AccountReqAt(r, "exchanging") /\ AccountReqAt(q, "exchanging")
           /\ accountReq[r].state = accountReq[q].state
           => r = q

LEMMA ExchangeInit == AccountsInit => ExchangeInv
BY AccountsTypeInit DEF AccountsInit, ExchangeInv, AccountReqAt, IdleAccountRequest

LEMMA ExchangeStep == ExchangeInv /\ [AccountsNext]_accountsVars => ExchangeInv'
<1> SUFFICES ASSUME ExchangeInv, [AccountsNext]_accountsVars
             PROVE  ExchangeInv'
  OBVIOUS
<1> USE DEF AccountReqAt
<1>0. AccountsTypeOK'
  BY AccountsTypeStep DEF ExchangeInv
<1>t. /\ oauthState \in [OAuthStates -> {"unused", "open", "expired", "consumed"}]
      /\ exchanges \in [OAuthStates -> Nat]
      /\ DOMAIN accountReq = AccountRequests
  BY DEF ExchangeInv, AccountsTypeOK
\* No request starts to exchange and nothing is exchanged.
<1>a. ASSUME NEW r \in AccountRequests, NEW record,
             accountReq' = [accountReq EXCEPT ![r] = record], record.step # "exchanging",
             record.step = "found" => record.state \in OAuthStates,
             UNCHANGED <<oauthState, exchanges>>
      PROVE  ExchangeInv'
  BY <1>0, <1>t, <1>a DEF ExchangeInv
<1>1. ASSUME NEW s \in OAuthStates, StartConnection(s) \/ StateExpires(s)
      PROVE  ExchangeInv'
  BY <1>0, <1>1, <1>t DEF ExchangeInv, StartConnection, StateExpires
<1>2. ASSUME NEW r \in AccountRequests, NEW s \in OAuthStates, FindState(r, s)
      PROVE  ExchangeInv'
  <2> DEFINE record == [IdleAccountRequest EXCEPT !.step = "found", !.state = s]
  <2>1. record.step = "found" /\ record.state = s
    BY DEF IdleAccountRequest
  <2>2. accountReq' = [accountReq EXCEPT ![r] = record] /\ UNCHANGED <<oauthState, exchanges>>
    BY <1>2 DEF FindState
  <2> HIDE DEF record
  <2> QED
    BY <1>a, <2>1, <2>2
<1>3. ASSUME NEW r \in AccountRequests, ConsumeState(r)
      PROVE  ExchangeInv'
  <2> DEFINE s == accountReq[r].state
  <2>1. s \in OAuthStates
    BY <1>3 DEF ExchangeInv, ConsumeState
  <2>2. CASE oauthState[s] = "consumed"
    <3>1. IdleAccountRequest.step = "idle"
      BY DEF IdleAccountRequest
    <3>2. /\ accountReq' = [accountReq EXCEPT ![r] = IdleAccountRequest]
          /\ UNCHANGED <<oauthState, exchanges>>
      BY <1>3, <2>2 DEF ConsumeState, AccountReqEnds
    <3> QED
      BY <1>a, <3>1, <3>2
  <2>3. CASE oauthState[s] # "consumed"
    <3>1. exchanges[s] = 0
      BY <1>t, <2>1, <2>3 DEF ExchangeInv
    <3>2. \A q \in AccountRequests : accountReq[q].step = "exchanging" => accountReq[q].state # s
      BY <2>3 DEF ExchangeInv
    <3>3. /\ oauthState' = [oauthState EXCEPT ![s] = "consumed"]
          /\ accountReq' = [accountReq EXCEPT ![r].step = "exchanging"]
          /\ UNCHANGED exchanges
      BY <1>3, <2>3 DEF ConsumeState, AccountGoto
    <3>4. \A q \in AccountRequests : /\ accountReq'[q].state = accountReq[q].state
                                     /\ q # r => accountReq'[q].step = accountReq[q].step
      BY <3>3, <1>t DEF ExchangeInv, AccountsTypeOK, AccountRequestRecords
    <3> HIDE DEF s
    <3> QED
      BY <1>0, <1>t, <2>1, <3>1, <3>2, <3>3, <3>4 DEF ExchangeInv, s
  <2> QED
    BY <2>2, <2>3
<1>4. ASSUME NEW r \in AccountRequests, ExchangeCode(r)
      PROVE  ExchangeInv'
  <2> DEFINE s == accountReq[r].state
  <2>1. /\ s \in OAuthStates /\ exchanges[s] = 0 /\ oauthState[s] = "consumed"
        /\ \A q \in AccountRequests \ {r} : accountReq[q].step = "exchanging"
                                              => accountReq[q].state # s
    BY <1>4 DEF ExchangeInv, ExchangeCode
  <2>2. PICK answer \in {"granted", "refused"} :
            accountReq' = [accountReq EXCEPT ![r].step = answer]
    BY <1>4 DEF ExchangeCode, AccountGoto
  <2>3. exchanges' = [exchanges EXCEPT ![s] = 1] /\ oauthState' = oauthState
    BY <1>4, <2>1 DEF ExchangeCode
  <2>4. /\ accountReq'[r].step \notin {"found", "exchanging"}
        /\ \A q \in AccountRequests \ {r} : accountReq'[q] = accountReq[q]
    BY <1>t, <2>2 DEF ExchangeInv, AccountsTypeOK, AccountRequestRecords
  <2> HIDE DEF s
  <2> QED
    BY <1>0, <1>t, <2>1, <2>3, <2>4 DEF ExchangeInv
<1>5. ASSUME NEW r \in AccountRequests,
             \/ SaveTokens(r) \/ MarkError(r) \/ SetPreferred(r) \/ AccountRequestDies(r)
      PROVE  ExchangeInv'
  <2>1. IdleAccountRequest.step = "idle"
    BY DEF IdleAccountRequest
  <2>2. /\ accountReq' = [accountReq EXCEPT ![r] = IdleAccountRequest]
        /\ UNCHANGED <<oauthState, exchanges>>
    BY <1>5 DEF SaveTokens, MarkError, SetPreferred, AccountRequestDies, AccountReqEnds
  <2> QED
    BY <1>a, <2>1, <2>2
<1>6. ASSUME NEW r \in AccountRequests, ResolveAvailable(r)
      PROVE  ExchangeInv'
  <2> DEFINE record == [IdleAccountRequest EXCEPT !.step = "refreshing"]
  <2>1. record.step = "refreshing"
    BY DEF IdleAccountRequest
  <2>2. accountReq' = [accountReq EXCEPT ![r] = record] /\ UNCHANGED <<oauthState, exchanges>>
    BY <1>6 DEF ResolveAvailable
  <2> HIDE DEF record
  <2> QED
    BY <1>a, <2>1, <2>2
<1>7. ASSUME NEW r \in AccountRequests, RefreshAccessToken(r)
      PROVE  ExchangeInv'
  <2>1. PICK answer \in {"granted", "refused"} :
            accountReq' = [accountReq EXCEPT ![r] = [@ EXCEPT !.step = answer]]
    BY <1>7 DEF RefreshAccessToken, AccountGoto
  <2>2. [accountReq[r] EXCEPT !.step = answer].step \notin {"found", "exchanging"}
    BY DEF ExchangeInv, AccountsTypeOK, AccountRequestRecords
  <2> QED
    BY <1>7, <1>a, <2>1, <2>2 DEF RefreshAccessToken
<1>8. ASSUME NEW r \in AccountRequests, NEW p \in Providers, ReadPriorities(r, p)
      PROVE  ExchangeInv'
  <2>1. PICK max : accountReq' = [accountReq EXCEPT ![r] =
            [IdleAccountRequest EXCEPT !.step = "preferring", !.of = p, !.max = max]]
    BY <1>8 DEF ReadPriorities
  <2> DEFINE record == [IdleAccountRequest EXCEPT !.step = "preferring", !.of = p, !.max = max]
  <2>2. record.step = "preferring"
    BY DEF IdleAccountRequest
  <2>3. accountReq' = [accountReq EXCEPT ![r] = record] /\ UNCHANGED <<oauthState, exchanges>>
    BY <1>8, <2>1 DEF ReadPriorities
  <2> HIDE DEF record
  <2> QED
    BY <1>a, <2>2, <2>3
<1>9. ASSUME UNCHANGED <<oauthState, exchanges, accountReq>>
      PROVE  ExchangeInv'
  BY <1>0, <1>9 DEF ExchangeInv
<1>10. CASE UNCHANGED accountsVars
  BY <1>9, <1>10 DEF accountsVars
<1> QED
  BY <1>1, <1>2, <1>3, <1>4, <1>5, <1>6, <1>7, <1>8, <1>9, <1>10
     DEF AccountsNext, Disconnect, Pause, Resume, TokensAge, ConnectTransbank

\* The code of an authorization is exchanged at most once, however often the browser
\* delivers it and however the requests overlap.
THEOREM Exchanged == AccountsSpec => []ExchangedOnce
<1>1. ExchangeInv => ExchangedOnce
  BY DEF ExchangeInv, ExchangedOnce
<1> QED
  BY <1>1, ExchangeInit, ExchangeStep, PTL DEF AccountsSpec

\* An account that payments may use, or would use once resumed, has credentials.
THEOREM UsableHasCredentials == AccountsSpec => []CredentialsWhileUsable
<1>1. AccountsInit => CredentialsWhileUsable
  BY DEF AccountsInit, CredentialsWhileUsable, NoAccount
<1>2. AccountsTypeOK /\ CredentialsWhileUsable /\ [AccountsNext]_accountsVars
      => CredentialsWhileUsable'
  <2> SUFFICES ASSUME AccountsTypeOK, CredentialsWhileUsable, [AccountsNext]_accountsVars
               PROVE  CredentialsWhileUsable'
    OBVIOUS
  <2> USE DEF CredentialsWhileUsable
  <2>a. /\ DOMAIN account = Providers /\ MP \in Providers /\ TBK \in Providers
        /\ \A p \in Providers : account[p] \in AccountRecords
    BY DEF AccountsTypeOK, Providers
  <2>1. ASSUME UNCHANGED account
        PROVE  CredentialsWhileUsable'
    BY <2>1
  <2>3. ASSUME NEW s \in OAuthStates, StartConnection(s)
        PROVE  CredentialsWhileUsable'
    BY <2>3, <2>a DEF StartConnection, AccountRecords
  <2>4. ASSUME NEW r \in AccountRequests, SaveTokens(r)
        PROVE  CredentialsWhileUsable'
    BY <2>4, <2>a DEF SaveTokens, AccountRecords
  <2>8. ASSUME NEW r \in AccountRequests, MarkError(r)
        PROVE  CredentialsWhileUsable'
    BY <2>8, <2>a DEF MarkError, AccountRecords
  <2>7. ASSUME NEW r \in AccountRequests, SetPreferred(r)
        PROVE  CredentialsWhileUsable'
    <3> DEFINE p == accountReq[r].of
               n == accountReq[r].max + 1
    <3>1. CASE ~Exists(p)
      BY <2>7, <3>1, <2>1 DEF SetPreferred
    <3>2. CASE Exists(p)
      <4>1. account' = [account EXCEPT ![p].priority = n]
        BY <2>7, <3>2 DEF SetPreferred
      <4> HIDE DEF p, n
      <4>2. \A q \in Providers : /\ account'[q].status = account[q].status
                                /\ account'[q].credentials = account[q].credentials
        BY <4>1, <2>a DEF AccountRecords
      <4> QED
        BY <4>2
    <3> QED
      BY <3>1, <3>2
  <2>5. ASSUME NEW p \in Providers, Disconnect(p) \/ Pause(p) \/ Resume(p)
        PROVE  CredentialsWhileUsable'
    <3>1. CASE Disconnect(p)
      <4>1. /\ account'[p].status = "DISCONNECTED"
            /\ \A q \in Providers \ {p} : account'[q] = account[q]
        BY <2>a, <3>1 DEF Disconnect, AccountRecords
      <4> QED
        BY <4>1
    <3>2. CASE Pause(p) \/ Resume(p)
      <4>1. PICK status \in {"CONNECTED", "PAUSED"} :
               /\ account[p].status \in {"CONNECTED", "PAUSED"}
               /\ account' = [account EXCEPT ![p].status = status]
        BY <3>2 DEF Pause, Resume
      <4>2. /\ account'[p].credentials = account[p].credentials
            /\ \A q \in Providers \ {p} : account'[q] = account[q]
        BY <2>a, <4>1 DEF AccountRecords
      <4> QED
        BY <4>1, <4>2
    <3> QED
      BY <2>5, <3>1, <3>2
  <2>6. ASSUME TokensAge \/ ConnectTransbank
        PROVE  CredentialsWhileUsable'
    BY <2>6, <2>a DEF TokensAge, ConnectTransbank, AccountRecords
  <2> QED
    BY <2>1, <2>3, <2>4, <2>5, <2>6, <2>7, <2>8
       DEF AccountsNext, accountsVars, StateExpires, FindState, ConsumeState, ExchangeCode,
           ResolveAvailable, RefreshAccessToken, ReadPriorities, AccountRequestDies
<1> QED
  BY <1>1, <1>2, AccountsTypes, PTL DEF AccountsSpec
-----------------------------------------------------------------------------
(* Modifiers                                                               *)

LEMMA ModifiersTypeInit == ModifiersInit => ModifiersTypeOK
BY MaxSelectAssumption
   DEF ModifiersInit, ModifiersTypeOK, NoGroup, NewLimits, Limits, LimitFields,
       ModifierRequestRecords, IdleModifierRequest

LEMMA MergedType ==
    ASSUME NEW limits \in Limits, NEW sent \in Limits, NEW fields
    PROVE  Merged(limits, sent, fields) \in Limits
BY DEF Merged, Limits

LEMMA NewLimitsType == NewLimits \in Limits
BY MaxSelectAssumption DEF NewLimits, Limits

LEMMA ModReqEndsType ==
    ASSUME ModifiersTypeOK, NEW q \in ModifierRequests, ModReqEnds(q)
    PROVE  modReq' \in [ModifierRequests -> ModifierRequestRecords]
BY NewLimitsType
   DEF ModifiersTypeOK, ModReqEnds, ModifierRequestRecords, IdleModifierRequest, LimitFields

LEMMA ModifiersTypeStep ==
    ModifiersTypeOK /\ [LimitsNext \/ ItemGroupsNext]_modifierVars => ModifiersTypeOK'
<1> SUFFICES ASSUME ModifiersTypeOK, [LimitsNext \/ ItemGroupsNext]_modifierVars
             PROVE  ModifiersTypeOK'
  OBVIOUS
<1> USE DEF ModifiersTypeOK
<1>a. EditedGroups \subseteq Groups
  BY MaxSelectAssumption
<1>1. ASSUME NEW g \in Groups, NEW limits \in Limits, CreateModifierGroup(g, limits)
      PROVE  ModifiersTypeOK'
  BY <1>1 DEF CreateModifierGroup, ItemGroups
<1>2. ASSUME NEW q \in ModifierRequests, NEW g \in Groups, NEW sent \in Limits,
             NEW fields \in SUBSET LimitFields, UpdateModifierGroup(q, g, sent, fields)
      PROVE  ModifiersTypeOK'
  <2> DEFINE record == [IdleModifierRequest EXCEPT !.step = "update", !.group = g,
                            !.fields = fields, !.limits = Merged(NewLimits, sent, fields)]
  <2>1. record \in ModifierRequestRecords
    BY MergedType, NewLimitsType DEF ModifierRequestRecords, IdleModifierRequest
  <2>2. modReq' = [modReq EXCEPT ![q] = record]
    BY <1>2 DEF UpdateModifierGroup
  <2> HIDE DEF record
  <2>3. modReq' \in [ModifierRequests -> ModifierRequestRecords]
    BY <2>1, <2>2
  <2> QED
    BY <1>2, <2>3 DEF UpdateModifierGroup, ItemGroups
<1>3. ASSUME NEW q \in ModifierRequests, CommitModifierGroup(q)
      PROVE  ModifiersTypeOK'
  <2> DEFINE g == modReq[q].group
             new == Merged(group[g].limits, modReq[q].limits, modReq[q].fields)
  <2>1. g \in Groups => new \in Limits
    BY MergedType DEF ModifierRequestRecords
  <2>2. group' = [group EXCEPT ![g].limits = new]
    BY <1>3 DEF CommitModifierGroup
  <2> HIDE DEF g, new
  <2>3. group' \in [Groups -> [exists : BOOLEAN, limits : Limits]]
    BY <2>1, <2>2
  <2> QED
    BY <1>3, <2>3, ModReqEndsType DEF CommitModifierGroup, ItemGroups
<1>4. ASSUME NEW o \in Options, NEW g \in Groups, NEW available \in BOOLEAN,
             CreateModifierOption(o, g, available) \/ UpdateModifierOption(o, available)
      PROVE  ModifiersTypeOK'
  BY <1>4 DEF CreateModifierOption, UpdateModifierOption, ItemGroups
<1>5. ASSUME NEW o \in Options, NEW available \in BOOLEAN, UpdateModifierOption(o, available)
      PROVE  ModifiersTypeOK'
  BY <1>5 DEF UpdateModifierOption, ItemGroups
<1>6. ASSUME NEW q \in ModifierRequests, NEW i \in Items, NEW groups \in SUBSET Groups,
             SetMenuItemModifierGroups(q, i, groups)
      PROVE  ModifiersTypeOK'
  <2> DEFINE record == [IdleModifierRequest EXCEPT !.step = "replace", !.item = i,
                                                   !.groups = groups, !.fresh = TRUE]
  <2>1. record \in ModifierRequestRecords
    BY NewLimitsType DEF ModifierRequestRecords, IdleModifierRequest
  <2>2. modReq' = [modReq EXCEPT ![q] = record]
    BY <1>6 DEF SetMenuItemModifierGroups
  <2> HIDE DEF record
  <2>3. modReq' \in [ModifierRequests -> ModifierRequestRecords]
    BY <2>1, <2>2
  <2> QED
    BY <1>6, <2>3 DEF SetMenuItemModifierGroups, ItemGroups
<1>7. ASSUME NEW q \in ModifierRequests, CommitItemGroups(q)
      PROVE  ModifiersTypeOK'
  <2>1. modReq[q].groups \subseteq Groups
    BY DEF ModifierRequestRecords
  <2>2. /\ attached' \in [Items -> SUBSET Groups]
        /\ sentGroups' \in [Items -> SUBSET Groups]
    BY <1>7, <2>1 DEF CommitItemGroups, Replaced
  <2>3. modReq' \in [ModifierRequests -> ModifierRequestRecords]
    <3>1. IdleModifierRequest \in ModifierRequestRecords
      BY NewLimitsType DEF ModifierRequestRecords, IdleModifierRequest
    <3>2. \A o \in ModifierRequests :
              [modReq[o] EXCEPT !.fresh = FALSE] \in ModifierRequestRecords
      BY DEF ModifierRequestRecords
    <3> QED
      BY <1>7, <3>1, <3>2 DEF CommitItemGroups
  <2> QED
    BY <1>7, <2>2, <2>3 DEF CommitItemGroups
<1>8. ASSUME NEW q \in ModifierRequests, ModifierRequestDies(q)
      PROVE  ModifiersTypeOK'
  BY <1>8, ModReqEndsType DEF ModifierRequestDies, ItemGroups
<1>9. CASE UNCHANGED modifierVars
  BY <1>9 DEF modifierVars
<1> QED
  BY <1>a, <1>1, <1>2, <1>3, <1>4, <1>5, <1>6, <1>7, <1>8, <1>9, NewLimitsType
     DEF LimitsNext, ItemGroupsNext

\* Every variable of the modifiers keeps its type.
THEOREM ModifiersTypes == ModifiersSpec => []ModifiersTypeOK
BY ModifiersTypeInit, ModifiersTypeStep, PTL DEF ModifiersSpec

\* Each request that replaces the groups of an item saw the latest ones or the item is
\* known to be raced, and two requests about one item always are.
ItemListInv ==
    /\ \A q \in ModifierRequests :
           modReq[q].step = "replace" <=> modReq[q].item # Nothing
    /\ \A q \in ModifierRequests :
           modReq[q].step = "replace" => modReq[q].fresh \/ modReq[q].item \in listRaced
    /\ \A q, o \in ModifierRequests :
           q # o /\ modReq[q].item = modReq[o].item /\ modReq[q].item # Nothing
           => modReq[q].item \in listRaced
    /\ ItemGroupsAsSent

\* Requests that begin or end without an item leave the lists as they are.
LEMMA ItemListKept ==
    ASSUME ItemListInv, UNCHANGED <<ItemGroups, listRaced>>,
           NEW q \in ModifierRequests, ModifiersTypeOK,
           \A o \in ModifierRequests \ {q} : modReq'[o] = modReq[o],
           modReq'[q].item = Nothing, modReq'[q].step # "replace"
    PROVE  ItemListInv'
BY DEF ItemListInv, ItemGroupsAsSent, ItemGroups

LEMMA ItemListStep ==
    ModifiersTypeOK /\ ItemListInv /\ [LimitsNext \/ ItemGroupsNext]_modifierVars => ItemListInv'
<1> SUFFICES ASSUME ModifiersTypeOK, ItemListInv, [LimitsNext \/ ItemGroupsNext]_modifierVars
             PROVE  ItemListInv'
  OBVIOUS
<1>a. /\ DOMAIN modReq = ModifierRequests /\ DOMAIN attached = Items
      /\ DOMAIN sentGroups = Items /\ Nothing \notin Items
      /\ \A q \in ModifierRequests : /\ modReq[q].item \in Items \cup {Nothing}
                                     /\ modReq[q] \in ModifierRequestRecords
  BY NothingAssumption DEF ModifiersTypeOK, ModifierRequestRecords
<1>1. ASSUME UNCHANGED <<ItemGroups, modReq, listRaced>>
      PROVE  ItemListInv'
  BY <1>1 DEF ItemListInv, ItemGroupsAsSent, ItemGroups
<1>2. ASSUME NEW q \in ModifierRequests, NEW g, NEW sent, NEW fields,
             UpdateModifierGroup(q, g, sent, fields)
      PROVE  ItemListInv'
  BY <1>2, <1>a, ItemListKept DEF UpdateModifierGroup, IdleModifierRequest
<1>3. ASSUME NEW q \in ModifierRequests, CommitModifierGroup(q) \/ ModifierRequestDies(q)
      PROVE  ItemListInv'
  BY <1>3, <1>a, ItemListKept
     DEF CommitModifierGroup, ModifierRequestDies, ModReqEnds, IdleModifierRequest
<1>4. ASSUME NEW q \in ModifierRequests, NEW i \in Items, NEW groups,
             SetMenuItemModifierGroups(q, i, groups)
      PROVE  ItemListInv'
  <2>1. /\ modReq'[q].step = "replace" /\ modReq'[q].item = i /\ modReq'[q].fresh
        /\ \A o \in ModifierRequests \ {q} : modReq'[o] = modReq[o]
    BY <1>4, <1>a DEF SetMenuItemModifierGroups, IdleModifierRequest
  <2>2. /\ UNCHANGED ItemGroups /\ listRaced \subseteq listRaced'
        /\ \A o \in ModifierRequests : modReq[o].item = i => i \in listRaced'
    BY <1>4 DEF SetMenuItemModifierGroups
  <2> QED
    BY <2>1, <2>2, <1>a DEF ItemListInv, ItemGroupsAsSent, ItemGroups
<1>5. ASSUME NEW q \in ModifierRequests, CommitItemGroups(q)
      PROVE  ItemListInv'
  <2> DEFINE i == modReq[q].item
             done == ~Refused(attached[i], modReq[q].fresh, modReq[q].groups)
  <2>1. /\ i \in Items /\ UNCHANGED listRaced
        /\ modReq'[q] = IdleModifierRequest
        /\ \A o \in ModifierRequests \ {q} :
               /\ modReq'[o].step = modReq[o].step /\ modReq'[o].item = modReq[o].item
               /\ modReq'[o].fresh = modReq[o].fresh \/ modReq[o].item = i
    BY <1>5, <1>a DEF CommitItemGroups, ItemListInv, ModReqAt, ModifierRequestRecords
  <2>2. /\ \A j \in Items \ {i} : attached'[j] = attached[j] /\ sentGroups'[j] = sentGroups[j]
        /\ i \notin listRaced => attached'[i] = sentGroups'[i]
    <3>1. CASE done
      <4>1. /\ attached' = [attached EXCEPT ![i] =
                   Replaced(attached[i], modReq[q].fresh, modReq[q].groups)]
            /\ sentGroups' = [sentGroups EXCEPT ![i] = modReq[q].groups]
        BY <1>5, <3>1 DEF CommitItemGroups
      <4>2. i \notin listRaced => modReq[q].fresh
        BY <1>5 DEF ItemListInv, CommitItemGroups, ModReqAt
      <4> QED
        BY <4>1, <4>2, <2>1, <1>a DEF Replaced
    <3>2. CASE ~done
      <4>1. UNCHANGED ItemGroups
        BY <1>5, <3>2 DEF CommitItemGroups, ItemGroups
      <4> QED
        BY <4>1, <2>1 DEF ItemListInv, ItemGroupsAsSent, ItemGroups
    <3> QED
      BY <3>1, <3>2
  <2> QED
    BY <2>1, <2>2, <1>a DEF ItemListInv, ItemGroupsAsSent, IdleModifierRequest
<1> QED
  BY <1>1, <1>2, <1>3, <1>4, <1>5
     DEF LimitsNext, ItemGroupsNext, modifierVars, CreateModifierGroup,
         CreateModifierOption, UpdateModifierOption, ItemGroups

\* An item has the groups of the request that replaced them last, unless two overlapped.
THEOREM ItemGroupsWhole == ModifiersSpec => []ItemGroupsAsSent
<1>1. ModifiersInit => ItemListInv
  BY DEF ModifiersInit, ItemListInv, ItemGroupsAsSent, IdleModifierRequest
<1>2. ItemListInv => ItemGroupsAsSent
  BY DEF ItemListInv
<1> QED
  BY <1>1, <1>2, ItemListStep, ModifiersTypes, PTL DEF ModifiersSpec

\* Limits that are ordered, unless a group requires a selection and allows none, leave
\* a number of options that fits.
LEMMA SomeCountFits ==
    ASSUME NEW limits \in Limits, LimitsOrdered(limits),
           ~(limits.required /\ limits.max = 0)
    PROVE  /\ EffectiveMin(limits) \in 0..(MaxSelect + 1)
           /\ CountFits(limits, EffectiveMin(limits))
BY MaxSelectAssumption, NothingAssumption
   DEF Limits, LimitsOrdered, EffectiveMin, CountFits

\* One option named n times is n options of its group.
LEMMA RepeatedOption ==
    ASSUME NEW g, NEW o, NEW n \in Nat, option[o].of = g, option[o].available,
           CountFits(group[g].limits, n)
    PROVE  Resolves({g}, [k \in 1..n |-> o])
<1> DEFINE selected == [k \in 1..n |-> o]
<1>1. /\ DOMAIN selected = 1..n
      /\ \A k \in 1..n : selected[k] = o
  OBVIOUS
<1> HIDE DEF selected
<1>2. {k \in DOMAIN selected : option[selected[k]].of = g} = 1..n
  BY <1>1
<1>3. Cardinality(1..n) = n
  <2>1. Cardinality(1..n) = IF 1 > n THEN 0 ELSE n - 1 + 1
    BY FS_Interval
  <2> QED
    BY <2>1
<1>4. Resolves({g}, selected)
  BY <1>1, <1>2, <1>3 DEF Resolves
<1> QED
  BY <1>4 DEF selected

\* The fields that a request keeps are those that it merges.
LEMMA MergedTwice ==
    ASSUME NEW limits \in Limits, NEW sent \in Limits, NEW fields
    PROVE  Merged(limits, Merged(NewLimits, sent, fields), fields) = Merged(limits, sent, fields)
BY NewLimitsType DEF Merged, Limits

\* An update under way about a group that is not raced finds the limits it compared.
LimitsInv ==
    /\ \A q \in ModifierRequests : modReq[q].step = "update" <=> modReq[q].group # Nothing
    /\ \A q \in ModifierRequests : modReq[q].step = "update" => group[modReq[q].group].exists
    /\ \A q \in ModifierRequests :
           modReq[q].step = "update" /\ modReq[q].group \notin groupRaced
           => NextOrdered(group[modReq[q].group].limits, modReq[q].limits, modReq[q].fields)
    /\ \A q, o \in ModifierRequests :
           q # o /\ modReq[q].group = modReq[o].group /\ modReq[q].group # Nothing
           => modReq[q].group \in groupRaced
    /\ \A g \in Groups \ groupRaced : LimitsOrdered(group[g].limits)

LEMMA LimitsInvStep ==
    ModifiersTypeOK /\ LimitsInv /\ [LimitsNext \/ ItemGroupsNext]_modifierVars => LimitsInv'
<1> SUFFICES ASSUME ModifiersTypeOK, LimitsInv, [LimitsNext \/ ItemGroupsNext]_modifierVars
             PROVE  LimitsInv'
  OBVIOUS
<1>a. /\ DOMAIN modReq = ModifierRequests /\ DOMAIN group = Groups
      /\ Nothing \notin Groups /\ EditedGroups \subseteq Groups
      /\ \A g \in Groups : /\ group[g] \in [exists : BOOLEAN, limits : Limits]
                           /\ group[g].limits \in Limits
      /\ \A q \in ModifierRequests : /\ modReq[q].group \in Groups \cup {Nothing}
                                     /\ modReq[q].limits \in Limits
                                     /\ modReq[q] \in ModifierRequestRecords
  BY NothingAssumption, MaxSelectAssumption DEF ModifiersTypeOK, ModifierRequestRecords
<1>1. ASSUME UNCHANGED <<group, modReq, groupRaced>>
      PROVE  LimitsInv'
  BY <1>1 DEF LimitsInv
<1>2. ASSUME NEW g \in Groups, NEW limits \in Limits, CreateModifierGroup(g, limits)
      PROVE  LimitsInv'
  <2>1. /\ ~group[g].exists /\ LimitsOrdered(limits) /\ UNCHANGED <<modReq, groupRaced>>
        /\ group'[g].limits = limits
        /\ \A other \in Groups \ {g} : group'[other] = group[other]
    BY <1>2, <1>a DEF CreateModifierGroup
  <2> QED
    BY <2>1, <1>a DEF LimitsInv
<1>3. ASSUME NEW q \in ModifierRequests, NEW g \in Groups, NEW sent \in Limits,
             NEW fields \in SUBSET LimitFields, UpdateModifierGroup(q, g, sent, fields)
      PROVE  LimitsInv'
  <2>1. /\ modReq'[q].step = "update" /\ modReq'[q].group = g /\ modReq'[q].fields = fields
        /\ modReq'[q].limits = Merged(NewLimits, sent, fields)
        /\ \A o \in ModifierRequests \ {q} : modReq'[o] = modReq[o]
    BY <1>3, <1>a DEF UpdateModifierGroup, IdleModifierRequest
  <2>2. /\ UNCHANGED group /\ group[g].exists /\ groupRaced \subseteq groupRaced'
        /\ \A o \in ModifierRequests : modReq[o].group = g => g \in groupRaced'
    BY <1>3 DEF UpdateModifierGroup
  <2>3. NextOrdered(group[g].limits, modReq'[q].limits, fields)
    BY <1>3, <2>1, <1>a, MergedTwice DEF UpdateModifierGroup, NextOrdered
  <2> QED
    BY <2>1, <2>2, <2>3, <1>a DEF LimitsInv
<1>4. ASSUME NEW q \in ModifierRequests, CommitModifierGroup(q)
      PROVE  LimitsInv'
  <2> DEFINE g == modReq[q].group
             new == Merged(group[g].limits, modReq[q].limits, modReq[q].fields)
  <2>1. g \in Groups
    BY <1>4, <1>a DEF CommitModifierGroup, ModReqAt, LimitsInv
  <2>2. group' = [group EXCEPT ![g].limits = new]
    BY <1>4 DEF CommitModifierGroup
  <2>3. g \notin groupRaced => LimitsOrdered(new)
    BY <1>4 DEF CommitModifierGroup, ModReqAt, LimitsInv, NextOrdered
  <2>4. /\ modReq'[q].step = "idle" /\ modReq'[q].group = Nothing
        /\ \A o \in ModifierRequests \ {q} : modReq'[o] = modReq[o]
        /\ UNCHANGED groupRaced
    BY <1>4, <1>a DEF CommitModifierGroup, ModReqEnds, IdleModifierRequest
  <2>5. \A o \in ModifierRequests \ {q} : modReq[o].group = g => g \in groupRaced
    BY <2>1, <1>a DEF LimitsInv
  <2> HIDE DEF g, new
  <2>6. /\ group'[g].limits = new /\ group'[g].exists = group[g].exists
        /\ \A other \in Groups \ {g} : group'[other] = group[other]
    BY <2>1, <2>2, <1>a
  <2> QED
    BY <2>1, <2>3, <2>4, <2>5, <2>6, <1>a DEF LimitsInv
<1>5. ASSUME NEW q \in ModifierRequests, ModifierRequestDies(q)
      PROVE  LimitsInv'
  <2>1. /\ modReq'[q].step = "idle" /\ modReq'[q].group = Nothing
        /\ \A o \in ModifierRequests \ {q} : modReq'[o] = modReq[o]
        /\ UNCHANGED <<group, groupRaced>>
    BY <1>5, <1>a DEF ModifierRequestDies, ModReqEnds, IdleModifierRequest
  <2> QED
    BY <2>1, <1>a DEF LimitsInv
<1>6. ASSUME NEW q \in ModifierRequests, NEW i \in Items, NEW groups,
             SetMenuItemModifierGroups(q, i, groups)
      PROVE  LimitsInv'
  <2>1. /\ modReq'[q].step = "replace" /\ modReq'[q].group = Nothing
        /\ \A o \in ModifierRequests \ {q} : modReq'[o] = modReq[o]
        /\ UNCHANGED <<group, groupRaced>>
    BY <1>6, <1>a DEF SetMenuItemModifierGroups, IdleModifierRequest
  <2> QED
    BY <2>1, <1>a DEF LimitsInv
<1>7. ASSUME NEW q \in ModifierRequests, CommitItemGroups(q)
      PROVE  LimitsInv'
  <2>1. /\ modReq[q].step = "replace"
        /\ modReq'[q].step = "idle" /\ modReq'[q].group = Nothing
        /\ UNCHANGED <<group, groupRaced>>
    BY <1>7, <1>a DEF CommitItemGroups, ModReqAt, IdleModifierRequest
  <2>2. \A o \in ModifierRequests \ {q} :
            /\ modReq'[o].step = modReq[o].step /\ modReq'[o].group = modReq[o].group
            /\ modReq'[o].limits = modReq[o].limits /\ modReq'[o].fields = modReq[o].fields
    BY <1>7, <1>a DEF CommitItemGroups, ModifierRequestRecords
  <2> QED
    BY <2>1, <2>2, <1>a DEF LimitsInv
<1> QED
  BY <1>a, <1>1, <1>2, <1>3, <1>4, <1>5, <1>6, <1>7, NewLimitsType
     DEF LimitsNext, ItemGroupsNext, modifierVars, CreateModifierOption,
         UpdateModifierOption

LEMMA LimitsInvInit == ModifiersInit => LimitsInv
BY DEF ModifiersInit, LimitsInv, LimitsOrdered, IdleModifierRequest, NoGroup, NewLimits

LEMMA OrderedIsPossible == ModifiersTypeOK /\ LimitsInv => SelectionPossible
<1> SUFFICES ASSUME ModifiersTypeOK, LimitsInv,
                    NEW g \in Groups \ groupRaced, NEW o \in Options,
                    option[o].of = g, option[o].available,
                    ~(group[g].limits.required /\ group[g].limits.max = 0)
             PROVE  \E n \in 0..(MaxSelect + 1) : Resolves({g}, [k \in 1..n |-> o])
  BY DEF SelectionPossible
<1> DEFINE n == EffectiveMin(group[g].limits)
<1>1. group[g].limits \in Limits /\ LimitsOrdered(group[g].limits)
  BY DEF ModifiersTypeOK, LimitsInv
<1>2. n \in 0..(MaxSelect + 1) /\ CountFits(group[g].limits, n)
  BY <1>1, SomeCountFits
<1> HIDE DEF n
<1>3. n \in Nat
  BY <1>2, MaxSelectAssumption
<1> QED
  BY <1>2, <1>3, RepeatedOption

\* A group never keeps guests from ordering the items it is attached to.
THEOREM GuestsCanSelect == ModifiersSpec => []SelectionPossible
BY LimitsInvInit, LimitsInvStep, OrderedIsPossible, ModifiersTypes, PTL DEF ModifiersSpec

-----------------------------------------------------------------------------
(* The floor plan                                                          *)

LEMMA FloorTypeInit == FloorInit => FloorTypeOK
<1> SUFFICES ASSUME FloorInit
             PROVE  FloorTypeOK
  OBVIOUS
<1>1. table \in [Tables -> TableRecords] /\ session \in [Tables -> TableSessionRecords]
  BY DEF FloorInit, TableRecords, TableSessionRecords
<1>2. floorReq \in [FloorRequests -> FloorRequestRecords]
  BY DEF FloorInit, FloorRequestRecords, IdleFloorRequest
<1> QED
  BY <1>1, <1>2 DEF FloorInit, FloorTypeOK, FloorRoles

LEMMA FloorReqEndsType ==
    ASSUME FloorTypeOK, NEW q \in FloorRequests, FloorReqEnds(q)
    PROVE  floorReq' \in [FloorRequests -> FloorRequestRecords]
BY DEF FloorTypeOK, FloorReqEnds, FloorRequestRecords, IdleFloorRequest

LEMMA FloorTypeStep == FloorTypeOK /\ [ZonesNext \/ AssignmentsNext]_floorVars => FloorTypeOK'
<1> SUFFICES ASSUME FloorTypeOK, [ZonesNext \/ AssignmentsNext]_floorVars
             PROVE  FloorTypeOK'
  OBVIOUS
<1> USE DEF FloorTypeOK, StaffRows, Sessions
<1>1. ASSUME NEW t \in Tables, CreateTable(t)
      PROVE  FloorTypeOK'
  BY <1>1 DEF CreateTable, TableRecords
<1>2. ASSUME NEW z \in Zones, NEW name \in ZoneNames,
             CreateTableZone(z, name) \/ RenameTableZone(z, name)
      PROVE  FloorTypeOK'
  BY <1>2 DEF CreateTableZone, RenameTableZone, NameZone
<1>3. ASSUME NEW z \in Zones, DeleteTableZone(z)
      PROVE  FloorTypeOK'
  <2>1. \A t \in Tables : [table[t] EXCEPT !.zone = NoZone] \in TableRecords
    BY DEF TableRecords
  <2> QED
    BY <1>3, <2>1 DEF DeleteTableZone
<1>4. ASSUME NEW q \in FloorRequests, NEW t \in Tables, NEW z \in Zones \cup {NoZone},
             SetTableZone(q, t, z)
      PROVE  FloorTypeOK'
  <2> DEFINE record == [IdleFloorRequest EXCEPT !.step = "move", !.table = t, !.zone = z]
  <2>1. record \in FloorRequestRecords
    BY DEF FloorRequestRecords, IdleFloorRequest
  <2>2. floorReq' = [floorReq EXCEPT ![q] = record]
    BY <1>4 DEF SetTableZone
  <2> HIDE DEF record
  <2> QED
    BY <1>4, <2>1, <2>2 DEF SetTableZone
<1>5. ASSUME NEW q \in FloorRequests, CommitTableZone(q)
      PROVE  FloorTypeOK'
  <2> DEFINE z == floorReq[q].zone
             t == floorReq[q].table
  <2>1. z \in Zones \cup {NoZone}
    BY DEF FloorRequestRecords
  <2>2. table' = [table EXCEPT ![t].zone = z] \/ table' = table
    BY <1>5 DEF CommitTableZone
  <2> HIDE DEF z, t
  <2>3. table' \in [Tables -> TableRecords]
    BY <2>1, <2>2 DEF TableRecords
  <2> QED
    BY <1>5, <2>3, FloorReqEndsType DEF CommitTableZone
<1>6. ASSUME NEW q \in FloorRequests, NEW z \in Zones, NEW staff \in SUBSET FloorStaff,
             SetZoneStaff(q, z, staff)
      PROVE  FloorTypeOK'
  <2> DEFINE record == [IdleFloorRequest EXCEPT !.step = "replace", !.zone = z,
                                                !.staff = staff, !.fresh = TRUE]
  <2>1. record \in FloorRequestRecords
    BY DEF FloorRequestRecords, IdleFloorRequest
  <2>2. floorReq' = [floorReq EXCEPT ![q] = record]
    BY <1>6 DEF SetZoneStaff
  <2> HIDE DEF record
  <2> QED
    BY <1>6, <2>1, <2>2 DEF SetZoneStaff
<1>7. ASSUME NEW q \in FloorRequests, CommitZoneStaff(q)
      PROVE  FloorTypeOK'
  <2>1. floorReq[q].staff \subseteq FloorStaff
    BY DEF FloorRequestRecords
  <2>2. zoneStaff' \in [Zones -> SUBSET FloorStaff] /\ sentStaff' \in [Zones -> SUBSET FloorStaff]
    BY <1>7, <2>1 DEF CommitZoneStaff, Replaced
  <2>3. IdleFloorRequest \in FloorRequestRecords
    BY DEF FloorRequestRecords, IdleFloorRequest
  <2>4. \A o \in FloorRequests : [floorReq[o] EXCEPT !.fresh = FALSE] \in FloorRequestRecords
    BY DEF FloorRequestRecords
  <2>5. floorReq' \in [FloorRequests -> FloorRequestRecords]
    BY <1>7, <2>3, <2>4 DEF CommitZoneStaff
  <2> QED
    BY <1>7, <2>2, <2>5 DEF CommitZoneStaff
<1>8. ASSUME NEW q \in FloorRequests, NEW t \in Tables, NEW by \in FloorStaff,
             NEW target \in FloorStaff, AssignTableSession(q, t, by, target)
      PROVE  FloorTypeOK'
  <2> DEFINE record == [IdleFloorRequest EXCEPT !.step = "assign", !.table = t,
                                                !.staff = {target}]
  <2>1. record \in FloorRequestRecords
    BY DEF FloorRequestRecords, IdleFloorRequest
  <2>2. floorReq' = [floorReq EXCEPT ![q] = record]
    BY <1>8 DEF AssignTableSession
  <2> HIDE DEF record
  <2> QED
    BY <1>8, <2>1, <2>2 DEF AssignTableSession
<1>9. ASSUME NEW q \in FloorRequests, CommitAssignment(q)
      PROVE  FloorTypeOK'
  <2> DEFINE t == floorReq[q].table
  <2>1. PICK target \in FloorStaff : session' = [session EXCEPT ![t].assigned = target]
    BY <1>9 DEF CommitAssignment, FloorRequestRecords
  <2> HIDE DEF t
  <2>2. session' \in [Tables -> TableSessionRecords]
    BY <2>1 DEF TableSessionRecords
  <2> QED
    BY <1>9, <2>2, FloorReqEndsType DEF CommitAssignment
<1>10. ASSUME NEW t \in Tables, NEW status \in {"active", "inactive"}, SessionMoves(t, status)
       PROVE  FloorTypeOK'
  BY <1>10 DEF SessionMoves, TableSessionRecords
<1>11. ASSUME NEW s \in FloorStaff, NEW r \in FloorRoles, RoleMoves(s, r)
       PROVE  FloorTypeOK'
  BY <1>11 DEF RoleMoves
<1>12. ASSUME NEW q \in FloorRequests, FloorRequestDies(q)
       PROVE  FloorTypeOK'
  BY <1>12, FloorReqEndsType DEF FloorRequestDies
<1>13. CASE UpdateBranch \/ UNCHANGED floorVars
  BY <1>13 DEF UpdateBranch, floorVars
<1> HIDE DEF FloorTypeOK, StaffRows, Sessions
<1>14. CASE ZonesNext
  BY <1>14, <1>1, <1>2, <1>3, <1>4, <1>5, <1>6, <1>7, <1>11, <1>12 DEF ZonesNext
<1>15. CASE AssignmentsNext
  BY <1>15, <1>1, <1>8, <1>9, <1>10, <1>11, <1>12, <1>13 DEF AssignmentsNext
<1> QED
  BY <1>13, <1>14, <1>15

\* Every variable of the floor keeps its type.
THEOREM FloorTypes == FloorSpec => []FloorTypeOK
BY FloorTypeInit, FloorTypeStep, PTL DEF FloorSpec

\* Like ItemListInv, for the zones: those that were deleted keep no rows.
ZoneListInv ==
    /\ \A q \in FloorRequests :
           floorReq[q].step = "replace"
           => floorReq[q].zone \in Zones
              /\ (floorReq[q].fresh \/ floorReq[q].zone \in zoneRaced)
    /\ \A q, o \in FloorRequests :
           q # o /\ floorReq[q].step = "replace" /\ floorReq[o].step = "replace"
           /\ floorReq[q].zone = floorReq[o].zone
           => floorReq[q].zone \in zoneRaced
    /\ ZoneStaffAsSent

\* The requests about the staff of a zone stay as they are, or one of them ends.
ReplacementsKept ==
    \A q \in FloorRequests : \/ floorReq'[q].step # "replace"
                             \/ floorReq'[q] = floorReq[q]

LEMMA ZoneListKept ==
    ASSUME FloorTypeOK, ZoneListInv, ReplacementsKept, UNCHANGED <<zone, table, StaffRows>>
    PROVE  ZoneListInv'
BY DEF ZoneListInv, ZoneStaffAsSent, ReplacementsKept, StaffRows, ZoneExists

LEMMA OneFloorRequestChanges ==
    ASSUME FloorTypeOK, NEW q \in FloorRequests, NEW record, record.step # "replace",
           floorReq' = [floorReq EXCEPT ![q] = record]
    PROVE  ReplacementsKept
BY DEF FloorTypeOK, ReplacementsKept

LEMMA FloorRequestEnds ==
    ASSUME FloorTypeOK, NEW q \in FloorRequests, FloorReqEnds(q)
    PROVE  ReplacementsKept
BY OneFloorRequestChanges DEF FloorReqEnds, IdleFloorRequest

LEMMA ZoneListStep ==
    FloorTypeOK /\ ZoneListInv /\ [ZonesNext \/ AssignmentsNext]_floorVars => ZoneListInv'
<1> SUFFICES ASSUME FloorTypeOK, ZoneListInv, [ZonesNext \/ AssignmentsNext]_floorVars
             PROVE  ZoneListInv'
  OBVIOUS
<1>a. /\ DOMAIN zone = Zones /\ DOMAIN table = Tables /\ DOMAIN floorReq = FloorRequests
      /\ DOMAIN zoneStaff = Zones /\ DOMAIN sentStaff = Zones
      /\ NoZone \notin Zones \cup ZoneNames
      /\ \A t \in Tables : table[t] \in TableRecords /\ table[t].zone \in Zones \cup {NoZone}
      /\ \A q \in FloorRequests : /\ floorReq[q] \in FloorRequestRecords
                                  /\ floorReq[q].zone \in Zones \cup {NoZone}
  BY NoZoneAssumption DEF FloorTypeOK, TableRecords, FloorRequestRecords
<1>b. ASSUME UNCHANGED floorReq
      PROVE  ReplacementsKept
  BY <1>b DEF ReplacementsKept
<1>1. ASSUME UNCHANGED <<zone, table, StaffRows, floorReq>>
      PROVE  ZoneListInv'
  BY <1>1, <1>b, ZoneListKept
<1>2. ASSUME NEW t \in Tables, CreateTable(t)
      PROVE  ZoneListInv'
  <2>1. \A other \in Tables : table'[other].zone = table[other].zone
    BY <1>2, <1>a DEF CreateTable, TableRecords
  <2> QED
    BY <1>2, <2>1 DEF CreateTable, StaffRows, ZoneListInv, ZoneStaffAsSent, ZoneExists
<1>3. ASSUME NEW z \in Zones, NEW name \in ZoneNames, NameZone(z, name)
      PROVE  ZoneListInv'
  <2>1. \A other \in Zones : zone'[other] = NoZone => zone[other] = NoZone
    BY <1>3, <1>a DEF NameZone
  <2> QED
    BY <1>3, <2>1, <1>a DEF NameZone, StaffRows, ZoneListInv, ZoneStaffAsSent, ZoneExists
<1>4. ASSUME NEW z \in Zones, DeleteTableZone(z)
      PROVE  ZoneListInv'
  <2>1. \A t \in Tables : table'[t].zone = IF table[t].zone = z THEN NoZone ELSE table[t].zone
    BY <1>4, <1>a DEF DeleteTableZone, TableRecords
  <2>2. /\ zoneStaff'[z] = {} /\ sentStaff'[z] = {} /\ zone'[z] = NoZone
        /\ \A other \in Zones \ {z} : /\ zoneStaff'[other] = zoneStaff[other]
                                      /\ sentStaff'[other] = sentStaff[other]
                                      /\ zone'[other] = zone[other]
        /\ UNCHANGED <<zoneRaced, floorReq>>
    BY <1>4, <1>a DEF DeleteTableZone
  <2>3. ZoneStaffAsSent'
    <3>1. \A other \in Zones \ zoneRaced : zoneStaff'[other] = sentStaff'[other]
      BY <2>2 DEF ZoneListInv, ZoneStaffAsSent
    <3>2. \A other \in Zones : zone'[other] = NoZone => zoneStaff'[other] = {}
      BY <2>2 DEF ZoneListInv, ZoneStaffAsSent
    <3>3. ASSUME NEW t \in Tables, table'[t].zone # NoZone
          PROVE  zone'[table'[t].zone] # NoZone
      <4>1. table'[t].zone = table[t].zone /\ table[t].zone # z
        BY <2>1, <3>3
      <4>2. table[t].zone \in Zones \ {z} /\ zone[table[t].zone] # NoZone
        BY <4>1, <3>3, <1>a DEF ZoneListInv, ZoneStaffAsSent, ZoneExists
      <4> QED
        BY <4>1, <4>2, <2>2
    <3> QED
      BY <3>1, <3>2, <3>3, <2>2 DEF ZoneStaffAsSent, ZoneExists
  <2> QED
    BY <2>2, <2>3 DEF ZoneListInv
<1>5. ASSUME NEW q \in FloorRequests, NEW t \in Tables, NEW z \in Zones \cup {NoZone},
             SetTableZone(q, t, z)
      PROVE  ZoneListInv'
  <2>1. ReplacementsKept
    BY <1>5, OneFloorRequestChanges DEF SetTableZone, IdleFloorRequest
  <2> QED
    BY <1>5, <2>1, ZoneListKept DEF SetTableZone
<1>6. ASSUME NEW q \in FloorRequests, CommitTableZone(q)
      PROVE  ZoneListInv'
  <2> DEFINE z == floorReq[q].zone
             t == floorReq[q].table
  <2>1. table' = table \/ ((z = NoZone \/ ZoneExists(z)) /\ table' = [table EXCEPT ![t].zone = z])
    BY <1>6 DEF CommitTableZone
  <2> HIDE DEF z, t
  <2>2. \A other \in Tables : table'[other].zone = table[other].zone
                              \/ table'[other].zone = NoZone \/ ZoneExists(table'[other].zone)
    BY <2>1, <1>a DEF TableRecords
  <2>3. ReplacementsKept
    BY <1>6, FloorRequestEnds DEF CommitTableZone
  <2> QED
    BY <1>6, <2>2, <2>3
       DEF CommitTableZone, ReplacementsKept, ZoneListInv, ZoneStaffAsSent, StaffRows, ZoneExists
<1>7. ASSUME NEW q \in FloorRequests, NEW z \in Zones, NEW staff \in SUBSET FloorStaff,
             SetZoneStaff(q, z, staff)
      PROVE  ZoneListInv'
  <2>1. /\ floorReq'[q].step = "replace" /\ floorReq'[q].zone = z /\ floorReq'[q].fresh
        /\ \A o \in FloorRequests \ {q} : floorReq'[o] = floorReq[o]
    BY <1>7, <1>a DEF SetZoneStaff, IdleFloorRequest
  <2>2. /\ zoneRaced \subseteq zoneRaced'
        /\ \A o \in FloorRequests :
               floorReq[o].step = "replace" /\ floorReq[o].zone = z => z \in zoneRaced'
    BY <1>7 DEF SetZoneStaff, FloorReqAt
  <2>3. ZoneStaffAsSent'
    BY <1>7, <2>2 DEF SetZoneStaff, ZoneListInv, ZoneStaffAsSent, ZoneExists
  <2> QED
    BY <2>1, <2>2, <2>3, <1>a DEF ZoneListInv
<1>8. ASSUME NEW q \in FloorRequests, CommitZoneStaff(q)
      PROVE  ZoneListInv'
  <2> DEFINE z == floorReq[q].zone
             new == floorReq[q].staff
             fresh == floorReq[q].fresh
             done == /\ ZoneExists(z) \/ new = {}
                     /\ ~Refused(zoneStaff[z], fresh, new)
  <2>1. /\ z \in Zones /\ UNCHANGED <<zone, table, zoneRaced>>
        /\ z \notin zoneRaced => fresh
        /\ \A o \in FloorRequests \ {q} :
               floorReq[o].step = "replace" /\ floorReq[o].zone = z => z \in zoneRaced
    BY <1>8 DEF CommitZoneStaff, FloorReqAt, ZoneListInv
  <2>2. /\ floorReq'[q].step = "idle"
        /\ \A o \in FloorRequests \ {q} :
               /\ floorReq'[o].step = floorReq[o].step /\ floorReq'[o].zone = floorReq[o].zone
               /\ \/ floorReq'[o].fresh = floorReq[o].fresh
                  \/ floorReq[o].step = "replace" /\ floorReq[o].zone = z
    BY <1>8, <1>a DEF CommitZoneStaff, FloorReqAt, FloorRequestRecords, IdleFloorRequest
  <2>3. ZoneStaffAsSent'
    <3>1. CASE done
      <4>1. /\ zoneStaff' = [zoneStaff EXCEPT ![z] = Replaced(zoneStaff[z], fresh, new)]
            /\ sentStaff' = [sentStaff EXCEPT ![z] = new]
        BY <1>8, <3>1 DEF CommitZoneStaff
      <4>2. zone[z] = NoZone => new = {} /\ zoneStaff[z] = {}
        BY <3>1, <2>1 DEF ZoneExists, ZoneListInv, ZoneStaffAsSent
      <4> HIDE DEF z, new, fresh
      <4> QED
        BY <4>1, <4>2, <2>1, <1>a DEF ZoneListInv, ZoneStaffAsSent, Replaced, ZoneExists
    <3>2. CASE ~done
      <4>1. UNCHANGED <<zoneStaff, sentStaff>>
        BY <1>8, <3>2 DEF CommitZoneStaff
      <4> QED
        BY <4>1, <2>1 DEF ZoneListInv, ZoneStaffAsSent, ZoneExists
    <3> QED
      BY <3>1, <3>2
  <2> HIDE DEF z, new, fresh, done
  <2>4. \A o \in FloorRequests \ {q} :
            floorReq[o].step = "replace" => floorReq'[o].fresh \/ floorReq[o].zone \in zoneRaced
    BY <2>1, <2>2 DEF ZoneListInv
  <2> QED
    BY <2>1, <2>2, <2>3, <2>4, <1>a DEF ZoneListInv
<1>9. ASSUME NEW q \in FloorRequests, NEW t \in Tables, NEW by \in FloorStaff,
             NEW target \in FloorStaff, AssignTableSession(q, t, by, target)
      PROVE  ZoneListInv'
  <2>1. ReplacementsKept
    BY <1>9, OneFloorRequestChanges DEF AssignTableSession, IdleFloorRequest
  <2> QED
    BY <1>9, <2>1, ZoneListKept DEF AssignTableSession
<1>10. ASSUME NEW q \in FloorRequests, CommitAssignment(q) \/ FloorRequestDies(q)
       PROVE  ZoneListInv'
  BY <1>10, FloorRequestEnds, ZoneListKept DEF CommitAssignment, FloorRequestDies
<1>11. CASE ZonesNext
  BY <1>11, <1>1, <1>2, <1>3, <1>4, <1>5, <1>6, <1>7, <1>8, <1>10
     DEF ZonesNext, CreateTableZone, RenameTableZone, RoleMoves
<1>12. CASE AssignmentsNext
  BY <1>12, <1>1, <1>2, <1>9, <1>10
     DEF AssignmentsNext, SessionMoves, RoleMoves, UpdateBranch
<1>13. CASE UNCHANGED floorVars
  BY <1>13, <1>1 DEF floorVars, StaffRows
<1> QED
  BY <1>11, <1>12, <1>13

\* A zone has the staff of the request that replaced them last, unless two overlapped,
\* and a deleted zone keeps neither staff nor tables.
THEOREM ZoneStaffWhole == FloorSpec => []ZoneStaffAsSent
<1>1. FloorInit => ZoneListInv
  BY DEF FloorInit, ZoneListInv, ZoneStaffAsSent, IdleFloorRequest
<1>2. ZoneListInv => ZoneStaffAsSent
  BY DEF ZoneListInv
<1> QED
  BY <1>1, <1>2, ZoneListStep, FloorTypes, PTL DEF FloorSpec

-----------------------------------------------------------------------------
(* Menus                                                                   *)

\* What a request for a menu may rely on: an edit knows what it writes and where.
MenuReqInv(q) ==
    /\ ~MenuReqAt(q, "idle") => menuReq[q].of \in Menus
    /\ menuReq[q].step \in EditSteps \cup ImageSteps => menuReq[q].at \in Categories
    /\ MenuReqAt(q, "editCategory") => menuReq[q].to \in CategoryStatuses
    /\ MenuReqAt(q, "editItem") => menuReq[q].to \in ItemStatuses \ {"NONE"}

\* Nobody edits the menu, and it has what guests may order, as was checked.
Settled(m) ==
    m \in menuRaced \/ (PublishableContent(m) /\ Serving(m, EditSteps) = {})

PublishInv ==
    /\ \A q \in MenuRequests :
           menuReq[q].step \in PublishSteps => Settled(menuReq[q].of)
    /\ defaultMenu # NoMenu => menu[defaultMenu] = "PUBLISHED" /\ Settled(defaultMenu)

\* One request works on the picture: a stored object waits for its row, and an object
\* is removed after its row.
PictureInv(x) ==
    /\ image[x].row => image[x].object
    /\ \A q, o \in Picturing(x) : q = o
    /\ \A q \in Picturing(x) : /\ MenuReqAt(q, "stored") => image[x].object
                               /\ MenuReqAt(q, "unstore") => ~image[x].row

MenusInv ==
    /\ MenusTypeOK
    /\ \A q \in MenuRequests : MenuReqInv(q)
    /\ PublishInv
    /\ \A x \in Slots \ imageRaced : PictureInv(x)

LEMMA MenusInitially == MenusInit => MenusInv
<1> SUFFICES ASSUME MenusInit
             PROVE  MenusInv
  OBVIOUS
<1>1. IdleMenuRequest \in MenuRequestRecords
  BY DEF IdleMenuRequest, MenuRequestRecords, MenuSteps, CategoryStatuses, ItemStatuses
<1>2. MenusTypeOK
  BY <1>1 DEF MenusInit, MenusTypeOK, MenuStatuses, CategoryStatuses, ItemStatuses
<1>3. \A q \in MenuRequests : menuReq[q].step = "idle"
  BY DEF MenusInit, IdleMenuRequest
<1>4. (\A q \in MenuRequests : MenuReqInv(q)) /\ PublishInv
  BY <1>3 DEF MenuReqInv, MenuReqAt, PublishInv, EditSteps, ImageSteps, PublishSteps, MenusInit
<1>5. \A x \in Slots : PictureInv(x)
  BY <1>3 DEF PictureInv, Picturing, Serving, ImageSteps, MenusInit
<1> QED
  BY <1>2, <1>4, <1>5 DEF MenusInv

LEMMA MenuRequestChanges ==
    ASSUME MenusTypeOK, NEW q \in MenuRequests, NEW record \in MenuRequestRecords,
           menuReq' = [menuReq EXCEPT ![q] = record]
    PROVE  /\ menuReq' \in [MenuRequests -> MenuRequestRecords]
           /\ menuReq'[q] = record
           /\ \A o \in MenuRequests \ {q} : menuReq'[o] = menuReq[o]
BY DEF MenusTypeOK

LEMMA MenuRequestEnds ==
    ASSUME MenusTypeOK, NEW q \in MenuRequests, MenuReqEnds(q)
    PROVE  /\ menuReq' \in [MenuRequests -> MenuRequestRecords]
           /\ menuReq'[q].step = "idle"
           /\ \A o \in MenuRequests \ {q} : menuReq'[o] = menuReq[o]
<1>1. IdleMenuRequest \in MenuRequestRecords /\ IdleMenuRequest.step = "idle"
  BY DEF IdleMenuRequest, MenuRequestRecords, MenuSteps, CategoryStatuses, ItemStatuses
<1> QED
  BY <1>1, MenuRequestChanges DEF MenuReqEnds

\* A request goes on to another step, for the same menu and item.
LEMMA MenuRequestGoesOn ==
    ASSUME MenusTypeOK, NEW q \in MenuRequests, NEW step \in MenuSteps, NEW others \in SUBSET Menus,
           menuReq' = [menuReq EXCEPT ![q].step = step, ![q].others = others]
    PROVE  /\ menuReq' \in [MenuRequests -> MenuRequestRecords]
           /\ menuReq'[q].step = step /\ menuReq'[q].of = menuReq[q].of
           /\ menuReq'[q].at = menuReq[q].at
           /\ \A o \in MenuRequests \ {q} : menuReq'[o] = menuReq[o]
<1> DEFINE record == [menuReq[q] EXCEPT !.step = step, !.others = others]
<1>1. menuReq[q] \in MenuRequestRecords
  BY DEF MenusTypeOK
<1>2. record \in MenuRequestRecords /\ record.step = step
      /\ record.of = menuReq[q].of /\ record.at = menuReq[q].at
  BY <1>1 DEF MenuRequestRecords
<1>3. menuReq' = [menuReq EXCEPT ![q] = record]
  OBVIOUS
<1> HIDE DEF record
<1> QED
  BY <1>2, <1>3, MenuRequestChanges

\* The other requests know what they knew.
LEMMA MenuReqInvKept ==
    ASSUME \A o \in MenuRequests : MenuReqInv(o), NEW q \in MenuRequests, MenuReqInv(q)',
           \A o \in MenuRequests \ {q} : menuReq'[o] = menuReq[o]
    PROVE  \A o \in MenuRequests : MenuReqInv(o)'
BY DEF MenuReqInv, MenuReqAt

\* No edit begins, nothing is published, and the content stays.
LEMMA PublishKept ==
    ASSUME PublishInv, UNCHANGED <<category, item, defaultMenu, menuRaced>>,
           defaultMenu # NoMenu => menu'[defaultMenu] = menu[defaultMenu],
           \A o \in MenuRequests :
               /\ menuReq'[o].step \in PublishSteps =>
                      menuReq[o].step \in PublishSteps /\ menuReq'[o].of = menuReq[o].of
               /\ menuReq'[o].step \in EditSteps => menuReq'[o] = menuReq[o]
    PROVE  PublishInv'
<1>1. ASSUME NEW m, Settled(m)
      PROVE  Settled(m)'
  BY <1>1 DEF Settled, PublishableContent, Serving
<1> QED
  BY <1>1 DEF PublishInv

LEMMA PictureKept ==
    ASSUME \A x \in Slots \ imageRaced : PictureInv(x), UNCHANGED <<image, imageRaced>>,
           \A o \in MenuRequests : menuReq'[o].step \in ImageSteps => menuReq'[o] = menuReq[o]
    PROVE  \A x \in Slots \ imageRaced' : PictureInv(x)'
BY DEF PictureInv, Picturing, Serving, MenuReqAt, ImageSteps

\* A request that ends, having written no more than the content of a menu.
LEMMA MenuCreated == ASSUME MenusInv, NEW m \in Menus, CreateMenu(m) PROVE MenusInv'
<1>1. /\ menu[m] = "NONE" /\ menu' = [menu EXCEPT ![m] = "DRAFT"]
      /\ UNCHANGED <<category, item, image, defaultMenu, menuReq, menuRaced, imageRaced>>
  BY DEF CreateMenu, Content
<1>2. MenusTypeOK'
  BY <1>1 DEF MenusInv, MenusTypeOK, MenuStatuses
<1>3. \A q \in MenuRequests : MenuReqInv(q)'
  BY <1>1 DEF MenusInv, MenuReqInv, MenuReqAt
<1>4. defaultMenu # NoMenu => menu'[defaultMenu] = menu[defaultMenu]
  BY <1>1 DEF MenusInv, PublishInv, MenusTypeOK
<1>5. PublishInv'
  BY <1>1, <1>4, PublishKept DEF MenusInv
<1>6. \A x \in Slots \ imageRaced' : PictureInv(x)'
  BY <1>1, PictureKept DEF MenusInv
<1> QED
  BY <1>2, <1>3, <1>5, <1>6 DEF MenusInv

\* An edit begins on a DRAFT; if that menu is being published they race.
LEMMA EditStarts ==
    ASSUME MenusInv, NEW q \in MenuRequests, NEW m \in Menus, NEW c \in Categories,
           NEW step \in EditSteps, NEW to \in CategoryStatuses \cup ItemStatuses,
           step = "editCategory" => to \in CategoryStatuses,
           step = "editItem" => to \in ItemStatuses \ {"NONE"},
           StartEdit(q, m, c, step, to)
    PROVE  MenusInv'
<1> DEFINE record == [IdleMenuRequest EXCEPT !.step = step, !.of = m, !.at = c, !.to = to]
<1>0. step \in MenuSteps
  BY DEF EditSteps, MenuSteps
<1>1. /\ record \in MenuRequestRecords
      /\ record.step = step /\ record.of = m /\ record.at = c /\ record.to = to
  BY <1>0 DEF MenuRequestRecords, IdleMenuRequest
<1>2. /\ menuReq' = [menuReq EXCEPT ![q] = record] /\ menu[m] = "DRAFT"
      /\ menuRaced' = IF Serving(m, PublishSteps) # {} THEN menuRaced \cup {m} ELSE menuRaced
      /\ menuReq[q].step = "idle"
      /\ UNCHANGED <<menu, category, item, image, defaultMenu, imageRaced>>
  BY DEF StartEdit, Content, MenuReqAt
<1> HIDE DEF record
<1>3. /\ menuReq' \in [MenuRequests -> MenuRequestRecords] /\ menuReq'[q] = record
      /\ \A o \in MenuRequests \ {q} : menuReq'[o] = menuReq[o]
  BY <1>1, <1>2, MenuRequestChanges DEF MenusInv
<1>4. MenusTypeOK'
  BY <1>2, <1>3 DEF MenusInv, MenusTypeOK
<1>5. MenuReqInv(q)'
  BY <1>1, <1>3 DEF MenuReqInv, MenuReqAt
<1>6. \A o \in MenuRequests : MenuReqInv(o)'
  BY <1>3, <1>5, MenuReqInvKept DEF MenusInv
<1>7. ASSUME NEW n \in Menus, Settled(n), n # m \/ Serving(m, PublishSteps) # {}
      PROVE  Settled(n)'
  <2>1. CASE n = m
    BY <1>2, <1>7, <2>1 DEF Settled
  <2>2. CASE n # m
    BY <1>1, <1>2, <1>3, <1>7, <2>2 DEF Settled, PublishableContent, Serving
  <2> QED
    BY <2>1, <2>2
<1>8. PublishInv'
  <2>1. ASSUME NEW o \in MenuRequests, menuReq'[o].step \in PublishSteps
        PROVE  Settled(menuReq[o].of)' /\ menuReq'[o].of = menuReq[o].of
    <3>1. step \notin PublishSteps
      BY DEF EditSteps, PublishSteps
    <3>2. o # q /\ menuReq'[o] = menuReq[o]
      BY <1>1, <1>3, <2>1, <3>1
    <3>3. menuReq[o].of \in Menus /\ Settled(menuReq[o].of)
      BY <2>1, <3>2 DEF MenusInv, PublishInv, MenuReqInv, MenuReqAt, PublishSteps
    <3>4. menuReq[o].of = m => Serving(m, PublishSteps) # {}
      BY <2>1, <3>2 DEF Serving
    <3> DEFINE n == menuReq[o].of
    <3>5. n \in Menus /\ Settled(n) /\ (n # m \/ Serving(m, PublishSteps) # {})
      BY <3>3, <3>4
    <3>6. PICK k : k = n
      OBVIOUS
    <3>7. Settled(k)'
      BY <1>7, <3>5, <3>6
    <3> QED
      BY <3>2, <3>6, <3>7
  <2>2. ASSUME defaultMenu # NoMenu
        PROVE  menu'[defaultMenu'] = "PUBLISHED" /\ Settled(defaultMenu)'
    <3>1. defaultMenu \in Menus /\ menu[defaultMenu] = "PUBLISHED" /\ Settled(defaultMenu)
      BY <2>2 DEF MenusInv, MenusTypeOK, PublishInv
    <3>2. PICK d : d = defaultMenu
      OBVIOUS
    <3>3. d # m /\ Settled(d)
      BY <1>2, <3>1, <3>2
    <3>4. Settled(d)'
      BY <1>7, <3>1, <3>2, <3>3
    <3> QED
      BY <1>2, <3>1, <3>2, <3>4
  <2> QED
    BY <1>2, <2>1, <2>2 DEF PublishInv
<1>9. \A x \in Slots \ imageRaced' : PictureInv(x)'
  <2>1. \A o \in MenuRequests : menuReq'[o].step \in ImageSteps => menuReq'[o] = menuReq[o]
    BY <1>1, <1>3 DEF EditSteps, ImageSteps
  <2> QED
    BY <1>2, <2>1, PictureKept DEF MenusInv
<1> QED
  BY <1>4, <1>6, <1>8, <1>9 DEF MenusInv

\* What is settled stays so while its content stays and no edit of it begins.
LEMMA SettledKept ==
    ASSUME NEW m, Settled(m), menuRaced \subseteq menuRaced',
           \/ m \in menuRaced
           \/ /\ \A c \in Categories : /\ category'[<<m, c>>] = category[<<m, c>>]
                                       /\ item'[<<m, c>>] = item[<<m, c>>]
              /\ Serving(m, EditSteps)' \subseteq Serving(m, EditSteps)
    PROVE  Settled(m)'
BY DEF Settled, PublishableContent

\* An edit is written whatever the menu has become: one that was published meanwhile
\* raced with it.
LEMMA EditCommits ==
    ASSUME MenusInv, NEW q \in MenuRequests, CommitCategory(q) \/ CommitItem(q)
    PROVE  MenusInv'
<1>1. /\ menuReq[q].step \in EditSteps /\ menuReq[q].of \in Menus
      /\ menuReq[q].at \in Categories /\ SlotOf(q) \in Slots
      /\ MenuReqEnds(q) /\ UNCHANGED <<menu, image, defaultMenu, menuRaced, imageRaced>>
  BY DEF MenusInv, CommitCategory, CommitItem, MenuReqInv, MenuReqAt, EditSteps, SlotOf, Slots
<1>2. /\ category' = [category EXCEPT ![SlotOf(q)] = menuReq[q].to] \/ category' = category
      /\ item' = [item EXCEPT ![SlotOf(q)] = menuReq[q].to] \/ item' = item
  BY DEF CommitCategory, CommitItem
<1>3. /\ menuReq' \in [MenuRequests -> MenuRequestRecords] /\ menuReq'[q].step = "idle"
      /\ \A o \in MenuRequests \ {q} : menuReq'[o] = menuReq[o]
  BY <1>1, MenuRequestEnds DEF MenusInv
<1>4. category' \in [Slots -> CategoryStatuses] /\ item' \in [Slots -> ItemStatuses]
  <2>1. category \in [Slots -> CategoryStatuses] /\ item \in [Slots -> ItemStatuses]
    BY DEF MenusInv, MenusTypeOK
  <2>2. CASE CommitCategory(q)
    <3>1. menuReq[q].to \in CategoryStatuses /\ item' = item
          /\ category' = [category EXCEPT ![SlotOf(q)] = menuReq[q].to]
      BY <2>2 DEF CommitCategory, MenusInv, MenuReqInv
    <3> QED
      BY <2>1, <3>1
  <2>3. CASE CommitItem(q)
    <3>1. menuReq[q].to \in ItemStatuses /\ category' = category
          /\ item' = [item EXCEPT ![SlotOf(q)] = menuReq[q].to]
      BY <2>3 DEF CommitItem, MenusInv, MenuReqInv
    <3> QED
      BY <2>1, <3>1
  <2> QED
    BY <2>2, <2>3
<1>5. MenusTypeOK'
  BY <1>1, <1>3, <1>4 DEF MenusInv, MenusTypeOK
<1>6. MenuReqInv(q)'
  BY <1>3 DEF MenuReqInv, MenuReqAt, EditSteps, ImageSteps
<1>7. \A o \in MenuRequests : MenuReqInv(o)'
  BY <1>3, <1>6, MenuReqInvKept DEF MenusInv
<1>8. ASSUME NEW m \in Menus, Settled(m)
      PROVE  Settled(m)'
  <2>1. Serving(m, EditSteps)' \subseteq Serving(m, EditSteps)
    BY <1>3 DEF Serving, EditSteps
  <2>2. CASE m = menuReq[q].of
    <3>1. Serving(m, EditSteps) # {}
      BY <1>1, <2>2 DEF Serving
    <3>2. m \in menuRaced
      BY <1>8, <3>1 DEF Settled
    <3> QED
      BY <1>1, <1>8, <3>2, SettledKept
  <2>3. CASE m # menuReq[q].of
    <3>1. \A c \in Categories : <<m, c>> # SlotOf(q)
      BY <2>3 DEF SlotOf
    <3>2. PICK x, to : /\ \A c \in Categories : <<m, c>> # x /\ <<m, c>> \in Slots
                       /\ category' = [category EXCEPT ![x] = to] \/ category' = category
                       /\ item' = [item EXCEPT ![x] = to] \/ item' = item
      BY <1>2, <3>1 DEF Slots
    <3>3. category \in [Slots -> CategoryStatuses] /\ item \in [Slots -> ItemStatuses]
      BY DEF MenusInv, MenusTypeOK
    <3>4. \A c \in Categories : /\ category'[<<m, c>>] = category[<<m, c>>]
                                /\ item'[<<m, c>>] = item[<<m, c>>]
      BY <3>2, <3>3
    <3> QED
      BY <1>1, <1>8, <2>1, <3>4, SettledKept
  <2> QED
    BY <2>2, <2>3
<1>9. PublishInv'
  <2>1. ASSUME NEW o \in MenuRequests, menuReq'[o].step \in PublishSteps
        PROVE  Settled(menuReq[o].of)'
    <3>1. menuReq'[o] = menuReq[o]
      BY <1>3, <2>1 DEF PublishSteps
    <3>2. PICK m : m = menuReq[o].of
      OBVIOUS
    <3>3. Settled(m) /\ m \in Menus
      BY <2>1, <3>1, <3>2 DEF MenusInv, PublishInv, MenuReqInv, MenuReqAt, PublishSteps
    <3> QED
      BY <1>8, <3>1, <3>2, <3>3
  <2>2. ASSUME defaultMenu # NoMenu
        PROVE  menu'[defaultMenu'] = "PUBLISHED" /\ Settled(defaultMenu)'
    <3>1. PICK d : d = defaultMenu
      OBVIOUS
    <3>2. menu[d] = "PUBLISHED" /\ Settled(d) /\ d \in Menus
      BY <2>2, <3>1 DEF MenusInv, PublishInv, MenusTypeOK
    <3> QED
      BY <1>1, <1>8, <3>1, <3>2
  <2> QED
    BY <1>1, <2>1, <2>2 DEF PublishInv
<1>10. \A x \in Slots \ imageRaced' : PictureInv(x)'
  <2>1. \A o \in MenuRequests : menuReq'[o].step \in ImageSteps => menuReq'[o] = menuReq[o]
    BY <1>3 DEF ImageSteps
  <2> QED
    BY <1>1, <2>1, PictureKept DEF MenusInv
<1> QED
  BY <1>5, <1>7, <1>9, <1>10 DEF MenusInv

\* A DRAFT with content is going to be published; edits of it under way race with that.
LEMMA PublicationStarts ==
    ASSUME MenusInv, NEW q \in MenuRequests, NEW m \in Menus, PublishMenu(q, m)
    PROVE  MenusInv'
<1> DEFINE record == [IdleMenuRequest EXCEPT !.step = "publish", !.of = m]
<1>1. /\ record \in MenuRequestRecords /\ record.step = "publish" /\ record.of = m
  BY DEF MenuRequestRecords, IdleMenuRequest, MenuSteps, CategoryStatuses, ItemStatuses
<1>2. /\ menuReq' = [menuReq EXCEPT ![q] = record] /\ menu[m] = "DRAFT"
      /\ menuRaced' = IF Serving(m, EditSteps) # {} THEN menuRaced \cup {m} ELSE menuRaced
      /\ menuReq[q].step = "idle" /\ PublishableContent(m)
      /\ UNCHANGED <<menu, category, item, image, defaultMenu, imageRaced>>
  BY DEF PublishMenu, Content, MenuReqAt
<1> HIDE DEF record
<1>3. /\ menuReq' \in [MenuRequests -> MenuRequestRecords] /\ menuReq'[q] = record
      /\ \A o \in MenuRequests \ {q} : menuReq'[o] = menuReq[o]
  BY <1>1, <1>2, MenuRequestChanges DEF MenusInv
<1>4. MenusTypeOK'
  BY <1>2, <1>3 DEF MenusInv, MenusTypeOK
<1>5. MenuReqInv(q)'
  BY <1>1, <1>3 DEF MenuReqInv, MenuReqAt, EditSteps, ImageSteps
<1>6. \A o \in MenuRequests : MenuReqInv(o)'
  BY <1>3, <1>5, MenuReqInvKept DEF MenusInv
<1>7. \A n : Serving(n, EditSteps)' = Serving(n, EditSteps)
  BY <1>1, <1>2, <1>3 DEF Serving, EditSteps
<1>8. ASSUME NEW n, Settled(n)
      PROVE  Settled(n)'
  BY <1>2, <1>7, <1>8, SettledKept
<1>9. Settled(m)'
  BY <1>2, <1>7 DEF Settled, PublishableContent
<1>10. PublishInv'
  <2>1. ASSUME NEW o \in MenuRequests, menuReq'[o].step \in PublishSteps
        PROVE  Settled(menuReq[o].of)'
    <3>1. CASE o = q
      BY <1>1, <1>3, <1>9, <3>1
    <3>2. CASE o # q
      <4>1. menuReq'[o] = menuReq[o]
        BY <1>3, <3>2
      <4>2. PICK n : n = menuReq[o].of
        OBVIOUS
      <4>3. Settled(n)
        BY <2>1, <4>1, <4>2 DEF MenusInv, PublishInv
      <4> QED
        BY <1>8, <4>1, <4>2, <4>3
    <3> QED
      BY <3>1, <3>2
  <2>2. ASSUME defaultMenu # NoMenu
        PROVE  menu'[defaultMenu'] = "PUBLISHED" /\ Settled(defaultMenu)'
    <3>1. PICK d : d = defaultMenu
      OBVIOUS
    <3>2. menu[d] = "PUBLISHED" /\ Settled(d)
      BY <2>2, <3>1 DEF MenusInv, PublishInv
    <3> QED
      BY <1>2, <1>8, <3>1, <3>2
  <2> QED
    BY <1>2, <2>1, <2>2 DEF PublishInv
<1>11. \A x \in Slots \ imageRaced' : PictureInv(x)'
  <2>1. \A o \in MenuRequests : menuReq'[o].step \in ImageSteps => menuReq'[o] = menuReq[o]
    BY <1>1, <1>3 DEF ImageSteps
  <2> QED
    BY <1>2, <2>1, PictureKept DEF MenusInv
<1> QED
  BY <1>4, <1>6, <1>10, <1>11 DEF MenusInv

\* The rows to archive are looked up, and looked at again.
LEMMA PublicationArchives ==
    ASSUME MenusInv, NEW q \in MenuRequests, ScanPublished(q) \/ ArchiveOthers(q)
    PROVE  MenusInv'
<1>1. /\ menuReq[q].step \in PublishSteps
      /\ UNCHANGED <<menu, category, item, image, defaultMenu, menuRaced, imageRaced>>
  BY DEF ScanPublished, ArchiveOthers, Content, MenuReqAt, PublishSteps
<1>2. PICK step \in {"scanned", "archived"}, others \in SUBSET Menus :
         menuReq' = [menuReq EXCEPT ![q].step = step, ![q].others = others]
  <2>1. menuReq[q].others \in SUBSET Menus
    BY DEF MenusInv, MenusTypeOK, MenuRequestRecords
  <2>2. CASE ScanPublished(q)
    <3> DEFINE others == {n \in Menus \ {menuReq[q].of} : menu[n] = "PUBLISHED"}
    <3>1. menuReq' = [menuReq EXCEPT ![q].step = "scanned", ![q].others = others]
      BY <2>2 DEF ScanPublished
    <3>2. others \in SUBSET Menus
      OBVIOUS
    <3> HIDE DEF others
    <3> QED
      BY <3>1, <3>2
  <2>3. CASE ArchiveOthers(q)
    <3> DEFINE others == {n \in menuReq[q].others : menu[n] = "PUBLISHED"}
    <3>1. menuReq' = [menuReq EXCEPT ![q].step = "archived", ![q].others = others]
      BY <2>3 DEF ArchiveOthers
    <3>2. others \in SUBSET Menus
      BY <2>1
    <3> HIDE DEF others
    <3> QED
      BY <3>1, <3>2
  <2> QED
    BY <2>2, <2>3
<1>3. /\ menuReq' \in [MenuRequests -> MenuRequestRecords]
      /\ menuReq'[q].step = step /\ menuReq'[q].of = menuReq[q].of
      /\ \A o \in MenuRequests \ {q} : menuReq'[o] = menuReq[o]
  <2>1. step \in MenuSteps
    BY DEF MenuSteps
  <2> QED
    BY <1>2, <2>1, MenuRequestGoesOn DEF MenusInv
<1>4. MenusTypeOK'
  BY <1>1, <1>3 DEF MenusInv, MenusTypeOK
<1>5. MenuReqInv(q)'
  BY <1>1, <1>3 DEF MenusInv, MenuReqInv, MenuReqAt, EditSteps, ImageSteps, PublishSteps
<1>6. \A o \in MenuRequests : MenuReqInv(o)'
  BY <1>3, <1>5, MenuReqInvKept DEF MenusInv
<1>7. PublishInv'
  <2>1. \A o \in MenuRequests :
           /\ menuReq'[o].step \in PublishSteps =>
                  menuReq[o].step \in PublishSteps /\ menuReq'[o].of = menuReq[o].of
           /\ menuReq'[o].step \in EditSteps => menuReq'[o] = menuReq[o]
    BY <1>1, <1>3 DEF EditSteps
  <2> QED
    BY <1>1, <2>1, PublishKept DEF MenusInv
<1>8. \A x \in Slots \ imageRaced' : PictureInv(x)'
  <2>1. \A o \in MenuRequests : menuReq'[o].step \in ImageSteps => menuReq'[o] = menuReq[o]
    BY <1>3 DEF ImageSteps
  <2> QED
    BY <1>1, <2>1, PictureKept DEF MenusInv
<1> QED
  BY <1>4, <1>6, <1>7, <1>8 DEF MenusInv

\* The menu is published and the default; whichever was the default may be archived.
LEMMA PublicationCommits ==
    ASSUME MenusInv, NEW q \in MenuRequests, CommitPublish(q)
    PROVE  MenusInv'
<1>1. PICK m : m = menuReq[q].of
  OBVIOUS
<1>2. /\ m \in Menus /\ Settled(m)
      /\ UNCHANGED <<category, item, image, menuRaced, imageRaced>>
      /\ menu' = [n \in Menus |-> IF n = m THEN "PUBLISHED"
                                  ELSE IF n \in menuReq[q].others THEN "ARCHIVED" ELSE menu[n]]
      /\ defaultMenu' = m /\ MenuReqEnds(q)
  BY <1>1 DEF CommitPublish, NewDefault, Content, MenusInv, MenuReqInv, PublishInv, MenuReqAt,
              PublishSteps
<1>3. /\ menuReq' \in [MenuRequests -> MenuRequestRecords] /\ menuReq'[q].step = "idle"
      /\ \A o \in MenuRequests \ {q} : menuReq'[o] = menuReq[o]
  BY <1>2, MenuRequestEnds DEF MenusInv
<1>4. MenusTypeOK'
  <2>1. menu' \in [Menus -> MenuStatuses]
    BY <1>2 DEF MenusInv, MenusTypeOK, MenuStatuses
  <2> QED
    BY <1>2, <1>3, <2>1 DEF MenusInv, MenusTypeOK
<1>5. MenuReqInv(q)'
  BY <1>3 DEF MenuReqInv, MenuReqAt, EditSteps, ImageSteps
<1>6. \A o \in MenuRequests : MenuReqInv(o)'
  BY <1>3, <1>5, MenuReqInvKept DEF MenusInv
<1>7. ASSUME NEW n, Settled(n)
      PROVE  Settled(n)'
  <2>1. Serving(n, EditSteps)' \subseteq Serving(n, EditSteps)
    BY <1>3 DEF Serving, EditSteps
  <2> QED
    BY <1>2, <1>7, <2>1, SettledKept
<1>8. PublishInv'
  <2>1. ASSUME NEW o \in MenuRequests, menuReq'[o].step \in PublishSteps
        PROVE  Settled(menuReq[o].of)'
    <3>1. menuReq'[o] = menuReq[o]
      BY <1>3, <2>1 DEF PublishSteps
    <3>2. PICK n : n = menuReq[o].of
      OBVIOUS
    <3>3. Settled(n)
      BY <2>1, <3>1, <3>2 DEF MenusInv, PublishInv
    <3> QED
      BY <1>7, <3>1, <3>2, <3>3
  <2>2. menu'[defaultMenu'] = "PUBLISHED" /\ Settled(defaultMenu)'
    <3>1. Settled(m)' /\ menu'[m] = "PUBLISHED"
      BY <1>2, <1>7
    <3> QED
      BY <1>2, <3>1
  <2> QED
    BY <2>1, <2>2 DEF PublishInv
<1>9. \A x \in Slots \ imageRaced' : PictureInv(x)'
  <2>1. \A o \in MenuRequests : menuReq'[o].step \in ImageSteps => menuReq'[o] = menuReq[o]
    BY <1>3 DEF ImageSteps
  <2> QED
    BY <1>2, <2>1, PictureKept DEF MenusInv
<1> QED
  BY <1>4, <1>6, <1>8, <1>9 DEF MenusInv

\* A picture is going to change; if one is changing already they race.
LEMMA PictureStarts ==
    ASSUME MenusInv, NEW q \in MenuRequests, NEW x \in Slots, UploadImage(q, x) \/ RemoveImage(q, x)
    PROVE  MenusInv'
<1>0. PICK step \in {"upload", "unlink"} : StartImage(q, x, step)
  BY DEF UploadImage, RemoveImage
<1> DEFINE record == [IdleMenuRequest EXCEPT !.step = step, !.of = x[1], !.at = x[2]]
<1>x. x[1] \in Menus /\ x[2] \in Categories /\ x = <<x[1], x[2]>>
  BY DEF Slots
<1>1. /\ record \in MenuRequestRecords
      /\ record.step = step /\ record.of = x[1] /\ record.at = x[2]
      /\ x[1] \in Menus /\ x[2] \in Categories /\ x = <<x[1], x[2]>>
  BY <1>x DEF MenuRequestRecords, IdleMenuRequest, MenuSteps, CategoryStatuses, ItemStatuses
<1>2. /\ menuReq' = [menuReq EXCEPT ![q] = record]
      /\ imageRaced' = IF Picturing(x) # {} THEN imageRaced \cup {x} ELSE imageRaced
      /\ menuReq[q].step = "idle"
      /\ UNCHANGED <<menu, category, item, image, defaultMenu, menuRaced>>
  BY <1>0 DEF StartImage, Content, MenuReqAt
<1> HIDE DEF record
<1>3. /\ menuReq' \in [MenuRequests -> MenuRequestRecords] /\ menuReq'[q] = record
      /\ \A o \in MenuRequests \ {q} : menuReq'[o] = menuReq[o]
  BY <1>1, <1>2, MenuRequestChanges DEF MenusInv
<1>4. MenusTypeOK'
  BY <1>2, <1>3 DEF MenusInv, MenusTypeOK
<1>5. MenuReqInv(q)'
  BY <1>1, <1>3 DEF MenuReqInv, MenuReqAt
<1>6. \A o \in MenuRequests : MenuReqInv(o)'
  BY <1>3, <1>5, MenuReqInvKept DEF MenusInv
<1>7. PublishInv'
  <2>1. \A o \in MenuRequests :
           /\ menuReq'[o].step \in PublishSteps =>
                  menuReq[o].step \in PublishSteps /\ menuReq'[o].of = menuReq[o].of
           /\ menuReq'[o].step \in EditSteps => menuReq'[o] = menuReq[o]
    BY <1>1, <1>3 DEF EditSteps, PublishSteps
  <2> QED
    BY <1>2, <2>1, PublishKept DEF MenusInv
<1>8. ASSUME NEW y \in Slots \ imageRaced'
      PROVE  PictureInv(y)'
  <2>1. PictureInv(y)
    BY <1>2, <1>8 DEF MenusInv
  <2>2. CASE y = x
    <3>1. Picturing(x) = {}
      BY <1>2, <1>8, <2>2
    <3>2. \A o \in Picturing(x)' : o = q
      BY <1>3, <3>1 DEF Picturing, Serving
    <3> QED
      BY <1>1, <1>2, <1>3, <2>1, <2>2, <3>2 DEF PictureInv, MenuReqAt
  <2>3. CASE y # x
    <3>1. y[1] # x[1] \/ y[2] # x[2]
      BY <1>1, <1>8, <2>3 DEF Slots
    <3>2. \A o \in Picturing(y)' : o \in Picturing(y) /\ menuReq'[o] = menuReq[o]
      BY <1>1, <1>3, <3>1 DEF Picturing, Serving
    <3> QED
      BY <1>2, <2>1, <3>2 DEF PictureInv, MenuReqAt
  <2> QED
    BY <2>2, <2>3
<1> QED
  BY <1>4, <1>6, <1>7, <1>8 DEF MenusInv


\* One step of a change of a picture, on the row or on the object of one item.
LEMMA OnePicture ==
    ASSUME MenusInv, NEW q \in MenuRequests, NEW x \in Slots, q \in Picturing(x),
           UNCHANGED <<menu, category, item, defaultMenu, menuRaced, imageRaced>>,
           NEW picture \in [row : BOOLEAN, object : BOOLEAN],
           image' = [image EXCEPT ![x] = picture],
           menuReq' \in [MenuRequests -> MenuRequestRecords],
           \A o \in MenuRequests \ {q} : menuReq'[o] = menuReq[o],
           menuReq'[q].step \in {"stored", "unstore", "idle"},
           menuReq'[q].step # "idle" =>
               menuReq'[q].of = menuReq[q].of /\ menuReq'[q].at = menuReq[q].at,
           PictureInv(x) => (picture.row => picture.object),
           menuReq'[q].step = "stored" => picture.object,
           menuReq'[q].step = "unstore" => ~picture.row
    PROVE  MenusInv'
<1>t. /\ image \in [Slots -> [row : BOOLEAN, object : BOOLEAN]]
      /\ menuReq \in [MenuRequests -> MenuRequestRecords]
  BY DEF MenusInv, MenusTypeOK
<1>1. image'[x] = picture /\ \A y \in Slots \ {x} : image'[y] = image[y]
  BY <1>t
<1>2. MenusTypeOK'
  BY <1>t DEF MenusInv, MenusTypeOK
<1>3. menuReq[q].step \in ImageSteps /\ menuReq[q].of = x[1] /\ menuReq[q].at = x[2]
  BY DEF Picturing, Serving
<1>4. MenuReqInv(q)'
  <2>1. x[1] \in Menus /\ x[2] \in Categories
    BY DEF Slots
  <2> QED
    BY <1>3, <2>1 DEF MenuReqInv, MenuReqAt, EditSteps, ImageSteps
<1>5. \A o \in MenuRequests : MenuReqInv(o)'
  BY <1>4, MenuReqInvKept DEF MenusInv
<1>6. PublishInv'
  <2>1. \A o \in MenuRequests :
           /\ menuReq'[o].step \in PublishSteps =>
                  menuReq[o].step \in PublishSteps /\ menuReq'[o].of = menuReq[o].of
           /\ menuReq'[o].step \in EditSteps => menuReq'[o] = menuReq[o]
    BY DEF EditSteps, PublishSteps
  <2> QED
    BY <2>1, PublishKept DEF MenusInv
<1>7. ASSUME NEW y \in Slots \ imageRaced'
      PROVE  PictureInv(y)'
  <2>1. PictureInv(y)
    BY <1>7 DEF MenusInv
  <2>2. \A o \in Picturing(y)' : o \in Picturing(y)
    BY <1>3 DEF Picturing, Serving, ImageSteps
  <2>3. CASE y = x
    <3>1. \A o \in Picturing(y) : o = q
      BY <2>1, <2>3 DEF PictureInv
    <3>2. \A o \in Picturing(y)' : o = q
      BY <2>2, <3>1
    <3>3. picture.row => picture.object
      BY <2>1, <2>3, Zenon
    <3> QED
      BY <1>1, <2>3, <3>2, <3>3 DEF PictureInv, MenuReqAt
  <2>4. CASE y # x
    <3>1. y[1] # x[1] \/ y[2] # x[2]
      BY <1>7, <2>4 DEF Slots
    <3>2. q \notin Picturing(y)
      BY <1>3, <3>1 DEF Picturing, Serving
    <3>3. \A o \in Picturing(y)' : o \in Picturing(y) /\ menuReq'[o] = menuReq[o]
      BY <2>2, <3>2 DEF Picturing, Serving
    <3> QED
      BY <1>1, <1>7, <2>1, <2>4, <3>3 DEF PictureInv, MenuReqAt
  <2> QED
    BY <2>3, <2>4
<1> QED
  BY <1>2, <1>5, <1>6, <1>7 DEF MenusInv

LEMMA PictureChanges ==
    ASSUME MenusInv, NEW q \in MenuRequests,
           StoreObject(q) \/ LinkImage(q) \/ UnlinkImage(q) \/ RemoveObject(q)
    PROVE  MenusInv'
<1>1. PICK x : x = SlotOf(q)
  OBVIOUS
<1>t. /\ image \in [Slots -> [row : BOOLEAN, object : BOOLEAN]]
      /\ menuReq \in [MenuRequests -> MenuRequestRecords] /\ MenusTypeOK
  BY DEF MenusInv, MenusTypeOK
<1>2. /\ x \in Slots /\ q \in Picturing(x)
      /\ UNCHANGED <<menu, category, item, defaultMenu, menuRaced, imageRaced>>
  <2>1. menuReq[q].step \in ImageSteps
    BY DEF StoreObject, LinkImage, UnlinkImage, RemoveObject, MenuReqAt, ImageSteps
  <2>2. menuReq[q].of \in Menus /\ menuReq[q].at \in Categories
    BY <2>1 DEF MenusInv, MenuReqInv, MenuReqAt, ImageSteps
  <2>3. x = <<menuReq[q].of, menuReq[q].at>>
    BY <1>1 DEF SlotOf
  <2>4. x \in Slots /\ q \in Picturing(x)
    BY <2>1, <2>2, <2>3 DEF Slots, Picturing, Serving
  <2>5. UNCHANGED <<menu, category, item, defaultMenu, menuRaced, imageRaced>>
    BY DEF StoreObject, LinkImage, UnlinkImage, RemoveObject, Content
  <2> QED
    BY <2>4, <2>5
<1>3. image[x] \in [row : BOOLEAN, object : BOOLEAN]
  BY <1>2, <1>t
<1>a. ASSUME NEW picture \in [row : BOOLEAN, object : BOOLEAN],
             image' = [image EXCEPT ![x] = picture], MenuReqEnds(q),
             PictureInv(x) => (picture.row => picture.object)
      PROVE  MenusInv'
  <2>1. /\ menuReq' \in [MenuRequests -> MenuRequestRecords] /\ menuReq'[q].step = "idle"
        /\ \A o \in MenuRequests \ {q} : menuReq'[o] = menuReq[o]
    BY <1>a, <1>t, MenuRequestEnds
  <2> QED
    BY <1>2, <1>a, <2>1, OnePicture
<1>b. ASSUME NEW picture \in [row : BOOLEAN, object : BOOLEAN], NEW step \in {"stored", "unstore"},
             image' = [image EXCEPT ![x] = picture],
             menuReq' = [menuReq EXCEPT ![q].step = step],
             PictureInv(x) => (picture.row => picture.object),
             step = "stored" => picture.object, step = "unstore" => ~picture.row
      PROVE  MenusInv'
  <2>1. step \in MenuSteps /\ menuReq[q] \in MenuRequestRecords
    BY <1>t DEF MenuSteps
  <2>2. PICK others \in SUBSET Menus :
           menuReq' = [menuReq EXCEPT ![q].step = step, ![q].others = others]
    <3>1. PICK others : others = menuReq[q].others
      OBVIOUS
    <3>2. others \in SUBSET Menus
      BY <2>1, <3>1 DEF MenuRequestRecords
    <3>3. [menuReq[q] EXCEPT !.step = step] = [menuReq[q] EXCEPT !.step = step, !.others = others]
      BY <2>1, <3>1 DEF MenuRequestRecords
    <3>4. menuReq' = [menuReq EXCEPT ![q].step = step, ![q].others = others]
      BY <1>t, <1>b, <3>3
    <3> QED
      BY <3>2, <3>4
  <2>3. /\ menuReq' \in [MenuRequests -> MenuRequestRecords]
        /\ menuReq'[q].step = step /\ menuReq'[q].of = menuReq[q].of
        /\ menuReq'[q].at = menuReq[q].at
        /\ \A o \in MenuRequests \ {q} : menuReq'[o] = menuReq[o]
    <3>1. MenusTypeOK /\ step \in MenuSteps
      BY <1>t, <2>1
    <3> QED
      BY <2>2, <3>1, MenuRequestGoesOn
  <2> QED
    BY <1>2, <1>b, <2>3, OnePicture
<1>4. CASE StoreObject(q)
  <2> DEFINE picture == [image[x] EXCEPT !.object = TRUE]
  <2>1. picture \in [row : BOOLEAN, object : BOOLEAN] /\ picture.object
    BY <1>3
  <2>2. CASE image' = [image EXCEPT ![x].object = TRUE]
             /\ menuReq' = [menuReq EXCEPT ![q].step = "stored"]
    <3>1. image' = [image EXCEPT ![x] = picture]
      BY <2>2
    <3> HIDE DEF picture
    <3> QED
      BY <1>b, <2>1, <2>2, <3>1
  <2>3. CASE MenuReqEnds(q) /\ image' = image
    <3>1. image' = [image EXCEPT ![x] = image[x]]
      BY <1>t, <2>3
    <3>2. PictureInv(x) => (image[x].row => image[x].object)
      BY DEF PictureInv
    <3> QED
      BY <1>3, <1>a, <2>3, <3>1, <3>2
  <2> QED
    BY <1>1, <1>4, <2>2, <2>3 DEF StoreObject
<1>5. CASE LinkImage(q)
  <2> DEFINE picture == [image[x] EXCEPT !.row = TRUE]
  <2>1. /\ picture \in [row : BOOLEAN, object : BOOLEAN] /\ picture.object = image[x].object
        /\ image' = [image EXCEPT ![x] = picture] /\ MenuReqEnds(q)
    BY <1>1, <1>3, <1>5 DEF LinkImage
  <2>2. PictureInv(x) => image[x].object
    BY <1>2, <1>5 DEF PictureInv, LinkImage
  <2> HIDE DEF picture
  <2> QED
    BY <1>a, <2>1, <2>2
<1>6. CASE UnlinkImage(q)
  <2> DEFINE picture == [image[x] EXCEPT !.row = FALSE]
  <2>1. /\ picture \in [row : BOOLEAN, object : BOOLEAN] /\ ~picture.row
        /\ image' = [image EXCEPT ![x] = picture]
        /\ menuReq' = [menuReq EXCEPT ![q].step = "unstore"]
    BY <1>1, <1>3, <1>6 DEF UnlinkImage
  <2> HIDE DEF picture
  <2> QED
    BY <1>b, <2>1
<1>7. CASE RemoveObject(q)
  <2>1. PICK left \in BOOLEAN : image' = [image EXCEPT ![x].object = left /\ @]
    BY <1>1, <1>7 DEF RemoveObject
  <2> DEFINE picture == [image[x] EXCEPT !.object = left /\ image[x].object]
  <2>2. /\ picture \in [row : BOOLEAN, object : BOOLEAN] /\ picture.row = image[x].row
        /\ image' = [image EXCEPT ![x] = picture]
    BY <1>3, <2>1
  <2>3. MenuReqEnds(q) /\ (PictureInv(x) => ~image[x].row)
    BY <1>2, <1>7 DEF PictureInv, RemoveObject
  <2> HIDE DEF picture
  <2> QED
    BY <1>a, <2>2, <2>3
<1> QED
  BY <1>4, <1>5, <1>6, <1>7

LEMMA MenuRequestDied ==
    ASSUME MenusInv, NEW q \in MenuRequests, MenuRequestDies(q)
    PROVE  MenusInv'
<1>1. /\ MenuReqEnds(q)
      /\ UNCHANGED <<menu, category, item, image, defaultMenu, menuRaced, imageRaced>>
  BY DEF MenuRequestDies, Content
<1>2. /\ menuReq' \in [MenuRequests -> MenuRequestRecords] /\ menuReq'[q].step = "idle"
      /\ \A o \in MenuRequests \ {q} : menuReq'[o] = menuReq[o]
  BY <1>1, MenuRequestEnds DEF MenusInv
<1>3. MenusTypeOK'
  BY <1>1, <1>2 DEF MenusInv, MenusTypeOK
<1>4. MenuReqInv(q)'
  BY <1>2 DEF MenuReqInv, MenuReqAt, EditSteps, ImageSteps
<1>5. \A o \in MenuRequests : MenuReqInv(o)'
  BY <1>2, <1>4, MenuReqInvKept DEF MenusInv
<1>6. PublishInv'
  <2>1. \A o \in MenuRequests :
           /\ menuReq'[o].step \in PublishSteps =>
                  menuReq[o].step \in PublishSteps /\ menuReq'[o].of = menuReq[o].of
           /\ menuReq'[o].step \in EditSteps => menuReq'[o] = menuReq[o]
    BY <1>2 DEF EditSteps, PublishSteps
  <2> QED
    BY <1>1, <2>1, PublishKept DEF MenusInv
<1>7. \A x \in Slots \ imageRaced' : PictureInv(x)'
  <2>1. \A o \in MenuRequests : menuReq'[o].step \in ImageSteps => menuReq'[o] = menuReq[o]
    BY <1>2 DEF ImageSteps
  <2> QED
    BY <1>1, <2>1, PictureKept DEF MenusInv
<1> QED
  BY <1>3, <1>5, <1>6, <1>7 DEF MenusInv

LEMMA MenusStep == MenusInv /\ [MenusNext]_menuVars => MenusInv'
<1> SUFFICES ASSUME MenusInv, [MenusNext]_menuVars
             PROVE  MenusInv'
  OBVIOUS
<1>1. ASSUME NEW q \in MenuRequests, NEW m \in Menus, NEW c \in Categories,
             CreateCategory(q, m, c) \/ UpdateCategory(q, m, c)
      PROVE  MenusInv'
  <2>1. PICK status \in {"ACTIVE", "INACTIVE"} : StartEdit(q, m, c, "editCategory", status)
    BY <1>1 DEF CreateCategory, UpdateCategory
  <2>2. status \in CategoryStatuses /\ "editCategory" \in EditSteps
    BY DEF CategoryStatuses, EditSteps
  <2> QED
    BY <2>1, <2>2, EditStarts
<1>2. ASSUME NEW q \in MenuRequests, NEW m \in Menus, NEW c \in Categories,
             CreateItem(q, m, c) \/ UpdateItem(q, m, c)
      PROVE  MenusInv'
  <2>1. PICK status \in {"AVAILABLE", "UNAVAILABLE"} : StartEdit(q, m, c, "editItem", status)
    BY <1>2 DEF CreateItem, UpdateItem
  <2>2. status \in ItemStatuses \ {"NONE"} /\ "editItem" \in EditSteps
    BY DEF ItemStatuses, EditSteps
  <2> QED
    BY <2>1, <2>2, EditStarts
<1>3. CASE PublishingNext
  BY <1>1, <1>2, <1>3, MenuCreated, PublicationStarts, EditCommits, PublicationArchives,
     PublicationCommits, MenuRequestDied DEF PublishingNext
<1>4. CASE PicturesNext
  <2>1. \A x \in Slots : x[1] \in Menus /\ x[2] \in Categories
    BY DEF Slots
  <2> QED
    BY <1>1, <1>2, <1>4, <2>1, MenuCreated, EditCommits, PictureStarts, PictureChanges,
       MenuRequestDied DEF PicturesNext
<1>5. CASE UNCHANGED menuVars
  BY <1>5 DEF menuVars, MenusInv, MenusTypeOK, MenuReqInv, MenuReqAt, PublishInv, Settled,
              PublishableContent, Serving, PictureInv, Picturing
<1> QED
  BY <1>3, <1>4, <1>5 DEF MenusNext

LEMMA MenusInvariance == MenusSpec => []MenusInv
BY MenusInitially, MenusStep, PTL DEF MenusSpec

\* What guests order from is published, and has what was checked when it was: however
\* publications and edits of any number of menus overlap, unless an edit of that DRAFT
\* overlapped its publication.
THEOREM MenuServesGuests == MenusSpec => []GuestsCanOrder
<1>1. MenusInv => GuestsCanOrder
  <2> SUFFICES ASSUME MenusInv, defaultMenu # NoMenu, defaultMenu \notin menuRaced
               PROVE  \E c \in GuestCategories : item[<<defaultMenu, c>>] # "NONE"
    BY DEF GuestsCanOrder, MenusInv, PublishInv
  <2>1. menu[defaultMenu] = "PUBLISHED" /\ PublishableContent(defaultMenu)
    BY DEF MenusInv, PublishInv, Settled
  <2> QED
    BY <2>1 DEF PublishableContent, GuestCategories
<1> QED
  BY <1>1, MenusInvariance, PTL

\* The picture of an item that a menu shows is in the storage, whatever call failed,
\* unless two requests changed it at once.
THEOREM PictureIsStored == MenusSpec => []ImageIsStored
<1>1. MenusInv => ImageIsStored
  BY DEF MenusInv, ImageIsStored, PictureInv
<1> QED
  BY <1>1, MenusInvariance, PTL

-----------------------------------------------------------------------------
(* Signing in                                                              *)

\* The sign-in, whatever happens to the rows of the staff meanwhile.
AnySignIn == SignInInit /\ [][SignInNext]_signInVars

\* A token names the profile its identity has in its restaurant, an attempt the profile
\* whose PIN it compares.
TokensInv ==
    /\ SignInTypeOK
    /\ \A t \in tokens : t.profile = <<t.sub, t.restaurant>>
    /\ \A q \in PinRequests : ~PinReqAt(q, "idle") => pinReq[q].of \in Profiles

\* The counter of a profile, and the one its only attempt has read, are never behind the
\* wrong PINs in a row: a new PIN or an expired lock may leave them ahead.
Comparing(p) == {q \in PinRequests : PinReqAt(q, "comparing") /\ pinReq[q].of = p}

PinInv(p) ==
    /\ misses[p] <= pin[p].failed /\ pin[p].failed < MaxPin
    /\ \A q, o \in Comparing(p) : q = o
    /\ \A q \in Comparing(p) : misses[p] <= pinReq[q].failed

SignInInv == TokensInv /\ \A p \in Profiles \ pinRaced : PinInv(p)

LEMMA SignInInitially == SignInInit => SignInInv
<1> SUFFICES ASSUME SignInInit
             PROVE  SignInInv
  OBVIOUS
<1>1. MaxPin \in Nat /\ MaxPin > 0
  BY PinAssumption
<1>2. /\ \A q \in PinRequests : pinReq[q] = IdlePinRequest
      /\ \A p \in Profiles : pin[p] = NoPin /\ misses[p] = 0
  BY DEF SignInInit
<1>3. \A q \in PinRequests : pinReq[q].step = "idle"
  BY <1>2 DEF IdlePinRequest
<1>4. \A p \in Profiles : pin[p].failed = 0 /\ misses[p] = 0
  BY <1>2 DEF NoPin
<1>5. SignInTypeOK
  <2>1. IdlePinRequest \in PinRequestRecords /\ NoPin \in PinRecords
    BY DEF IdlePinRequest, PinRequestRecords, NoPin, PinRecords
  <2> QED
    BY <2>1 DEF SignInInit, SignInTypeOK
<1>6. TokensInv
  BY <1>3, <1>5 DEF TokensInv, SignInInit, PinReqAt
<1>7. \A p \in Profiles : PinInv(p)
  BY <1>1, <1>3, <1>4 DEF PinInv, Comparing, PinReqAt
<1> QED
  BY <1>6, <1>7 DEF SignInInv

\* Whoever is signed is the profile of an identity: of staff, or of the platform.
LEMMA SignKeepsTokens ==
    ASSUME TokensInv, NEW p \in Profiles \cup (PlatformAdmins \X {Nobody}), Sign(p)
    PROVE  /\ tokens' \subseteq Payloads
           /\ \A t \in tokens' : t.profile = <<t.sub, t.restaurant>>
<1> DEFINE t == Payload(p)
<1>1. PlatformAdmins \subseteq Identities /\ Nobody \notin Restaurants
  BY PlatformAssumption, NobodyAssumption
<1>2. p = <<p[1], p[2]>> /\ p[1] \in Identities
  BY <1>1 DEF Profiles
<1>3. t \in Payloads
  <2>1. CASE p \in Profiles
    <3>1. p[1] \in Identities /\ p[2] \in Restaurants /\ p[2] # Nobody
      BY <1>1, <2>1 DEF Profiles
    <3> QED
      BY <2>1, <3>1 DEF Payload, Payloads, RestaurantOf
  <2>2. CASE p \in PlatformAdmins \X {Nobody}
    <3>1. p[1] \in PlatformAdmins /\ p[2] = Nobody
      BY <2>2
    <3> QED
      BY <2>2, <3>1 DEF Payload, Payloads, RestaurantOf
  <2> QED
    BY <2>1, <2>2
<1>4. t.profile = <<t.sub, t.restaurant>>
  BY <1>2 DEF Payload, RestaurantOf
<1>5. tokens' = tokens \cup {t}
  BY DEF Sign
<1> HIDE DEF t
<1> QED
  BY <1>3, <1>4, <1>5 DEF TokensInv, SignInTypeOK

\* Nobody is resolved but a profile of the identity.
LEMMA ResolvedProfile ==
    ASSUME NEW i \in Identities, NEW type, NEW r, NEW p \in ResolveProfile(i, type, r)
    PROVE  p \in Profiles \cup (PlatformAdmins \X {Nobody})
<1>1. PlatformOf(i) \subseteq PlatformAdmins \X {Nobody}
  BY DEF PlatformOf
<1>2. ActiveStaffOf(i) \subseteq Profiles
  BY DEF ActiveStaffOf, Profiles
<1>3. ResolveStaff(i, r) \subseteq ActiveStaffOf(i)
  BY DEF ResolveStaff
<1> QED
  BY <1>1, <1>2, <1>3 DEF ResolveProfile

LEMMA TokensStep == TokensInv /\ [SignInNext]_signInVars => TokensInv'
<1> SUFFICES ASSUME TokensInv, [SignInNext]_signInVars
             PROVE  TokensInv'
  OBVIOUS
<1>t. /\ pin \in [Profiles -> PinRecords] /\ pinReq \in [PinRequests -> PinRequestRecords]
      /\ misses \in [Profiles -> Nat] /\ pinRaced \subseteq Profiles
      /\ tokens \subseteq Payloads
  BY DEF TokensInv, SignInTypeOK
<1>r. \A q \in PinRequests : ~PinReqAt(q, "idle") => pinReq[q].of \in Profiles
  BY DEF TokensInv
<1>e. ASSUME NEW q \in PinRequests, PinReqEnds(q)
      PROVE  /\ pinReq' \in [PinRequests -> PinRequestRecords]
             /\ \A o \in PinRequests : ~PinReqAt(o, "idle")' => pinReq'[o].of \in Profiles
  <2>1. IdlePinRequest \in PinRequestRecords /\ IdlePinRequest.step = "idle"
    BY DEF IdlePinRequest, PinRequestRecords
  <2>2. pinReq'[q] = IdlePinRequest /\ \A o \in PinRequests \ {q} : pinReq'[o] = pinReq[o]
    BY <1>e, <1>t DEF PinReqEnds
  <2>3. pinReq' \in [PinRequests -> PinRequestRecords]
    BY <1>e, <1>t, <2>1 DEF PinReqEnds
  <2> QED
    BY <1>r, <2>1, <2>2, <2>3 DEF PinReqAt
<1>1. ASSUME NEW i \in Identities, NEW type, NEW r, LogIn(i, type, r)
      PROVE  TokensInv'
  <2>1. PICK p \in ResolveProfile(i, type, r) : Sign(p)
    BY <1>1 DEF LogIn
  <2>2. /\ tokens' \subseteq Payloads
        /\ \A t \in tokens' : t.profile = <<t.sub, t.restaurant>>
    BY <2>1, ResolvedProfile, SignKeepsTokens
  <2> QED
    BY <1>1, <1>r, <1>t, <2>2 DEF LogIn, TokensInv, SignInTypeOK, PinReqAt
<1>2. ASSUME NEW t \in tokens, SetPin(t)
      PROVE  TokensInv'
  <2>1. [NoPin EXCEPT !.set = TRUE] \in PinRecords
    BY DEF NoPin, PinRecords
  <2>2. pin' \in [Profiles -> PinRecords] /\ misses' \in [Profiles -> Nat]
    BY <1>2, <1>t, <2>1 DEF SetPin
  <2> QED
    BY <1>2, <1>r, <1>t, <2>2 DEF SetPin, TokensInv, SignInTypeOK, PinReqAt
<1>3. ASSUME NEW q \in PinRequests, NEW p \in Profiles, ReadPin(q, p)
      PROVE  TokensInv'
  <2> DEFINE record == [step |-> "comparing", of |-> p, failed |-> pin[p].failed]
  <2>1. record \in PinRequestRecords /\ record.of = p
    BY <1>t DEF PinRequestRecords, PinRecords
  <2>2. pinReq' = [pinReq EXCEPT ![q] = record]
    BY <1>3 DEF ReadPin
  <2> HIDE DEF record
  <2>3. /\ pinReq' \in [PinRequests -> PinRequestRecords] /\ pinReq'[q] = record
        /\ \A o \in PinRequests \ {q} : pinReq'[o] = pinReq[o]
    BY <1>t, <2>1, <2>2
  <2>4. \A o \in PinRequests : ~PinReqAt(o, "idle")' => pinReq'[o].of \in Profiles
    BY <1>r, <2>1, <2>3 DEF PinReqAt
  <2>5. pinRaced' \subseteq Profiles /\ UNCHANGED <<tokens, pin, misses>>
    BY <1>3, <1>t DEF ReadPin
  <2> QED
    BY <1>t, <2>3, <2>4, <2>5 DEF TokensInv, SignInTypeOK
<1>4. ASSUME NEW q \in PinRequests, WrongPin(q)
      PROVE  TokensInv'
  <2> DEFINE p      == pinReq[q].of
             failed == pinReq[q].failed + 1
             lock   == ShouldLock(failed)
  <2>1. p \in Profiles /\ failed \in Nat
    BY <1>4, <1>r, <1>t DEF WrongPin, PinReqAt, PinRequestRecords
  <2>2. /\ pin' = [pin EXCEPT ![p].failed = IF lock THEN 0 ELSE failed, ![p].locked = lock \/ @]
        /\ misses' = [misses EXCEPT ![p] = IF lock THEN 0 ELSE @ + 1]
        /\ PinReqEnds(q) /\ UNCHANGED <<tokens, pinRaced>>
    BY <1>4 DEF WrongPin
  <2>3. lock \in BOOLEAN
    BY <2>1 DEF ShouldLock
  <2> HIDE DEF p, failed, lock
  <2>4. pin' \in [Profiles -> PinRecords]
    BY <1>t, <2>1, <2>2, <2>3 DEF PinRecords
  <2>5. misses' \in [Profiles -> Nat]
    BY <1>t, <2>1, <2>2
  <2> QED
    BY <1>e, <1>t, <2>2, <2>4, <2>5 DEF TokensInv, SignInTypeOK
<1>5. ASSUME NEW q \in PinRequests, RightPin(q)
      PROVE  TokensInv'
  <2> DEFINE p      == pinReq[q].of
             record == [pinReq[q] EXCEPT !.step = "right", !.failed = 0]
  <2>1. p \in Profiles /\ pinReq[q] \in PinRequestRecords
    BY <1>5, <1>r, <1>t DEF RightPin, PinReqAt
  <2>2. record \in PinRequestRecords /\ record.of = p
    BY <2>1 DEF PinRequestRecords
  <2>3. /\ pin' = [pin EXCEPT ![p].failed = 0, ![p].locked = FALSE]
        /\ misses' = [misses EXCEPT ![p] = 0]
        /\ pinReq' = [pinReq EXCEPT ![q] = record] /\ UNCHANGED <<tokens, pinRaced>>
    BY <1>5 DEF RightPin
  <2> HIDE DEF p, record
  <2>4. pin' \in [Profiles -> PinRecords] /\ misses' \in [Profiles -> Nat]
    BY <1>t, <2>1, <2>3 DEF PinRecords
  <2>5. /\ pinReq' \in [PinRequests -> PinRequestRecords]
        /\ \A o \in PinRequests : ~PinReqAt(o, "idle")' => pinReq'[o].of \in Profiles
    BY <1>r, <1>t, <2>1, <2>2, <2>3 DEF PinReqAt
  <2> QED
    BY <1>t, <2>3, <2>4, <2>5 DEF TokensInv, SignInTypeOK
<1>6. ASSUME NEW q \in PinRequests, SignInByPin(q)
      PROVE  TokensInv'
  <2>1. pinReq[q].of \in Profiles
    BY <1>6, <1>r DEF SignInByPin, PinReqAt
  <2>2. Sign(pinReq[q].of) \/ UNCHANGED tokens
    BY <1>6 DEF SignInByPin
  <2>3. /\ tokens' \subseteq Payloads
        /\ \A t \in tokens' : t.profile = <<t.sub, t.restaurant>>
    BY <1>t, <2>1, <2>2, SignKeepsTokens DEF TokensInv
  <2> QED
    BY <1>6, <1>e, <1>t, <2>3 DEF SignInByPin, TokensInv, SignInTypeOK
<1>7. ASSUME NEW p \in Profiles, LockExpires(p)
      PROVE  TokensInv'
  <2>1. pin' \in [Profiles -> PinRecords]
    BY <1>7, <1>t DEF LockExpires, PinRecords
  <2> QED
    BY <1>7, <1>r, <1>t, <2>1 DEF LockExpires, TokensInv, SignInTypeOK, PinReqAt
<1>8. CASE UNCHANGED signInVars
  BY <1>8 DEF signInVars, TokensInv, SignInTypeOK, PinReqAt
<1> QED
  BY <1>1, <1>2, <1>3, <1>4, <1>5, <1>6, <1>7, <1>8 DEF SignInNext

\* An attempt on another profile, or none, disturbs no counter.
LEMMA PinKept ==
    ASSUME NEW p, PinInv(p), pin'[p].failed = pin[p].failed, misses'[p] = misses[p],
           Comparing(p)' \subseteq Comparing(p),
           \A q \in Comparing(p)' : pinReq'[q].failed = pinReq[q].failed
    PROVE  PinInv(p)'
BY DEF PinInv

LEMMA PinStep == SignInInv /\ [SignInNext]_signInVars => \A p \in Profiles \ pinRaced' : PinInv(p)'
<1> SUFFICES ASSUME SignInInv, [SignInNext]_signInVars, NEW p \in Profiles \ pinRaced'
             PROVE  PinInv(p)'
  OBVIOUS
<1>t. /\ pin \in [Profiles -> PinRecords] /\ pinReq \in [PinRequests -> PinRequestRecords]
      /\ misses \in [Profiles -> Nat]
  BY DEF SignInInv, TokensInv, SignInTypeOK
<1>r. \A q \in PinRequests : ~PinReqAt(q, "idle") => pinReq[q].of \in Profiles
  BY DEF SignInInv, TokensInv
<1>m. MaxPin \in Nat /\ MaxPin > 0
  BY PinAssumption
<1>n. /\ pin[p] \in PinRecords /\ pin[p].failed \in Nat /\ misses[p] \in Nat
      /\ \A q \in PinRequests : pinReq[q] \in PinRequestRecords /\ pinReq[q].failed \in Nat
  BY <1>t DEF PinRecords, PinRequestRecords
<1>i. ASSUME pinRaced \subseteq pinRaced'
      PROVE  PinInv(p)
  BY <1>i DEF SignInInv
\* Nothing of a counter is written.
<1>a. ASSUME UNCHANGED <<pin, misses, pinRaced>>, \A q \in PinRequests : pinReq'[q] = pinReq[q]
                                                      \/ ~PinReqAt(q, "comparing")'
      PROVE  PinInv(p)'
  <2>1. Comparing(p)' \subseteq Comparing(p)
        /\ \A q \in Comparing(p)' : pinReq'[q].failed = pinReq[q].failed
    BY <1>a DEF Comparing, PinReqAt
  <2> QED
    BY <1>a, <1>i, <2>1, PinKept
\* The counter of a profile starts anew.
<1>b. ASSUME pin'[p].failed = 0, misses'[p] = 0, UNCHANGED pinRaced,
             \A q \in PinRequests : pinReq'[q] = pinReq[q] \/ ~PinReqAt(q, "comparing")'
      PROVE  PinInv(p)'
  <2>1. Comparing(p)' \subseteq Comparing(p)
        /\ \A q \in Comparing(p)' : pinReq'[q].failed = pinReq[q].failed
    BY <1>b DEF Comparing, PinReqAt
  <2>2. \A q, o \in Comparing(p)' : q = o
    BY <1>b, <1>i, <2>1 DEF PinInv
  <2>3. \A q \in Comparing(p)' : misses'[p] <= pinReq'[q].failed
    BY <1>b, <1>n, <2>1 DEF Comparing
  <2> QED
    BY <1>b, <1>m, <2>2, <2>3 DEF PinInv
<1>e. ASSUME NEW q \in PinRequests, PinReqEnds(q)
      PROVE  /\ pinReq'[q].step = "idle"
             /\ \A o \in PinRequests : pinReq'[o] = pinReq[o] \/ ~PinReqAt(o, "comparing")'
  BY <1>e, <1>t DEF PinReqEnds, PinReqAt, IdlePinRequest
<1>1. ASSUME NEW i, NEW type, NEW r, LogIn(i, type, r)
      PROVE  PinInv(p)'
  BY <1>1, <1>a DEF LogIn
<1>2. ASSUME NEW t \in tokens, SetPin(t)
      PROVE  PinInv(p)'
  <2>1. CASE t.profile = p
    <3>1. pin'[p] = [NoPin EXCEPT !.set = TRUE] /\ misses'[p] = 0
      BY <1>2, <1>t, <2>1 DEF SetPin
    <3>2. pin'[p].failed = 0
      BY <3>1 DEF NoPin
    <3> QED
      BY <1>2, <1>b, <3>1, <3>2 DEF SetPin
  <2>2. CASE t.profile # p
    <3>1. pin'[p] = pin[p] /\ misses'[p] = misses[p] /\ UNCHANGED <<pinReq, pinRaced>>
      BY <1>2, <1>t, <2>2 DEF SetPin
    <3>2. Comparing(p)' = Comparing(p)
      BY <3>1 DEF Comparing, PinReqAt
    <3> QED
      BY <1>i, <3>1, <3>2, PinKept
  <2> QED
    BY <2>1, <2>2
<1>3. ASSUME NEW q \in PinRequests, NEW o \in Profiles, ReadPin(q, o)
      PROVE  PinInv(p)'
  <2> DEFINE record == [step |-> "comparing", of |-> o, failed |-> pin[o].failed]
  <2>1. /\ pinReq' = [pinReq EXCEPT ![q] = record] /\ UNCHANGED <<pin, misses>>
        /\ record.of = o /\ record.failed = pin[o].failed
        /\ pinRaced \subseteq pinRaced'
    BY <1>3 DEF ReadPin
  <2>2. p = o => Comparing(p) = {}
    BY <1>3 DEF ReadPin, Comparing
  <2> HIDE DEF record
  <2>3. pinReq'[q] = record /\ \A s \in PinRequests \ {q} : pinReq'[s] = pinReq[s]
    BY <1>t, <2>1
  <2>4. PinInv(p)
    BY <1>i, <2>1
  <2>5. CASE p = o
    <3>1. \A s \in Comparing(p)' : s = q
      BY <2>2, <2>3, <2>5 DEF Comparing, PinReqAt
    <3> QED
      BY <2>1, <2>3, <2>4, <2>5, <3>1 DEF PinInv
  <2>6. CASE p # o
    <3>1. Comparing(p)' \subseteq Comparing(p)
          /\ \A s \in Comparing(p)' : pinReq'[s].failed = pinReq[s].failed
      BY <2>1, <2>3, <2>6 DEF Comparing, PinReqAt
    <3> QED
      BY <2>1, <2>4, <3>1, PinKept
  <2> QED
    BY <2>5, <2>6
<1>4. ASSUME NEW q \in PinRequests, WrongPin(q)
      PROVE  PinInv(p)'
  <2> DEFINE o      == pinReq[q].of
             failed == pinReq[q].failed + 1
             lock   == ShouldLock(failed)
  <2>1. o \in Profiles /\ failed \in Nat /\ PinReqAt(q, "comparing")
    BY <1>4, <1>r, <1>n DEF WrongPin, PinReqAt
  <2>2. /\ pin' = [pin EXCEPT ![o].failed = IF lock THEN 0 ELSE failed, ![o].locked = lock \/ @]
        /\ misses' = [misses EXCEPT ![o] = IF lock THEN 0 ELSE @ + 1]
        /\ PinReqEnds(q) /\ UNCHANGED pinRaced
    BY <1>4 DEF WrongPin
  <2>3. /\ pinReq'[q].step = "idle"
        /\ \A s \in PinRequests : pinReq'[s] = pinReq[s] \/ ~PinReqAt(s, "comparing")'
    BY <1>e, <2>2
  <2>4. PinInv(p)
    BY <1>i, <2>2
  <2>5. CASE p = o
    <3>1. q \in Comparing(p)
      BY <2>1, <2>5 DEF Comparing
    <3>2. \A s \in Comparing(p)' : s \in Comparing(p) /\ s # q
      BY <2>3 DEF Comparing, PinReqAt
    <3>3. Comparing(p)' = {}
      BY <2>4, <3>1, <3>2 DEF PinInv
    <3>4. misses[p] + 1 <= failed
      BY <1>n, <2>1, <2>4, <3>1 DEF PinInv
    <3> HIDE DEF o, failed, lock
    <3>5. CASE lock
      <4>1. pin'[p].failed = 0 /\ misses'[p] = 0
        BY <1>t, <2>2, <2>5, <3>5 DEF PinRecords
      <4> QED
        BY <1>m, <3>3, <4>1 DEF PinInv
    <3>6. CASE ~lock
      <4>1. pin'[p].failed = failed /\ misses'[p] = misses[p] + 1
        BY <1>t, <2>2, <2>5, <3>6 DEF PinRecords
      <4>2. failed < MaxPin
        BY <1>m, <2>1, <3>6 DEF lock, ShouldLock
      <4> QED
        BY <3>3, <3>4, <4>1, <4>2 DEF PinInv
    <3> QED
      BY <3>5, <3>6
  <2>6. CASE p # o
    <3> HIDE DEF o, failed, lock
    <3>1. pin'[p] = pin[p] /\ misses'[p] = misses[p]
      BY <1>t, <2>2, <2>6
    <3>2. Comparing(p)' \subseteq Comparing(p)
          /\ \A s \in Comparing(p)' : pinReq'[s].failed = pinReq[s].failed
      BY <2>3 DEF Comparing, PinReqAt
    <3> QED
      BY <2>4, <3>1, <3>2, PinKept
  <2> QED
    BY <2>5, <2>6
<1>5. ASSUME NEW q \in PinRequests, RightPin(q)
      PROVE  PinInv(p)'
  <2> DEFINE o == pinReq[q].of
  <2>1. /\ pin' = [pin EXCEPT ![o].failed = 0, ![o].locked = FALSE]
        /\ misses' = [misses EXCEPT ![o] = 0]
        /\ pinReq' = [pinReq EXCEPT ![q] = [pinReq[q] EXCEPT !.step = "right", !.failed = 0]]
        /\ UNCHANGED pinRaced
    BY <1>5 DEF RightPin
  <2>2. [pinReq[q] EXCEPT !.step = "right", !.failed = 0].step = "right"
    BY <1>n DEF PinRequestRecords
  <2>3. \A s \in PinRequests : pinReq'[s] = pinReq[s] \/ ~PinReqAt(s, "comparing")'
    BY <1>t, <2>1, <2>2 DEF PinReqAt
  <2> HIDE DEF o
  <2>4. CASE p = o
    <3>1. pin'[p].failed = 0 /\ misses'[p] = 0
      BY <1>t, <2>1, <2>4 DEF PinRecords
    <3> QED
      BY <1>b, <2>1, <2>3, <3>1
  <2>5. CASE p # o
    <3>1. pin'[p] = pin[p] /\ misses'[p] = misses[p]
      BY <1>t, <2>1, <2>5
    <3>2. Comparing(p)' \subseteq Comparing(p)
          /\ \A s \in Comparing(p)' : pinReq'[s].failed = pinReq[s].failed
      BY <2>3 DEF Comparing, PinReqAt
    <3> QED
      BY <1>i, <2>1, <3>1, <3>2, PinKept
  <2> QED
    BY <2>4, <2>5
<1>6. ASSUME NEW q \in PinRequests, SignInByPin(q)
      PROVE  PinInv(p)'
  BY <1>6, <1>a, <1>e DEF SignInByPin
<1>7. ASSUME NEW o \in Profiles, LockExpires(o)
      PROVE  PinInv(p)'
  <2>1. pin'[p].failed = pin[p].failed /\ UNCHANGED <<misses, pinReq, pinRaced>>
    BY <1>7, <1>t DEF LockExpires, PinRecords
  <2>2. Comparing(p)' = Comparing(p)
    BY <2>1 DEF Comparing, PinReqAt
  <2> QED
    BY <1>i, <2>1, <2>2, PinKept
<1>8. CASE UNCHANGED signInVars
  BY <1>8, <1>a DEF signInVars
<1> QED
  BY <1>1, <1>2, <1>3, <1>4, <1>5, <1>6, <1>7, <1>8 DEF SignInNext

LEMMA SignInInvariance == AnySignIn => []SignInInv
<1>1. SignInInv /\ [SignInNext]_signInVars => SignInInv'
  BY TokensStep, PinStep DEF SignInInv
<1> QED
  BY <1>1, SignInInitially, PTL DEF AnySignIn

\* Renewing a token answers with the profile it names or not at all, whatever becomes of
\* the rows of the staff and of the identities in the meantime.
THEOREM TokensAreOfOneProfile == AnySignIn => []TokensNameTheirProfile
<1>1. SignInInv => TokensNameTheirProfile
  <2> SUFFICES ASSUME SignInInv, NEW t \in tokens, NEW p \in CurrentUser(t)
               PROVE  p = t.profile
    BY DEF TokensNameTheirProfile
  <2>1. t \in Payloads /\ t.profile = <<t.sub, t.restaurant>>
    BY DEF SignInInv, TokensInv, SignInTypeOK
  <2>2. p \in ResolveProfile(t.sub, t.type, t.restaurant)
    BY DEF CurrentUser
  <2>3. CASE t.type = "staff"
    <3>1. t.restaurant # Nobody
      BY <2>1, <2>3, NobodyAssumption DEF Payloads
    <3>2. p \in ActiveStaffOf(t.sub) /\ p[2] = t.restaurant
      BY <2>2, <2>3, <3>1 DEF ResolveProfile, ResolveStaff, RestaurantOf
    <3>3. p = <<t.sub, p[2]>>
      BY <3>2 DEF ActiveStaffOf
    <3> QED
      BY <2>1, <3>2, <3>3
  <2>4. CASE t.type = "platform_admin"
    <3>1. p = <<t.sub, Nobody>> /\ t.restaurant = Nobody
      BY <2>1, <2>2, <2>4 DEF ResolveProfile, PlatformOf, Payloads
    <3> QED
      BY <2>1, <3>1
  <2> QED
    BY <2>1, <2>3, <2>4 DEF Payloads
<1> QED
  BY <1>1, SignInInvariance, PTL

\* A profile is locked at the MaxPin-th wrong PIN in a row at the latest, unless two
\* attempts on it overlapped.
THEOREM PinLocks == AnySignIn => []PinLockout
<1>1. SignInInv => PinLockout
  <2> SUFFICES ASSUME SignInInv, NEW p \in Profiles \ pinRaced
               PROVE  misses[p] < MaxPin
    BY DEF PinLockout
  <2>1. PinInv(p) /\ pin[p] \in PinRecords /\ misses[p] \in Nat /\ MaxPin \in Nat
    BY PinAssumption DEF SignInInv, TokensInv, SignInTypeOK
  <2> QED
    BY <2>1 DEF PinInv, PinRecords
<1> QED
  BY <1>1, SignInInvariance, PTL

-----------------------------------------------------------------------------
(* Restaurants, branches and staff                                         *)

\* What a request of an administrator may rely on.
HiringSteps == {"hiring", "naming"} \cup OwnerSteps
UpdateSteps == {"updating", "update"}

StaffReqInv(q) ==
    /\ staffReq[q].step \in {"hiring", "naming", "building"} =>
           staffReq[q].by \in Profiles /\ restaurant[RestaurantOf(staffReq[q].by)].exists
    /\ staffReq[q].step \in OwnerSteps \cup UpdateSteps => staffReq[q].of \in Profiles
    /\ staffReq[q].step \in {"identified", "hire"} \cup UpdateSteps =>
           restaurant[RestaurantOf(staffReq[q].of)].exists
    /\ staffReq[q].step \in HiringSteps => staffReq[q].email \in Emails
    /\ staffReq[q].step \in UpdateSteps => profile[staffReq[q].of].status # "NONE"

\* A restaurant that does not exist has nobody and nothing.
PlacesInv ==
    /\ \A p \in Profiles : profile[p].status # "NONE" => restaurant[RestaurantOf(p)].exists
    /\ \A b \in Branches : branchOf[b] # Nobody => restaurant[branchOf[b]].exists

\* Where one update is under way at a time, whatever it makes of its target leaves an
\* administrator; whoever was allowed to create a branch is still active, or another
\* administrator is.
WouldRemain(q) ==
    IsActiveAdmin(StaffUpdated(profile[staffReq[q].of], staffReq[q].status, staffReq[q].roles))

AdminsInv(r) ==
    /\ BranchesOf(r) # {} => ActiveAdmins(r) # {}
    /\ \A q \in Building(r) :
           profile[staffReq[q].by].status = "ACTIVE" \/ ActiveAdmins(r) # {}
    /\ \A q, o \in Updating(r) : q = o
    /\ \A q \in Updating(r) :
           /\ StaffReqAt(q, "updating") /\ staffReq[q].remains => WouldRemain(q)
           /\ StaffReqAt(q, "update") =>
                  WouldRemain(q) \/ ActiveAdmins(r) \ {staffReq[q].of[1]} # {}

\* Whoever was told that the plan grants one more branch finds it so.
QuotaInv(r) ==
    /\ Cardinality(BranchesOf(r)) <= restaurant[r].quota
    /\ \A q, o \in Building(r) : q = o
    /\ Building(r) # {} => BelowQuota(r)

StaffInv ==
    /\ StaffTypeOK
    /\ \A q \in StaffRequests : StaffReqInv(q)
    /\ PlacesInv
    /\ NoStrayIdentity
    /\ \A r \in Restaurants \ adminRaced : AdminsInv(r)
    /\ \A r \in Restaurants : IsFiniteSet(BranchesOf(r))
    /\ \A r \in Restaurants \ quotaRaced : QuotaInv(r)

LEMMA StaffRequestChanges ==
    ASSUME StaffTypeOK, NEW q \in StaffRequests, NEW record \in StaffRequestRecords,
           staffReq' = [staffReq EXCEPT ![q] = record]
    PROVE  /\ staffReq' \in [StaffRequests -> StaffRequestRecords]
           /\ staffReq'[q] = record
           /\ \A o \in StaffRequests \ {q} : staffReq'[o] = staffReq[o]
BY DEF StaffTypeOK

LEMMA StaffRequestEnds ==
    ASSUME StaffTypeOK, NEW q \in StaffRequests, StaffReqEnds(q)
    PROVE  /\ staffReq' \in [StaffRequests -> StaffRequestRecords]
           /\ staffReq'[q].step = "idle"
           /\ \A o \in StaffRequests \ {q} : staffReq'[o] = staffReq[o]
<1>1. IdleStaffRequest \in StaffRequestRecords /\ IdleStaffRequest.step = "idle"
  BY DEF IdleStaffRequest, StaffRequestRecords, StaffSteps, Assignments
<1> QED
  BY <1>1, StaffRequestChanges DEF StaffReqEnds

\* What each step of a request leaves in its row.
LEMMA StaffGoes ==
    ASSUME StaffTypeOK, NEW q \in StaffRequests, NEW step \in StaffSteps, StaffGoto(q, step)
    PROVE  /\ staffReq' \in [StaffRequests -> StaffRequestRecords]
           /\ staffReq'[q] = [staffReq[q] EXCEPT !.step = step]
           /\ staffReq'[q].step = step /\ staffReq'[q].of = staffReq[q].of
           /\ staffReq'[q].by = staffReq[q].by /\ staffReq'[q].created = staffReq[q].created
           /\ staffReq'[q].email = staffReq[q].email
           /\ \A o \in StaffRequests \ {q} : staffReq'[o] = staffReq[o]
<1> DEFINE record == [staffReq[q] EXCEPT !.step = step]
<1>1. staffReq[q] \in StaffRequestRecords
  BY DEF StaffTypeOK
<1>2. /\ record \in StaffRequestRecords
      /\ record.step = step /\ record.of = staffReq[q].of /\ record.by = staffReq[q].by
      /\ record.created = staffReq[q].created /\ record.email = staffReq[q].email
  BY <1>1 DEF StaffRequestRecords
<1>3. staffReq' = [staffReq EXCEPT ![q] = record]
  BY DEF StaffGoto
<1>4. record = [staffReq[q] EXCEPT !.step = step]
  OBVIOUS
<1> HIDE DEF record
<1> QED
  BY <1>2, <1>3, <1>4, StaffRequestChanges

\* The other requests may still rely on what they read: restaurants and profiles stay.
LEMMA StaffReqsKept ==
    ASSUME StaffInv, NEW q \in StaffRequests, StaffReqInv(q)',
           \A o \in StaffRequests \ {q} : staffReq'[o] = staffReq[o],
           \A r \in Restaurants : restaurant[r].exists => restaurant'[r].exists,
           \A p \in Profiles : profile[p].status # "NONE" => profile'[p].status # "NONE"
    PROVE  (\A o \in StaffRequests : StaffReqInv(o))'
<1>1. SUFFICES ASSUME NEW o \in StaffRequests \ {q}
               PROVE  StaffReqInv(o)'
  OBVIOUS
<1>2. StaffReqInv(o) /\ staffReq'[o] = staffReq[o]
  BY DEF StaffInv
<1>3. \A p \in Profiles : RestaurantOf(p) \in Restaurants
  BY DEF Profiles, RestaurantOf
<1> QED
  BY <1>2, <1>3 DEF StaffReqInv, OwnerSteps, UpdateSteps

\* A request gives the identity it created a profile, removes it, dies or still owns it;
\* and any other identity that appears is one it created.
LEMMA IdentitiesKept ==
    ASSUME NoStrayIdentity, NEW q \in StaffRequests,
           \A o \in StaffRequests \ {q} : staffReq'[o] = staffReq[o],
           \A p \in Profiles : profile[p].status # "NONE" => profile'[p].status # "NONE",
           \A i \in Identities \ abandoned' : emailOf'[i] # Nobody =>
               \/ Owns(q, i)' \/ HasProfile(i)'
               \/ emailOf[i] # Nobody /\ i \notin abandoned /\ ~Owns(q, i)
    PROVE  NoStrayIdentity'
<1> SUFFICES ASSUME NEW i \in Identities \ abandoned', emailOf'[i] # Nobody,
                    ~Owns(q, i)', ~HasProfile(i)'
             PROVE  \E o \in StaffRequests : Owns(o, i)'
  BY DEF NoStrayIdentity
<1>1. ~HasProfile(i)
  <2>1. \A r \in Restaurants : <<i, r>> \in Profiles
    BY DEF Profiles
  <2> QED
    BY <2>1 DEF HasProfile
<1>2. emailOf[i] # Nobody /\ i \in Identities \ abandoned /\ ~Owns(q, i)
  OBVIOUS
<1>3. PICK o \in StaffRequests : Owns(o, i)
  BY <1>1, <1>2 DEF NoStrayIdentity
<1>4. o # q /\ staffReq'[o] = staffReq[o]
  BY <1>2, <1>3
<1> QED
  BY <1>3, <1>4 DEF Owns

\* A step of a request that makes and removes no identity, and keeps the one it owns or
\* gives it a profile.
LEMMA IdentitiesStay ==
    ASSUME NoStrayIdentity, NEW q \in StaffRequests,
           emailOf' = emailOf, abandoned \subseteq abandoned',
           \A o \in StaffRequests \ {q} : staffReq'[o] = staffReq[o],
           \A p \in Profiles : profile[p].status # "NONE" => profile'[p].status # "NONE",
           \A i \in Identities : Owns(q, i) =>
               Owns(q, i)' \/ HasProfile(i)' \/ i \in abandoned'
    PROVE  NoStrayIdentity'
BY IdentitiesKept

\* A step that hires at most: whoever has a profile already keeps it, and nobody is
\* updated.
LEMMA AdminsKept ==
    ASSUME StaffInv, NEW q \in StaffRequests, NEW r \in Restaurants, AdminsInv(r),
           branchOf' = branchOf, profile' \in [Profiles -> ProfileRecords],
           \A o \in StaffRequests \ {q} : staffReq'[o] = staffReq[o],
           \A p \in Profiles : profile[p].status # "NONE" => profile'[p] = profile[p],
           staffReq'[q].step \notin {"building"} \cup UpdateSteps
    PROVE  AdminsInv(r)'
<1>1. \A i \in Identities : <<i, r>> \in Profiles
  BY DEF Profiles
<1>2. \A i \in Identities : i \in ActiveAdmins(r) => i \in ActiveAdmins(r)'
  BY <1>1 DEF ActiveAdmins, IsActiveAdmin
<1>3. \A o \in StaffRequests : /\ o \in Building(r)' => o \in Building(r)
                               /\ o \in Updating(r)' => o \in Updating(r)
                               /\ o \in Building(r)' \cup Updating(r)' =>
                                      o # q /\ staffReq'[o] = staffReq[o]
  BY DEF Building, Updating, UpdateSteps, StaffReqAt
<1>4. BranchesOf(r)' # {} => ActiveAdmins(r)' # {}
  BY <1>2 DEF AdminsInv, BranchesOf, ActiveAdmins
<1>5. ASSUME NEW o \in Building(r)'
      PROVE  profile'[staffReq'[o].by].status = "ACTIVE" \/ ActiveAdmins(r)' # {}
  <2>1. o \in StaffRequests /\ o \in Building(r) /\ staffReq'[o] = staffReq[o]
    BY <1>3, <1>5 DEF Building
  <2>2. staffReq[o].by \in Profiles
    BY <2>1 DEF StaffInv, StaffReqInv, Building, StaffReqAt
  <2>3. profile[staffReq[o].by].status = "ACTIVE" \/ ActiveAdmins(r) # {}
    BY <2>1 DEF AdminsInv
  <2>4. CASE ActiveAdmins(r) # {}
    BY <2>4, <1>2 DEF ActiveAdmins
  <2> QED
    BY <2>1, <2>2, <2>3, <2>4
<1>6. \A o, n \in Updating(r)' : o = n
  BY <1>3 DEF AdminsInv, Updating
<1>7. ASSUME NEW o \in Updating(r)'
      PROVE  /\ StaffReqAt(o, "updating")' /\ staffReq'[o].remains => WouldRemain(o)'
             /\ StaffReqAt(o, "update")' =>
                    WouldRemain(o)' \/ ActiveAdmins(r)' \ {staffReq'[o].of[1]} # {}
  <2>1. o \in StaffRequests /\ o \in Updating(r) /\ staffReq'[o] = staffReq[o]
    BY <1>3, <1>7 DEF Updating
  <2>2. staffReq[o].of \in Profiles /\ profile[staffReq[o].of].status # "NONE"
    BY <2>1 DEF StaffInv, StaffReqInv, Updating, UpdateSteps
  <2>3. profile'[staffReq'[o].of] = profile[staffReq[o].of]
    BY <2>1, <2>2
  <2>4. WouldRemain(o) => WouldRemain(o)'
    BY <2>1, <2>3 DEF WouldRemain, IsActiveAdmin, StaffUpdated
  <2>5. ActiveAdmins(r) \ {staffReq[o].of[1]} # {}
        => ActiveAdmins(r)' \ {staffReq'[o].of[1]} # {}
    BY <2>1, <1>2 DEF ActiveAdmins
  <2> QED
    BY <2>1, <2>4, <2>5 DEF AdminsInv, StaffReqAt
<1> QED
  BY <1>4, <1>5, <1>6, <1>7 DEF AdminsInv

\* A step that builds nothing keeps the branches within the plan.
LEMMA QuotaKept ==
    ASSUME NEW q \in StaffRequests, NEW r \in Restaurants, QuotaInv(r),
           branchOf' = branchOf, restaurant'[r].quota = restaurant[r].quota,
           \A o \in StaffRequests \ {q} : staffReq'[o] = staffReq[o],
           staffReq'[q].step # "building"
    PROVE  QuotaInv(r)'
<1>1. \A o \in StaffRequests : o \in Building(r)' => o \in Building(r)
  BY DEF Building, StaffReqAt
<1>2. BranchesOf(r)' = BranchesOf(r)
  BY DEF BranchesOf
<1>3. Cardinality(BranchesOf(r)') = Cardinality(BranchesOf(r))
  BY <1>2, Zenon
<1> QED
  BY <1>1, <1>3 DEF QuotaInv, BelowQuota, Building

LEMMA BranchesStay ==
    ASSUME StaffInv, branchOf' = branchOf
    PROVE  (\A r \in Restaurants : IsFiniteSet(BranchesOf(r)))'
<1> SUFFICES ASSUME NEW r \in Restaurants
             PROVE  IsFiniteSet(BranchesOf(r)')
  OBVIOUS
<1>1. BranchesOf(r)' = BranchesOf(r) /\ IsFiniteSet(BranchesOf(r))
  BY DEF BranchesOf, StaffInv
<1> QED
  BY <1>1, Zenon

\* A step that only moves a request on, and neither updates nor builds.
LEMMA OnlyRequestMoves ==
    ASSUME StaffInv, NEW q \in StaffRequests, StaffReqInv(q)',
           staffReq' \in [StaffRequests -> StaffRequestRecords],
           emailOf' = emailOf, restaurant' = restaurant, branchOf' = branchOf,
           profile' = profile, adminRaced' = adminRaced, quotaRaced' = quotaRaced,
           abandoned' \subseteq Identities, abandoned \subseteq abandoned',
           \A o \in StaffRequests \ {q} : staffReq'[o] = staffReq[o],
           \A i \in Identities : Owns(q, i) =>
               Owns(q, i)' \/ HasProfile(i) \/ i \in abandoned',
           staffReq'[q].step \notin {"building"} \cup UpdateSteps
    PROVE  StaffInv'
<1>1. StaffTypeOK'
  BY DEF StaffInv, StaffTypeOK
<1>2. (\A o \in StaffRequests : StaffReqInv(o))'
  BY StaffReqsKept
<1>3. PlacesInv'
  BY DEF StaffInv, PlacesInv
<1>4. NoStrayIdentity'
  <2>1. \A i \in Identities : HasProfile(i) => HasProfile(i)'
    BY DEF HasProfile
  <2> QED
    BY <2>1, IdentitiesStay DEF StaffInv
<1>5. (\A r \in Restaurants \ adminRaced : AdminsInv(r))'
  BY AdminsKept DEF StaffInv, StaffTypeOK
<1>6. (\A r \in Restaurants \ quotaRaced : QuotaInv(r))'
  BY QuotaKept DEF StaffInv
<1> QED
  BY <1>1, <1>2, <1>3, <1>4, <1>5, <1>6, BranchesStay DEF StaffInv

\* A request that ends relies on nothing.
LEMMA EndedRequest ==
    ASSUME NEW q \in StaffRequests, staffReq'[q].step = "idle"
    PROVE  /\ StaffReqInv(q)'
           /\ staffReq'[q].step \notin {"building"} \cup UpdateSteps
BY DEF StaffReqInv, OwnerSteps, UpdateSteps, HiringSteps

\* A request may end at once that owns no identity, or whose identity has a profile.
LEMMA StaffRequestEndsInv ==
    ASSUME StaffInv, NEW q \in StaffRequests, StaffReqEnds(q),
           UNCHANGED <<People, Places, profile, adminRaced>>,
           \A i \in Identities : Owns(q, i) => HasProfile(i)
    PROVE  StaffInv'
<1>1. /\ emailOf' = emailOf /\ abandoned' = abandoned /\ restaurant' = restaurant
      /\ branchOf' = branchOf /\ quotaRaced' = quotaRaced /\ profile' = profile
      /\ adminRaced' = adminRaced /\ StaffTypeOK /\ abandoned \subseteq Identities
  BY DEF People, Places, StaffInv, StaffTypeOK
<1> QED
  BY <1>1, StaffRequestEnds, EndedRequest, OnlyRequestMoves

LEMMA StaffRequestDiesInv ==
    ASSUME StaffInv, NEW q \in StaffRequests, StaffRequestDies(q)
    PROVE  StaffInv'
<1>1. /\ emailOf' = emailOf /\ restaurant' = restaurant /\ branchOf' = branchOf
      /\ quotaRaced' = quotaRaced /\ profile' = profile /\ adminRaced' = adminRaced
      /\ StaffReqEnds(q) /\ StaffTypeOK /\ abandoned \subseteq Identities
      /\ abandoned' = abandoned \cup {i \in Identities : Owns(q, i)}
  BY DEF StaffRequestDies, Places, StaffInv, StaffTypeOK
<1>2. /\ abandoned' \subseteq Identities /\ abandoned \subseteq abandoned'
      /\ \A i \in Identities : Owns(q, i) => i \in abandoned'
  BY <1>1
<1> QED
  BY <1>1, <1>2, StaffRequestEnds, EndedRequest, OnlyRequestMoves

LEMMA BootstrapIdentityInv ==
    ASSUME StaffInv, NEW q \in StaffRequests, NEW r \in Restaurants, NEW i \in Identities,
           NEW e \in Emails, BootstrapIdentity(q, r, i, e)
    PROVE  StaffInv'
<1> DEFINE record == [IdleStaffRequest EXCEPT !.step = "bootstrap", !.of = <<i, r>>,
                                              !.email = e, !.created = TRUE]
<1>1. /\ record \in StaffRequestRecords /\ record.step = "bootstrap"
      /\ record.of = <<i, r>> /\ record.email = e /\ record.created
      /\ <<i, r>> \in Profiles
  BY DEF IdleStaffRequest, StaffRequestRecords, StaffSteps, Assignments, Profiles
<1>2. staffReq' = [staffReq EXCEPT ![q] = record] /\ StaffTypeOK
  BY DEF BootstrapIdentity, StaffInv
<1> HIDE DEF record
<1>3. /\ staffReq' \in [StaffRequests -> StaffRequestRecords]
      /\ staffReq'[q] = record
      /\ \A o \in StaffRequests \ {q} : staffReq'[o] = staffReq[o]
  BY <1>1, <1>2, StaffRequestChanges
<1>4. /\ restaurant' = restaurant /\ branchOf' = branchOf /\ quotaRaced' = quotaRaced
      /\ profile' = profile /\ adminRaced' = adminRaced
      /\ emailOf' = [emailOf EXCEPT ![i] = e] /\ abandoned' = abandoned
      /\ staffReq[q].step = "idle"
  BY DEF BootstrapIdentity, Places, StaffReqAt
<1>5. StaffTypeOK'
  BY <1>2, <1>3, <1>4 DEF StaffTypeOK
<1>6. StaffReqInv(q)'
  BY <1>1, <1>3 DEF StaffReqInv, OwnerSteps, UpdateSteps, HiringSteps
<1>7. (\A o \in StaffRequests : StaffReqInv(o))'
  BY <1>3, <1>4, <1>6, StaffReqsKept
<1>8. PlacesInv'
  BY <1>4 DEF StaffInv, PlacesInv
<1>9. Owns(q, i)' /\ \A j \in Identities : ~Owns(q, j)
  BY <1>1, <1>3, <1>4 DEF Owns, OwnerSteps
<1>10. \A j \in Identities \ {i} : emailOf'[j] = emailOf[j]
  BY <1>2, <1>4 DEF StaffTypeOK
<1>14. NoStrayIdentity'
  BY <1>3, <1>4, <1>9, <1>10, IdentitiesKept DEF StaffInv
<1>11. staffReq'[q].step \notin {"building"} \cup UpdateSteps
  BY <1>1, <1>3 DEF UpdateSteps
<1>12. (\A s \in Restaurants \ adminRaced : AdminsInv(s))'
  BY <1>2, <1>3, <1>4, <1>11, AdminsKept DEF StaffInv, StaffTypeOK
<1>13. (\A s \in Restaurants \ quotaRaced : QuotaInv(s))'
  BY <1>3, <1>4, <1>11, QuotaKept DEF StaffInv
<1> QED
  BY <1>4, <1>5, <1>7, <1>8, <1>12, <1>13, <1>14, BranchesStay DEF StaffInv

LEMMA CreateIdentityInv ==
    ASSUME StaffInv, NEW q \in StaffRequests, NEW i \in Identities, CreateIdentity(q, i)
    PROVE  StaffInv'
<1> DEFINE e == staffReq[q].email  r == RestaurantOf(staffReq[q].by)
<1>1. /\ restaurant' = restaurant /\ branchOf' = branchOf /\ quotaRaced' = quotaRaced
      /\ profile' = profile /\ adminRaced' = adminRaced /\ abandoned' = abandoned
      /\ StaffTypeOK /\ staffReq[q] \in StaffRequestRecords
      /\ staffReq[q].step = "naming" /\ StaffReqInv(q)
      /\ \A j \in Identities : ~Owns(q, j)
  BY DEF CreateIdentity, Places, StaffInv, StaffTypeOK, StaffReqAt, Owns, OwnerSteps
<1>2. e \in Emails /\ r \in Restaurants /\ restaurant[r].exists
  BY <1>1 DEF StaffReqInv, HiringSteps, Profiles, RestaurantOf
<1>3. CASE IdentitiesOf(e) # {}
  <2>1. StaffReqEnds(q) /\ emailOf' = emailOf
    BY <1>3 DEF CreateIdentity
  <2> QED
    BY <2>1, <1>1, StaffRequestEndsInv DEF People, Places
<1>4. CASE IdentitiesOf(e) = {}
  <2>1. /\ emailOf' = [emailOf EXCEPT ![i] = e]
        /\ staffReq' = [staffReq EXCEPT ![q].step = "identified", ![q].of = <<i, r>>,
                                        ![q].by = Nobody, ![q].created = TRUE]
    BY <1>4 DEF CreateIdentity
  <2>2. /\ <<i, r>> \in Profiles \cup {Nobody} /\ Nobody \in Profiles \cup {Nobody}
        /\ "identified" \in StaffSteps /\ staffReq[q].roles \in Assignments
        /\ staffReq[q].remains \in BOOLEAN
    BY <1>1, <1>2 DEF Profiles, StaffSteps, StaffRequestRecords
  <2> DEFINE record == [staffReq[q] EXCEPT !.step = "identified", !.of = <<i, r>>,
                                           !.by = Nobody, !.created = TRUE]
  <2>3. /\ staffReq' = [staffReq EXCEPT ![q] = record]
        /\ record \in StaffRequestRecords
        /\ record.step = "identified" /\ record.of = <<i, r>> /\ record.created = TRUE
        /\ record.email = staffReq[q].email
    BY <2>1, <2>2, <1>1 DEF StaffRequestRecords
  <2> HIDE DEF e, r, record
  <2>4. /\ staffReq' \in [StaffRequests -> StaffRequestRecords]
        /\ staffReq'[q].step = "identified" /\ staffReq'[q].of = <<i, r>>
        /\ staffReq'[q].created = TRUE /\ staffReq'[q].email = staffReq[q].email
        /\ \A o \in StaffRequests \ {q} : staffReq'[o] = staffReq[o]
    BY <2>3, <1>1, StaffRequestChanges
  <2>5. StaffTypeOK'
    BY <1>1, <1>2, <2>1, <2>4 DEF StaffTypeOK
  <2>6. StaffReqInv(q)'
    BY <1>1, <1>2, <2>4 DEF StaffReqInv, OwnerSteps, UpdateSteps, HiringSteps, Profiles,
                            RestaurantOf, e
  <2>7. (\A o \in StaffRequests : StaffReqInv(o))'
    BY <1>1, <2>4, <2>6, StaffReqsKept
  <2>8. PlacesInv'
    BY <1>1 DEF StaffInv, PlacesInv
  <2>9. Owns(q, i)'
    BY <2>4 DEF Owns, OwnerSteps
  <2>14. \A j \in Identities \ {i} : emailOf'[j] = emailOf[j]
    BY <2>1, <1>1 DEF StaffTypeOK
  <2>10. NoStrayIdentity'
    BY <1>1, <2>4, <2>9, <2>14, IdentitiesKept DEF StaffInv
  <2>11. staffReq'[q].step \notin {"building"} \cup UpdateSteps
    BY <2>4 DEF UpdateSteps
  <2>12. (\A s \in Restaurants \ adminRaced : AdminsInv(s))'
    BY <1>1, <2>4, <2>11, AdminsKept DEF StaffInv, StaffTypeOK
  <2>13. (\A s \in Restaurants \ quotaRaced : QuotaInv(s))'
    BY <1>1, <2>4, <2>11, QuotaKept DEF StaffInv
  <2> QED
    BY <1>1, <2>5, <2>7, <2>8, <2>10, <2>12, <2>13, BranchesStay DEF StaffInv
<1> QED
  BY <1>3, <1>4

LEMMA CreateStaffUserInv ==
    ASSUME StaffInv, NEW q \in StaffRequests, NEW p \in Profiles, NEW e \in Emails,
           NEW roles \in RoleSets, CreateStaffUser(q, p, e, roles)
    PROVE  StaffInv'
<1> DEFINE record == [IdleStaffRequest EXCEPT !.step = "hiring", !.by = p, !.email = e,
                                              !.roles = roles]
<1>1. /\ record \in StaffRequestRecords /\ record.step = "hiring"
      /\ record.by = p /\ record.email = e
  BY DEF IdleStaffRequest, StaffRequestRecords, StaffSteps, Assignments, RoleSets
<1>2. staffReq' = [staffReq EXCEPT ![q] = record] /\ StaffTypeOK
  BY DEF CreateStaffUser, StaffInv
<1> HIDE DEF record
<1>3. /\ staffReq' \in [StaffRequests -> StaffRequestRecords]
      /\ staffReq'[q] = record
      /\ \A o \in StaffRequests \ {q} : staffReq'[o] = staffReq[o]
  BY <1>1, <1>2, StaffRequestChanges
<1>4. /\ restaurant' = restaurant /\ branchOf' = branchOf /\ quotaRaced' = quotaRaced
      /\ profile' = profile /\ adminRaced' = adminRaced /\ emailOf' = emailOf
      /\ abandoned' = abandoned /\ Assignable(p, roles) /\ staffReq[q].step = "idle"
  BY DEF CreateStaffUser, People, Places, StaffReqAt
<1>5. StaffTypeOK'
  BY <1>2, <1>3, <1>4 DEF StaffTypeOK
<1>6. profile[p].status = "ACTIVE"
  BY <1>4 DEF Assignable, AdminBranchIds
<1>7. restaurant[RestaurantOf(p)].exists
  BY <1>6 DEF StaffInv, PlacesInv
<1>8. StaffReqInv(q)'
  BY <1>1, <1>3, <1>4, <1>7 DEF StaffReqInv, OwnerSteps, UpdateSteps
<1>9. (\A o \in StaffRequests : StaffReqInv(o))'
  BY <1>3, <1>4, <1>8, StaffReqsKept
<1>10. PlacesInv'
  BY <1>4 DEF StaffInv, PlacesInv
<1>11. NoStrayIdentity'
  BY <1>3, <1>4, IdentitiesStay DEF StaffInv, Owns, OwnerSteps
<1>12. staffReq'[q].step \notin {"building"} \cup UpdateSteps
  BY <1>1, <1>3 DEF UpdateSteps
<1>13. (\A s \in Restaurants \ adminRaced : AdminsInv(s))'
  BY <1>2, <1>3, <1>4, <1>12, AdminsKept DEF StaffInv, StaffTypeOK
<1>14. (\A s \in Restaurants \ quotaRaced : QuotaInv(s))'
  BY <1>3, <1>4, <1>12, QuotaKept DEF StaffInv
<1> QED
  BY <1>4, <1>5, <1>9, <1>10, <1>11, <1>13, <1>14, BranchesStay DEF StaffInv

LEMMA FindUserByEmailInv ==
    ASSUME StaffInv, NEW q \in StaffRequests, FindUserByEmail(q)
    PROVE  StaffInv'
<1> DEFINE e == staffReq[q].email  r == RestaurantOf(staffReq[q].by)
<1>1. /\ restaurant' = restaurant /\ branchOf' = branchOf /\ quotaRaced' = quotaRaced
      /\ profile' = profile /\ adminRaced' = adminRaced /\ abandoned' = abandoned
      /\ emailOf' = emailOf
      /\ StaffTypeOK /\ staffReq[q] \in StaffRequestRecords
      /\ staffReq[q].step = "hiring" /\ StaffReqInv(q)
      /\ \A j \in Identities : ~Owns(q, j)
  <2>1. UNCHANGED <<People, Places, profile, adminRaced>> /\ StaffReqAt(q, "hiring")
    BY Zenon DEF FindUserByEmail
  <2> QED
    BY <2>1 DEF People, Places, StaffInv, StaffTypeOK, StaffReqAt, Owns, OwnerSteps
<1>2. /\ e \in Emails /\ r \in Restaurants /\ restaurant[r].exists
      /\ "naming" \in StaffSteps
  BY <1>1 DEF StaffReqInv, HiringSteps, Profiles, RestaurantOf, StaffSteps
<1>3. CASE StaffReqEnds(q)
  BY <1>1, <1>3, StaffRequestEndsInv DEF People, Places
<1>4. CASE StaffGoto(q, "naming")
  <2>1. /\ staffReq' \in [StaffRequests -> StaffRequestRecords]
        /\ staffReq'[q].step = "naming" /\ staffReq'[q].email = e
        /\ staffReq'[q].by = staffReq[q].by
        /\ \A o \in StaffRequests \ {q} : staffReq'[o] = staffReq[o]
    BY <1>1, <1>2, <1>4, StaffGoes
  <2>2. StaffReqInv(q)'
    BY <2>1, <1>1 DEF StaffReqInv, OwnerSteps, UpdateSteps, HiringSteps
  <2> QED
    BY <2>1, <2>2, <1>1, OnlyRequestMoves DEF UpdateSteps, StaffTypeOK
<1>5. ASSUME NEW i \in IdentitiesOf(e),
             staffReq' = [staffReq EXCEPT ![q].step = "identified", ![q].of = <<i, r>>,
                                          ![q].by = Nobody]
      PROVE  StaffInv'
  <2>1. i \in Identities /\ emailOf[i] = e /\ <<i, r>> \in Profiles
    BY <1>2 DEF IdentitiesOf, Profiles
  <2> DEFINE record == [staffReq[q] EXCEPT !.step = "identified", !.of = <<i, r>>,
                                           !.by = Nobody]
  <2>2. /\ staffReq' = [staffReq EXCEPT ![q] = record]
        /\ record \in StaffRequestRecords
        /\ record.step = "identified" /\ record.of = <<i, r>>
        /\ record.created = staffReq[q].created /\ record.email = e
    BY <2>1, <1>1, <1>5 DEF StaffRequestRecords, StaffSteps
  <2> HIDE DEF e, r, record
  <2>3. /\ staffReq' \in [StaffRequests -> StaffRequestRecords]
        /\ staffReq'[q].step = "identified" /\ staffReq'[q].of = <<i, r>>
        /\ staffReq'[q].created = staffReq[q].created /\ staffReq'[q].email = e
        /\ \A o \in StaffRequests \ {q} : staffReq'[o] = staffReq[o]
    BY <2>2, <1>1, StaffRequestChanges
  <2>4. StaffTypeOK'
    BY <1>1, <2>3 DEF StaffTypeOK
  <2>5. StaffReqInv(q)'
    BY <1>1, <1>2, <2>1, <2>3 DEF StaffReqInv, OwnerSteps, UpdateSteps, HiringSteps, Profiles,
                                  RestaurantOf
  <2>6. (\A o \in StaffRequests : StaffReqInv(o))'
    BY <1>1, <2>3, <2>5, StaffReqsKept
  <2>7. PlacesInv'
    BY <1>1 DEF StaffInv, PlacesInv
  <2>8. NoStrayIdentity'
    BY <1>1, <2>3, IdentitiesStay DEF StaffInv
  <2>9. staffReq'[q].step \notin {"building"} \cup UpdateSteps
    BY <2>3 DEF UpdateSteps
  <2>10. (\A s \in Restaurants \ adminRaced : AdminsInv(s))'
    BY <1>1, <2>3, <2>9, AdminsKept DEF StaffInv, StaffTypeOK
  <2>11. (\A s \in Restaurants \ quotaRaced : QuotaInv(s))'
    BY <1>1, <2>3, <2>9, QuotaKept DEF StaffInv
  <2> QED
    BY <1>1, <2>4, <2>6, <2>7, <2>8, <2>10, <2>11, BranchesStay DEF StaffInv
<1> QED
  BY <1>3, <1>4, <1>5, Zenon DEF FindUserByEmail

LEMMA CheckExistingStaffInv ==
    ASSUME StaffInv, NEW q \in StaffRequests, CheckExistingStaff(q)
    PROVE  StaffInv'
<1>1. /\ restaurant' = restaurant /\ branchOf' = branchOf /\ quotaRaced' = quotaRaced
      /\ profile' = profile /\ adminRaced' = adminRaced /\ abandoned' = abandoned
      /\ emailOf' = emailOf
      /\ StaffTypeOK /\ staffReq[q].step = "identified" /\ StaffReqInv(q)
  BY DEF CheckExistingStaff, People, Places, StaffInv, StaffReqAt
<1>2. CASE profile[staffReq[q].of].status # "NONE"
  <2>1. StaffReqEnds(q)
    BY <1>2 DEF CheckExistingStaff
  <2>2. \A i \in Identities : Owns(q, i) => HasProfile(i)
    BY <1>1, <1>2 DEF Owns, HasProfile, StaffReqInv, OwnerSteps, HiringSteps, Profiles
  <2> QED
    BY <1>1, <2>1, <2>2, StaffRequestEndsInv DEF People, Places
<1>3. CASE profile[staffReq[q].of].status = "NONE"
  <2>4. StaffGoto(q, "hire")
    BY <1>3 DEF CheckExistingStaff
  <2>1. /\ staffReq' \in [StaffRequests -> StaffRequestRecords]
        /\ staffReq'[q].step = "hire" /\ staffReq'[q].email = staffReq[q].email
        /\ staffReq'[q].of = staffReq[q].of /\ staffReq'[q].created = staffReq[q].created
        /\ \A o \in StaffRequests \ {q} : staffReq'[o] = staffReq[o]
    BY <1>1, <2>4, StaffGoes DEF StaffSteps
  <2>2. StaffReqInv(q)'
    BY <2>1, <1>1 DEF StaffReqInv, OwnerSteps, UpdateSteps, HiringSteps
  <2>3. \A i \in Identities : Owns(q, i) => Owns(q, i)'
    BY <2>1 DEF Owns, OwnerSteps
  <2> QED
    BY <2>1, <2>2, <2>3, <1>1, OnlyRequestMoves DEF UpdateSteps, StaffTypeOK
<1> QED
  BY <1>2, <1>3

\* A request that creates a profile, of a restaurant that exists, ends with it.
LEMMA ProfileMadeInv ==
    ASSUME StaffInv, NEW q \in StaffRequests, NEW record \in ProfileRecords,
           staffReq[q].step \in OwnerSteps, StaffReqEnds(q),
           profile[staffReq[q].of].status = "NONE", record.status # "NONE",
           profile' = [profile EXCEPT ![staffReq[q].of] = record],
           emailOf' = emailOf, abandoned' = abandoned, adminRaced' = adminRaced,
           quotaRaced' = quotaRaced, branchOf' = branchOf,
           restaurant' \in [Restaurants -> [exists : BOOLEAN, quota : Nat]],
           restaurant'[RestaurantOf(staffReq[q].of)].exists,
           \A r \in Restaurants : restaurant[r].exists => restaurant'[r].exists,
           \A r \in Restaurants : restaurant'[r].quota = restaurant[r].quota \/ QuotaInv(r)'
    PROVE  StaffInv'
<1>1. /\ staffReq' \in [StaffRequests -> StaffRequestRecords] /\ staffReq'[q].step = "idle"
      /\ \A o \in StaffRequests \ {q} : staffReq'[o] = staffReq[o]
  BY StaffRequestEnds DEF StaffInv
<1>2. /\ StaffReqInv(q)' /\ staffReq'[q].step \notin {"building"} \cup UpdateSteps
  BY <1>1, EndedRequest
<1>3. staffReq[q].of \in Profiles /\ profile \in [Profiles -> ProfileRecords]
  BY DEF StaffInv, StaffTypeOK, StaffReqInv
<1>4. /\ profile' \in [Profiles -> ProfileRecords]
      /\ profile'[staffReq[q].of] = record
      /\ \A p \in Profiles \ {staffReq[q].of} : profile'[p] = profile[p]
  BY <1>3
<1>5. \A p \in Profiles : profile[p].status # "NONE" => profile'[p] = profile[p]
  BY <1>4
<1>6. StaffTypeOK'
  BY <1>1, <1>4 DEF StaffInv, StaffTypeOK
<1>7. (\A o \in StaffRequests : StaffReqInv(o))'
  BY <1>1, <1>2, <1>5, StaffReqsKept
<1>8. PlacesInv'
  <2>1. \A p \in Profiles : RestaurantOf(p) \in Restaurants
    BY DEF Profiles, RestaurantOf
  <2>2. \A b \in Branches : branchOf[b] # Nobody => branchOf[b] \in Restaurants
    BY DEF StaffInv, StaffTypeOK
  <2> QED
    BY <2>1, <2>2, <1>4 DEF StaffInv, PlacesInv
<1>9. NoStrayIdentity'
  <2>1. PICK i \in Identities, r \in Restaurants : staffReq[q].of = <<i, r>>
    BY <1>3 DEF Profiles
  <2>2. \A j \in Identities : Owns(q, j) => j = i
    BY <2>1 DEF Owns
  <2>3. profile'[<<i, r>>].status # "NONE"
    BY <2>1, <1>4
  <2>4. \A j \in Identities : Owns(q, j) => HasProfile(j)'
    BY <2>2, <2>3 DEF HasProfile
  <2> QED
    BY <1>1, <1>5, <2>4, IdentitiesStay DEF StaffInv
<1>10. (\A r \in Restaurants \ adminRaced : AdminsInv(r))'
  BY <1>1, <1>2, <1>4, <1>5, AdminsKept DEF StaffInv
<1>11. staffReq'[q].step # "building"
  BY <1>1
<1>12. (\A r \in Restaurants \ quotaRaced : QuotaInv(r))'
  BY <1>1, <1>11, QuotaKept DEF StaffInv
<1> QED
  BY <1>6, <1>7, <1>8, <1>9, <1>10, <1>12, BranchesStay DEF StaffInv

LEMMA InsertStaffUserInv ==
    ASSUME StaffInv, NEW q \in StaffRequests, InsertStaffUser(q)
    PROVE  StaffInv'
<1> DEFINE p == staffReq[q].of
<1>1. /\ restaurant' = restaurant /\ branchOf' = branchOf /\ quotaRaced' = quotaRaced
      /\ adminRaced' = adminRaced /\ abandoned' = abandoned /\ emailOf' = emailOf
      /\ StaffTypeOK /\ staffReq[q] \in StaffRequestRecords
      /\ staffReq[q].step = "hire" /\ StaffReqInv(q)
  BY DEF InsertStaffUser, People, Places, StaffInv, StaffTypeOK, StaffReqAt
<1>2. CASE ~staffReq[q].created /\ StaffReqEnds(q) /\ profile' = profile
  BY <1>1, <1>2, StaffRequestEndsInv DEF People, Places, Owns
<1>3. CASE /\ staffReq[q].created /\ profile' = profile
           /\ staffReq' = [staffReq EXCEPT ![q].step = "undo", ![q].roles = {}]
  <2> DEFINE record == [staffReq[q] EXCEPT !.step = "undo", !.roles = {}]
  <2>1. /\ staffReq' = [staffReq EXCEPT ![q] = record]
        /\ record \in StaffRequestRecords /\ record.step = "undo"
        /\ record.of = p /\ record.email = staffReq[q].email
        /\ record.created = staffReq[q].created
    BY <1>1, <1>3 DEF StaffRequestRecords, StaffSteps, Assignments
  <2> HIDE DEF record
  <2>2. /\ staffReq' \in [StaffRequests -> StaffRequestRecords]
        /\ staffReq'[q].step = "undo" /\ staffReq'[q].email = staffReq[q].email
        /\ staffReq'[q].of = p /\ staffReq'[q].created = staffReq[q].created
        /\ \A o \in StaffRequests \ {q} : staffReq'[o] = staffReq[o]
    BY <2>1, <1>1, StaffRequestChanges
  <2>3. StaffReqInv(q)'
    BY <2>2, <1>1, <1>3 DEF StaffReqInv, OwnerSteps, UpdateSteps, HiringSteps
  <2>4. \A i \in Identities : Owns(q, i) => Owns(q, i)'
    BY <2>2 DEF Owns, OwnerSteps
  <2> QED
    BY <2>2, <2>3, <2>4, <1>1, <1>3, OnlyRequestMoves DEF UpdateSteps, StaffTypeOK
<1>4. CASE /\ profile[p].status = "NONE" /\ StaffReqEnds(q)
           /\ profile' = [profile EXCEPT ![p] = [status |-> "ACTIVE",
                                                 roles |-> staffReq[q].roles]]
  <2> DEFINE record == [status |-> "ACTIVE", roles |-> staffReq[q].roles]
  <2>1. /\ record \in ProfileRecords /\ record.status # "NONE"
        /\ profile' = [profile EXCEPT ![p] = record]
    BY <1>1, <1>4 DEF ProfileRecords, StaffRequestRecords
  <2> HIDE DEF record
  <2>2. /\ restaurant' \in [Restaurants -> [exists : BOOLEAN, quota : Nat]]
        /\ restaurant'[RestaurantOf(p)].exists /\ staffReq[q].step \in OwnerSteps
    BY <1>1 DEF StaffTypeOK, StaffReqInv, OwnerSteps
  <2> QED
    BY <2>1, <2>2, <1>1, <1>4, ProfileMadeInv
<1> QED
  BY <1>2, <1>3, <1>4 DEF InsertStaffUser, StaffFails

\* A restaurant that was just created has no branch, and nobody is building one.
LEMMA NewRestaurant ==
    ASSUME StaffInv, NEW q \in StaffRequests, NEW r \in Restaurants, ~restaurant[r].exists,
           branchOf' = branchOf, staffReq'[q].step = "idle", restaurant'[r].quota \in Nat,
           \A o \in StaffRequests \ {q} : staffReq'[o] = staffReq[o]
    PROVE  QuotaInv(r)'
<1>1. BranchesOf(r)' = {}
  BY NobodyAssumption DEF StaffInv, PlacesInv, BranchesOf
<1>2. Building(r)' = {}
  BY DEF StaffInv, StaffReqInv, Building, StaffReqAt
<1>3. Cardinality({}) = 0
  BY FS_EmptySet
<1>4. Cardinality(BranchesOf(r)') = 0
  BY <1>1, <1>3, Zenon
<1> QED
  BY <1>2, <1>4 DEF QuotaInv

LEMMA BootstrapRestaurantInv ==
    ASSUME StaffInv, NEW q \in StaffRequests, NEW quota \in Nat, BootstrapRestaurant(q, quota)
    PROVE  StaffInv'
<1> DEFINE p == staffReq[q].of  r == RestaurantOf(p)
<1>1. /\ branchOf' = branchOf /\ quotaRaced' = quotaRaced
      /\ adminRaced' = adminRaced /\ abandoned' = abandoned /\ emailOf' = emailOf
      /\ StaffTypeOK /\ staffReq[q].step = "bootstrap" /\ StaffReqInv(q)
  BY DEF BootstrapRestaurant, People, StaffInv, StaffReqAt
<1>2. CASE StaffGoto(q, "undo") /\ restaurant' = restaurant /\ profile' = profile
  <2>1. /\ staffReq' \in [StaffRequests -> StaffRequestRecords]
        /\ staffReq'[q].step = "undo" /\ staffReq'[q].email = staffReq[q].email
        /\ staffReq'[q].of = p /\ staffReq'[q].created = staffReq[q].created
        /\ \A o \in StaffRequests \ {q} : staffReq'[o] = staffReq[o]
    BY <1>1, <1>2, StaffGoes DEF StaffSteps
  <2>2. StaffReqInv(q)'
    BY <2>1, <1>1 DEF StaffReqInv, OwnerSteps, UpdateSteps, HiringSteps
  <2>3. \A i \in Identities : Owns(q, i) => Owns(q, i)'
    BY <2>1 DEF Owns, OwnerSteps
  <2> QED
    BY <2>1, <2>2, <2>3, <1>1, <1>2, OnlyRequestMoves DEF UpdateSteps, StaffTypeOK
<1>3. CASE /\ ~restaurant[r].exists /\ StaffReqEnds(q)
           /\ restaurant' = [restaurant EXCEPT ![r] = [exists |-> TRUE, quota |-> quota]]
           /\ profile' = [profile EXCEPT ![p] = [status |-> "ACTIVE", roles |-> {}]]
  <2> DEFINE record == [status |-> "ACTIVE", roles |-> {}]
  <2>1. /\ record \in ProfileRecords /\ record.status # "NONE"
        /\ profile' = [profile EXCEPT ![p] = record]
    BY <1>3 DEF ProfileRecords, Assignments
  <2> HIDE DEF record
  <2>2. p \in Profiles /\ r \in Restaurants /\ staffReq[q].step \in OwnerSteps
    BY <1>1 DEF StaffReqInv, OwnerSteps, Profiles, RestaurantOf
  <2>3. profile[p].status = "NONE"
    BY <1>3, <2>2 DEF StaffInv, PlacesInv
  <2>4. /\ restaurant' \in [Restaurants -> [exists : BOOLEAN, quota : Nat]]
        /\ restaurant'[r].exists /\ restaurant'[r].quota = quota
        /\ \A s \in Restaurants \ {r} : restaurant'[s] = restaurant[s]
    BY <1>1, <1>3, <2>2 DEF StaffTypeOK
  <2>5. /\ staffReq'[q].step = "idle"
        /\ \A o \in StaffRequests \ {q} : staffReq'[o] = staffReq[o]
    BY <1>1, <1>3, StaffRequestEnds
  <2>6. \A s \in Restaurants : s = r => QuotaInv(s)'
    BY <2>4, <2>5, <1>1, <1>3, NewRestaurant
  <2>9. \A s \in Restaurants : restaurant'[s].quota = restaurant[s].quota \/ QuotaInv(s)'
    BY <2>4, <2>6
  <2>10. \A s \in Restaurants : restaurant[s].exists => restaurant'[s].exists
    BY <2>4
  <2> QED
    BY <2>1, <2>2, <2>3, <2>4, <2>9, <2>10, <1>1, <1>3, ProfileMadeInv
<1> QED
  BY <1>2, <1>3 DEF BootstrapRestaurant

LEMMA DeleteIdentityInv ==
    ASSUME StaffInv, NEW q \in StaffRequests, DeleteIdentity(q)
    PROVE  StaffInv'
<1> DEFINE i == staffReq[q].of[1]
<1>1. /\ restaurant' = restaurant /\ branchOf' = branchOf /\ quotaRaced' = quotaRaced
      /\ profile' = profile /\ adminRaced' = adminRaced /\ abandoned' = abandoned
      /\ StaffTypeOK /\ staffReq[q].step = "undo" /\ StaffReqInv(q) /\ StaffReqEnds(q)
      /\ emailOf' = IF HasProfile(i) THEN emailOf ELSE [emailOf EXCEPT ![i] = Nobody]
  BY DEF DeleteIdentity, Places, StaffInv, StaffReqAt
<1>2. staffReq[q].of \in Profiles /\ i \in Identities
  BY <1>1 DEF StaffReqInv, OwnerSteps, Profiles
<1>3. /\ staffReq' \in [StaffRequests -> StaffRequestRecords] /\ staffReq'[q].step = "idle"
      /\ \A o \in StaffRequests \ {q} : staffReq'[o] = staffReq[o]
  BY <1>1, StaffRequestEnds
<1>4. /\ StaffReqInv(q)' /\ staffReq'[q].step \notin {"building"} \cup UpdateSteps
  BY <1>3, EndedRequest
<1>5. /\ emailOf' \in [Identities -> Emails \cup {Nobody}]
      /\ \A j \in Identities \ {i} : emailOf'[j] = emailOf[j]
      /\ emailOf'[i] = Nobody \/ HasProfile(i)
  BY <1>1, <1>2 DEF StaffTypeOK
<1>6. StaffTypeOK'
  BY <1>1, <1>3, <1>5 DEF StaffTypeOK
<1>7. (\A o \in StaffRequests : StaffReqInv(o))'
  BY <1>1, <1>3, <1>4, StaffReqsKept
<1>8. PlacesInv'
  BY <1>1 DEF StaffInv, PlacesInv
<1>9. NoStrayIdentity'
  <2>1. \A j \in Identities : HasProfile(j) => HasProfile(j)'
    BY <1>1 DEF HasProfile
  <2>2. \A j \in Identities : Owns(q, j) => j = i
    BY DEF Owns
  <2> QED
    BY <1>1, <1>2, <1>3, <1>5, <2>1, <2>2, IdentitiesKept DEF StaffInv
<1>10. (\A r \in Restaurants \ adminRaced : AdminsInv(r))'
  BY <1>1, <1>3, <1>4, AdminsKept DEF StaffInv, StaffTypeOK
<1>11. staffReq'[q].step # "building"
  BY <1>3
<1>12. (\A r \in Restaurants \ quotaRaced : QuotaInv(r))'
  BY <1>1, <1>3, <1>11, QuotaKept DEF StaffInv
<1> QED
  BY <1>1, <1>6, <1>7, <1>8, <1>9, <1>10, <1>12, BranchesStay DEF StaffInv

LEMMA UpdateRestaurantInv ==
    ASSUME StaffInv, NEW r \in Restaurants, NEW quota \in Nat, UpdateRestaurant(r, quota)
    PROVE  StaffInv'
<1>1. /\ restaurant[r].exists /\ restaurant' = [restaurant EXCEPT ![r].quota = quota]
      /\ quotaRaced' = IF quota < restaurant[r].quota THEN quotaRaced \cup {r} ELSE quotaRaced
      /\ emailOf' = emailOf /\ branchOf' = branchOf /\ profile' = profile
      /\ staffReq' = staffReq /\ abandoned' = abandoned /\ adminRaced' = adminRaced
      /\ StaffTypeOK
  BY DEF UpdateRestaurant, People, StaffInv
<1>2. /\ restaurant' \in [Restaurants -> [exists : BOOLEAN, quota : Nat]]
      /\ restaurant'[r].quota = quota
      /\ \A s \in Restaurants : restaurant'[s].exists = restaurant[s].exists
      /\ \A s \in Restaurants \ {r} : restaurant'[s] = restaurant[s]
      /\ \A s \in Restaurants : restaurant[s].quota \in Nat
  BY <1>1 DEF StaffTypeOK
<1>3. StaffTypeOK'
  BY <1>1, <1>2 DEF StaffTypeOK
<1>4. \A p \in Profiles : RestaurantOf(p) \in Restaurants
  BY DEF Profiles, RestaurantOf
<1>5. (\A q \in StaffRequests : StaffReqInv(q))'
  BY <1>1, <1>2, <1>4 DEF StaffInv, StaffReqInv, OwnerSteps, UpdateSteps
<1>6. PlacesInv'
  <2>1. \A b \in Branches : branchOf[b] # Nobody => branchOf[b] \in Restaurants
    BY <1>1 DEF StaffTypeOK
  <2> QED
    BY <2>1, <1>1, <1>2, <1>4 DEF StaffInv, PlacesInv
<1>7. NoStrayIdentity'
  BY <1>1 DEF StaffInv, NoStrayIdentity, HasProfile, Owns
<1>8. (\A s \in Restaurants \ adminRaced : AdminsInv(s))'
  <2> SUFFICES ASSUME NEW s \in Restaurants, AdminsInv(s)
               PROVE  AdminsInv(s)'
    BY <1>1 DEF StaffInv
  <2>1. /\ BranchesOf(s)' = BranchesOf(s) /\ ActiveAdmins(s)' = ActiveAdmins(s)
        /\ Building(s)' = Building(s) /\ Updating(s)' = Updating(s)
    BY <1>1 DEF BranchesOf, ActiveAdmins, Building, Updating, StaffReqAt
  <2>2. \A q \in StaffRequests : WouldRemain(q) => WouldRemain(q)'
    BY <1>1 DEF WouldRemain
  <2>3. Updating(s) \subseteq StaffRequests
    BY DEF Updating
  <2> QED
    BY <2>1, <2>2, <2>3, <1>1 DEF AdminsInv, StaffReqAt
<1>9. ASSUME NEW s \in Restaurants, s \notin quotaRaced'
      PROVE  QuotaInv(s)'
  <2>1. QuotaInv(s) /\ restaurant'[s].quota >= restaurant[s].quota
    BY <1>9, <1>1, <1>2 DEF StaffInv
  <2>2. Building(s)' = Building(s)
    BY <1>1 DEF Building, StaffReqAt
  <2>3. BranchesOf(s)' = BranchesOf(s) /\ IsFiniteSet(BranchesOf(s))
    BY <1>1 DEF BranchesOf, StaffInv
  <2>4. Cardinality(BranchesOf(s)') = Cardinality(BranchesOf(s))
    BY <2>3, Zenon
  <2>5. Cardinality(BranchesOf(s)) \in Nat
    BY <2>3, FS_CardinalityType
  <2>6. restaurant[s].quota \in Nat /\ restaurant'[s].quota \in Nat
    BY <1>1, <1>2
  <2> QED
    BY <2>1, <2>2, <2>4, <2>5, <2>6 DEF QuotaInv, BelowQuota
<1> QED
  BY <1>1, <1>3, <1>5, <1>6, <1>7, <1>8, <1>9, BranchesStay DEF StaffInv

LEMMA CheckQuotaInv ==
    ASSUME StaffInv, NEW q \in StaffRequests, NEW p \in Profiles, CheckQuota(q, p)
    PROVE  StaffInv'
<1> DEFINE record == [IdleStaffRequest EXCEPT !.step = "building", !.by = p]
           r == RestaurantOf(p)
<1>1. record \in StaffRequestRecords /\ record.step = "building" /\ record.by = p
  BY DEF IdleStaffRequest, StaffRequestRecords, StaffSteps, Assignments
<1>2. /\ staffReq' = [staffReq EXCEPT ![q] = record] /\ StaffTypeOK
      /\ staffReq[q].step = "idle" /\ MayCreateBranch(p) /\ BelowQuota(r)
      /\ quotaRaced' = IF Building(r) # {} THEN quotaRaced \cup {r} ELSE quotaRaced
      /\ restaurant' = restaurant /\ branchOf' = branchOf /\ profile' = profile
      /\ adminRaced' = adminRaced /\ emailOf' = emailOf /\ abandoned' = abandoned
  BY DEF CheckQuota, People, StaffInv, StaffReqAt
<1>3. r \in Restaurants /\ profile[p].status = "ACTIVE" /\ restaurant[r].exists
  BY <1>2 DEF Profiles, RestaurantOf, MayCreateBranch, StaffInv, PlacesInv
<1> HIDE DEF record
<1>4. /\ staffReq' \in [StaffRequests -> StaffRequestRecords]
      /\ staffReq'[q].step = "building" /\ staffReq'[q].by = p
      /\ \A o \in StaffRequests \ {q} : staffReq'[o] = staffReq[o]
  BY <1>1, <1>2, StaffRequestChanges
<1>5. StaffTypeOK'
  BY <1>2, <1>3, <1>4 DEF StaffTypeOK
<1>6. StaffReqInv(q)'
  BY <1>2, <1>3, <1>4 DEF StaffReqInv, OwnerSteps, UpdateSteps, HiringSteps
<1>7. (\A o \in StaffRequests : StaffReqInv(o))'
  BY <1>2, <1>4, <1>6, StaffReqsKept
<1>8. PlacesInv'
  BY <1>2 DEF StaffInv, PlacesInv
<1>9. NoStrayIdentity'
  BY <1>2, <1>4, IdentitiesStay DEF StaffInv, Owns, OwnerSteps
<1>10. ASSUME NEW s \in Restaurants, s \notin adminRaced
       PROVE  AdminsInv(s)'
  <2>1. AdminsInv(s) /\ ActiveAdmins(s)' = ActiveAdmins(s) /\ BranchesOf(s)' = BranchesOf(s)
    BY <1>2, <1>10 DEF StaffInv, ActiveAdmins, BranchesOf
  <2>2. ASSUME NEW o \in Building(s)'
        PROVE  profile'[staffReq'[o].by].status = "ACTIVE" \/ ActiveAdmins(s)' # {}
    BY <2>1, <2>2, <1>2, <1>3, <1>4 DEF AdminsInv, Building, StaffReqAt
  <2>3. \A o \in StaffRequests : o \in Updating(s)' => /\ o \in Updating(s)
                                                       /\ staffReq'[o] = staffReq[o]
    BY <1>4 DEF Updating
  <2>4. \A o \in StaffRequests : o \in Updating(s)' => (WouldRemain(o) => WouldRemain(o)')
    BY <2>3, <1>2 DEF WouldRemain
  <2>5. Updating(s)' \subseteq StaffRequests
    BY DEF Updating
  <2> QED
    BY <2>1, <2>2, <2>3, <2>4, <2>5, <1>2 DEF AdminsInv, StaffReqAt
<1>11. ASSUME NEW s \in Restaurants, s \notin quotaRaced'
       PROVE  QuotaInv(s)'
  <2>1. QuotaInv(s) /\ (s = r => Building(r) = {})
    BY <1>2, <1>11 DEF StaffInv
  <2>2. BranchesOf(s)' = BranchesOf(s)
    BY <1>2 DEF BranchesOf
  <2>3. Cardinality(BranchesOf(s)') = Cardinality(BranchesOf(s))
    BY <2>2, Zenon
  <2>4. CASE s = r
    <3>1. \A o \in Building(s)' : o = q
      BY <2>1, <2>4, <1>4 DEF Building, StaffReqAt
    <3> QED
      BY <3>1, <2>1, <2>3, <2>4, <1>2 DEF QuotaInv, BelowQuota
  <2>5. CASE s # r
    <3>1. Building(s)' \subseteq Building(s)
      BY <2>5, <1>4 DEF Building, StaffReqAt
    <3> QED
      BY <3>1, <2>1, <2>3, <1>2 DEF QuotaInv, BelowQuota
  <2> QED
    BY <2>4, <2>5
<1> QED
  BY <1>2, <1>5, <1>7, <1>8, <1>9, <1>10, <1>11, BranchesStay DEF StaffInv

LEMMA CreateBranchInv ==
    ASSUME StaffInv, NEW q \in StaffRequests, NEW b \in Branches, CreateBranch(q, b)
    PROVE  StaffInv'
<1> PICK p \in Profiles : p = staffReq[q].by
  BY DEF StaffInv, StaffReqInv, CreateBranch, StaffReqAt
<1> PICK r \in Restaurants : r = RestaurantOf(p)
  BY DEF Profiles, RestaurantOf
<1>1. /\ StaffTypeOK /\ staffReq[q].step = "building" /\ StaffReqEnds(q)
      /\ branchOf[b] = Nobody /\ branchOf' = [branchOf EXCEPT ![b] = r]
      /\ profile' = [profile EXCEPT ![p].roles = @ \cup {<<b, "ADMIN">>}]
      /\ emailOf' = emailOf /\ restaurant' = restaurant /\ abandoned' = abandoned
      /\ adminRaced' = adminRaced /\ quotaRaced' = quotaRaced
  BY DEF CreateBranch, People, StaffInv, StaffReqAt
<1>2. restaurant[r].exists /\ q \in Building(r)
  BY <1>1 DEF StaffInv, StaffReqInv, Building, StaffReqAt
<1>3. /\ staffReq' \in [StaffRequests -> StaffRequestRecords] /\ staffReq'[q].step = "idle"
      /\ \A o \in StaffRequests \ {q} : staffReq'[o] = staffReq[o]
  BY <1>1, StaffRequestEnds
<1>4. /\ StaffReqInv(q)' /\ staffReq'[q].step \notin {"building"} \cup UpdateSteps
  BY <1>3, EndedRequest
<1>5. \A s \in Profiles : profile[s] \in ProfileRecords
  BY <1>1 DEF StaffTypeOK
<1>6. /\ profile' \in [Profiles -> ProfileRecords]
      /\ profile'[p].status = profile[p].status
      /\ profile'[p].roles = profile[p].roles \cup {<<b, "ADMIN">>}
      /\ \A s \in Profiles \ {p} : profile'[s] = profile[s]
  BY <1>1, <1>5 DEF StaffTypeOK, ProfileRecords, Assignments
<1>7. \A s \in Profiles : profile'[s].status = profile[s].status
                          /\ profile[s].roles \subseteq profile'[s].roles
  BY <1>6
<1>8. /\ branchOf' \in [Branches -> Restaurants \cup {Nobody}] /\ branchOf'[b] = r
      /\ \A c \in Branches \ {b} : branchOf'[c] = branchOf[c]
  BY <1>1 DEF StaffTypeOK
<1>9. StaffTypeOK'
  BY <1>1, <1>3, <1>6, <1>8 DEF StaffTypeOK
<1>10. (\A o \in StaffRequests : StaffReqInv(o))'
  BY <1>1, <1>3, <1>4, <1>7, StaffReqsKept
<1>11. PlacesInv'
  BY <1>1, <1>2, <1>7, <1>8 DEF StaffInv, PlacesInv
<1>12. NoStrayIdentity'
  BY <1>1, <1>3, <1>7, IdentitiesStay DEF StaffInv, Owns, OwnerSteps
<1>13. BranchesOf(r)' = BranchesOf(r) \cup {b} /\ b \notin BranchesOf(r)
  BY <1>1, <1>8, NobodyAssumption DEF BranchesOf
<1>14. \A s \in Restaurants \ {r} : BranchesOf(s)' = BranchesOf(s)
  BY <1>1, <1>8, NobodyAssumption DEF BranchesOf
<1>15. /\ IsFiniteSet(BranchesOf(r)')
       /\ Cardinality(BranchesOf(r)') = Cardinality(BranchesOf(r)) + 1
       /\ Cardinality(BranchesOf(r)) \in Nat
  <2> DEFINE B == BranchesOf(r)
  <2>1. IsFiniteSet(B) /\ b \notin B
    BY <1>13 DEF StaffInv
  <2>2. /\ IsFiniteSet(B \cup {b}) /\ Cardinality(B \cup {b}) = Cardinality(B) + 1
        /\ Cardinality(B) \in Nat
    BY <2>1, FS_AddElement, FS_CardinalityType
  <2> HIDE DEF B
  <2>3. BranchesOf(r)' = B \cup {b}
    BY <1>13 DEF B
  <2>4. IsFiniteSet(BranchesOf(r)') /\ Cardinality(BranchesOf(r)') = Cardinality(B \cup {b})
    BY <2>2, <2>3, Zenon
  <2> QED
    BY <2>2, <2>4 DEF B
<1>16. ASSUME NEW s \in Restaurants
       PROVE  IsFiniteSet(BranchesOf(s)')
  <2>1. CASE s = r
    BY <2>1, <1>15
  <2>2. CASE s # r
    <3>1. BranchesOf(s)' = BranchesOf(s) /\ IsFiniteSet(BranchesOf(s))
      BY <2>2, <1>14 DEF StaffInv
    <3> QED
      BY <3>1, Zenon
  <2> QED
    BY <2>1, <2>2
<1>17. ASSUME NEW s \in Restaurants, s \notin adminRaced
       PROVE  AdminsInv(s)'
  <2>1. AdminsInv(s) /\ \A i \in Identities : <<i, s>> \in Profiles
    BY <1>17 DEF StaffInv, Profiles
  <2>2. \A i \in Identities : i \in ActiveAdmins(s) => i \in ActiveAdmins(s)'
    BY <2>1, <1>7 DEF ActiveAdmins, IsActiveAdmin
  <2>3. BranchesOf(s)' # {} => ActiveAdmins(s)' # {}
    <3>1. CASE s = r
      <4>1. profile[p].status = "ACTIVE" \/ ActiveAdmins(r) # {}
        BY <3>1, <2>1, <1>2 DEF AdminsInv
      <4>2. CASE profile[p].status = "ACTIVE"
        <5>1. p[1] \in Identities /\ p = <<p[1], s>>
          BY <3>1 DEF Profiles, RestaurantOf
        <5> DEFINE a == <<b, "ADMIN">>
        <5>2. a \in profile'[p].roles /\ a[2] = "ADMIN"
          BY <1>6
        <5> HIDE DEF a
        <5>4. IsActiveAdmin(profile'[p])
          BY <4>2, <5>2, <1>6 DEF IsActiveAdmin
        <5>3. p[1] \in ActiveAdmins(s)'
          BY <5>1, <5>4 DEF ActiveAdmins
        <5> QED
          BY <5>3
      <4> QED
        BY <4>1, <4>2, <3>1, <2>2 DEF ActiveAdmins
    <3>2. CASE s # r
      BY <3>2, <2>1, <2>2, <1>14 DEF AdminsInv, ActiveAdmins
    <3> QED
      BY <3>1, <3>2
  <2>4. \A o \in StaffRequests : /\ o \in Building(s)' => o \in Building(s)
                                 /\ o \in Updating(s)' => o \in Updating(s)
                                 /\ o \in Building(s)' \cup Updating(s)' =>
                                        o # q /\ staffReq'[o] = staffReq[o]
    BY <1>3 DEF Building, Updating, UpdateSteps, StaffReqAt
  <2>5. ASSUME NEW o \in Building(s)'
        PROVE  profile'[staffReq'[o].by].status = "ACTIVE" \/ ActiveAdmins(s)' # {}
    <3>1. o \in StaffRequests /\ o \in Building(s) /\ staffReq'[o] = staffReq[o]
      BY <2>4, <2>5 DEF Building
    <3>2. staffReq[o].by \in Profiles
      BY <3>1 DEF StaffInv, StaffReqInv, Building, StaffReqAt
    <3>3. profile[staffReq[o].by].status = "ACTIVE" \/ ActiveAdmins(s) # {}
      BY <3>1, <2>1 DEF AdminsInv
    <3> QED
      BY <3>1, <3>2, <3>3, <2>2, <1>7 DEF ActiveAdmins
  <2>6. \A o, n \in Updating(s)' : o = n
    BY <2>1, <2>4 DEF AdminsInv, Updating
  <2>7. ASSUME NEW o \in Updating(s)'
        PROVE  /\ StaffReqAt(o, "updating")' /\ staffReq'[o].remains => WouldRemain(o)'
               /\ StaffReqAt(o, "update")' =>
                      WouldRemain(o)' \/ ActiveAdmins(s)' \ {staffReq'[o].of[1]} # {}
    <3>1. o \in StaffRequests /\ o \in Updating(s) /\ staffReq'[o] = staffReq[o]
      BY <2>4, <2>7 DEF Updating
    <3>2. staffReq[o].of \in Profiles
      BY <3>1 DEF StaffInv, StaffReqInv, Updating, UpdateSteps
    <3>3. WouldRemain(o) => WouldRemain(o)'
      BY <3>1, <3>2, <1>7 DEF WouldRemain, IsActiveAdmin, StaffUpdated
    <3>4. ActiveAdmins(s) \ {staffReq[o].of[1]} # {}
          => ActiveAdmins(s)' \ {staffReq'[o].of[1]} # {}
      BY <3>1, <2>2 DEF ActiveAdmins
    <3> QED
      BY <3>1, <3>3, <3>4, <2>1 DEF AdminsInv, StaffReqAt
  <2> QED
    BY <2>3, <2>5, <2>6, <2>7 DEF AdminsInv
<1>18. ASSUME NEW s \in Restaurants, s \notin quotaRaced
       PROVE  QuotaInv(s)'
  <2>1. QuotaInv(s)
    BY <1>18 DEF StaffInv
  <2>2. Building(s)' \subseteq Building(s)
    BY <1>3 DEF Building, StaffReqAt
  <2>3. CASE s = r
    <3>1. Building(r)' = {}
      BY <2>1, <2>2, <2>3, <1>2, <1>3 DEF QuotaInv, Building, StaffReqAt
    <3>2. Cardinality(BranchesOf(r)) < restaurant[r].quota
      BY <2>1, <2>3, <1>2 DEF QuotaInv, BelowQuota
    <3>3. restaurant[r].quota \in Nat
      BY <1>1 DEF StaffTypeOK
    <3> QED
      BY <3>1, <3>2, <3>3, <2>3, <1>1, <1>15 DEF QuotaInv
  <2>4. CASE s # r
    <3>1. BranchesOf(s)' = BranchesOf(s)
      BY <2>4, <1>14
    <3>2. Cardinality(BranchesOf(s)') = Cardinality(BranchesOf(s))
      BY <3>1, Zenon
    <3> QED
      BY <3>2, <2>1, <2>2, <1>1 DEF QuotaInv, BelowQuota
  <2> QED
    BY <2>3, <2>4
<1> QED
  BY <1>1, <1>9, <1>10, <1>11, <1>12, <1>16, <1>17, <1>18 DEF StaffInv

LEMMA UpdateStaffUserInv ==
    ASSUME StaffInv, NEW q \in StaffRequests, NEW p \in Profiles, NEW target \in Profiles,
           NEW status \in {"NONE", "ACTIVE", "DISABLED"}, NEW roles \in RoleSets \cup {{}},
           UpdateStaffUser(q, p, target, status, roles)
    PROVE  StaffInv'
<1> DEFINE remains == IsActiveAdmin(StaffUpdated(profile[target], status, roles))
           record == [IdleStaffRequest EXCEPT !.step = "updating", !.of = target,
                          !.status = status, !.roles = roles, !.remains = remains]
           r == RestaurantOf(p)
<1>1. remains \in BOOLEAN /\ roles \in Assignments
  BY DEF IsActiveAdmin, RoleSets, Assignments
<1>2. /\ record \in StaffRequestRecords /\ record.step = "updating" /\ record.of = target
      /\ record.status = status /\ record.roles = roles /\ record.remains = remains
  BY <1>1 DEF IdleStaffRequest, StaffRequestRecords, StaffSteps
<1>3. /\ staffReq' = [staffReq EXCEPT ![q] = record] /\ StaffTypeOK
      /\ staffReq[q].step = "idle" /\ profile[target].status # "NONE" /\ RestaurantOf(target) = r
      /\ adminRaced' = IF Updating(r) # {} THEN adminRaced \cup {r} ELSE adminRaced
      /\ restaurant' = restaurant /\ branchOf' = branchOf /\ profile' = profile
      /\ quotaRaced' = quotaRaced /\ emailOf' = emailOf /\ abandoned' = abandoned
  BY DEF UpdateStaffUser, People, Places, StaffInv, StaffReqAt
<1>4. r \in Restaurants /\ restaurant[r].exists
  BY <1>3 DEF Profiles, RestaurantOf, StaffInv, PlacesInv
<1> HIDE DEF record
<1>5. /\ staffReq' \in [StaffRequests -> StaffRequestRecords]
      /\ staffReq'[q] = record
      /\ \A o \in StaffRequests \ {q} : staffReq'[o] = staffReq[o]
  BY <1>2, <1>3, StaffRequestChanges
<1>6. StaffTypeOK'
  BY <1>3, <1>4, <1>5 DEF StaffTypeOK
<1>7. StaffReqInv(q)'
  BY <1>2, <1>3, <1>4, <1>5 DEF StaffReqInv, OwnerSteps, UpdateSteps, HiringSteps
<1>8. (\A o \in StaffRequests : StaffReqInv(o))'
  BY <1>3, <1>5, <1>7, StaffReqsKept
<1>9. PlacesInv'
  BY <1>3 DEF StaffInv, PlacesInv
<1>10. NoStrayIdentity'
  BY <1>3, <1>5, IdentitiesStay DEF StaffInv, Owns, OwnerSteps
<1>11. WouldRemain(q)' <=> remains
  BY <1>2, <1>3, <1>5 DEF WouldRemain
<1> HIDE DEF remains
<1>12. ASSUME NEW s \in Restaurants, s \notin adminRaced'
       PROVE  AdminsInv(s)'
  <2>1. /\ AdminsInv(s) /\ (s = r => Updating(r) = {})
        /\ ActiveAdmins(s)' = ActiveAdmins(s) /\ BranchesOf(s)' = BranchesOf(s)
    BY <1>3, <1>12 DEF StaffInv, ActiveAdmins, BranchesOf
  <2>2. ASSUME NEW o \in Building(s)'
        PROVE  profile'[staffReq'[o].by].status = "ACTIVE" \/ ActiveAdmins(s)' # {}
    BY <2>1, <2>2, <1>2, <1>3, <1>5 DEF AdminsInv, Building, StaffReqAt
  <2>3. \A o \in StaffRequests \ {q} : o \in Updating(s)' =>
            /\ o \in Updating(s) /\ staffReq'[o] = staffReq[o]
            /\ WouldRemain(o) => WouldRemain(o)'
    BY <1>3, <1>5 DEF Updating, WouldRemain
  <2>4. q \in Updating(s)' => s = r
    BY <1>2, <1>3, <1>5 DEF Updating
  <2>5. Updating(s)' \subseteq StaffRequests
    BY DEF Updating
  <2>6. \A o, n \in Updating(s)' : o = n
    BY <2>1, <2>3, <2>4, <2>5 DEF AdminsInv
  <2>7. ASSUME NEW o \in Updating(s)'
        PROVE  /\ StaffReqAt(o, "updating")' /\ staffReq'[o].remains => WouldRemain(o)'
               /\ StaffReqAt(o, "update")' =>
                      WouldRemain(o)' \/ ActiveAdmins(s)' \ {staffReq'[o].of[1]} # {}
    <3>1. CASE o = q
      BY <3>1, <1>2, <1>5, <1>11 DEF StaffReqAt
    <3>2. CASE o # q
      BY <3>2, <2>1, <2>3, <2>5, <2>7 DEF AdminsInv, StaffReqAt
    <3> QED
      BY <3>1, <3>2
  <2> QED
    BY <2>1, <2>2, <2>6, <2>7 DEF AdminsInv
<1>13. staffReq'[q].step # "building"
  BY <1>2, <1>5
<1>14. (\A s \in Restaurants \ quotaRaced : QuotaInv(s))'
  BY <1>3, <1>5, <1>13, QuotaKept DEF StaffInv
<1> QED
  BY <1>3, <1>6, <1>8, <1>9, <1>10, <1>12, <1>14, BranchesStay DEF StaffInv

LEMMA CheckAdminsInv ==
    ASSUME StaffInv, NEW q \in StaffRequests, CheckAdmins(q)
    PROVE  StaffInv'
<1>1. /\ restaurant' = restaurant /\ branchOf' = branchOf /\ quotaRaced' = quotaRaced
      /\ profile' = profile /\ adminRaced' = adminRaced /\ abandoned' = abandoned
      /\ emailOf' = emailOf
      /\ StaffTypeOK /\ staffReq[q] \in StaffRequestRecords
      /\ staffReq[q].step = "updating" /\ StaffReqInv(q)
  BY DEF CheckAdmins, People, Places, StaffInv, StaffTypeOK, StaffReqAt
<1>2. CASE ~KeepsAnAdmin(q)
  BY <1>1, <1>2, StaffRequestEndsInv DEF CheckAdmins, People, Places, Owns, OwnerSteps
<1>3. CASE KeepsAnAdmin(q)
  <2> DEFINE record == [staffReq[q] EXCEPT !.step = "update", !.remains = FALSE]
  <2>1. /\ record \in StaffRequestRecords /\ record.step = "update"
        /\ record.of = staffReq[q].of /\ record.status = staffReq[q].status
        /\ record.roles = staffReq[q].roles
    BY <1>1 DEF StaffRequestRecords, StaffSteps
  <2>2. staffReq' = [staffReq EXCEPT ![q] = record]
    BY <1>3 DEF CheckAdmins
  <2> HIDE DEF record
  <2>3. /\ staffReq' \in [StaffRequests -> StaffRequestRecords]
        /\ staffReq'[q].step = "update" /\ staffReq'[q].of = staffReq[q].of
        /\ staffReq'[q].status = staffReq[q].status /\ staffReq'[q].roles = staffReq[q].roles
        /\ \A o \in StaffRequests \ {q} : staffReq'[o] = staffReq[o]
    BY <2>1, <2>2, <1>1, StaffRequestChanges
  <2>4. StaffTypeOK'
    BY <1>1, <2>3 DEF StaffTypeOK
  <2>5. StaffReqInv(q)'
    BY <2>3, <1>1 DEF StaffReqInv, OwnerSteps, UpdateSteps, HiringSteps
  <2>6. (\A o \in StaffRequests : StaffReqInv(o))'
    BY <1>1, <2>3, <2>5, StaffReqsKept
  <2>7. PlacesInv'
    BY <1>1 DEF StaffInv, PlacesInv
  <2>8. NoStrayIdentity'
    BY <1>1, <2>3, IdentitiesStay DEF StaffInv, Owns, OwnerSteps
  <2>9. ASSUME NEW s \in Restaurants, s \notin adminRaced
        PROVE  AdminsInv(s)'
    <3>1. /\ AdminsInv(s)
          /\ ActiveAdmins(s)' = ActiveAdmins(s) /\ BranchesOf(s)' = BranchesOf(s)
      BY <1>1, <2>9 DEF StaffInv, ActiveAdmins, BranchesOf
    <3>2. Building(s)' \subseteq Building(s)
          /\ \A o \in Building(s)' : staffReq'[o] = staffReq[o]
      BY <2>3 DEF Building, StaffReqAt
    <3>3. Updating(s)' \subseteq Updating(s) /\ Updating(s) \subseteq StaffRequests
      BY <1>1, <2>3 DEF Updating
    <3>4. \A o \in StaffRequests : WouldRemain(o) => WouldRemain(o)'
      BY <1>1, <2>3 DEF WouldRemain
    <3>5. ASSUME NEW o \in Updating(s)'
          PROVE  /\ StaffReqAt(o, "updating")' /\ staffReq'[o].remains => WouldRemain(o)'
                 /\ StaffReqAt(o, "update")' =>
                        WouldRemain(o)' \/ ActiveAdmins(s)' \ {staffReq'[o].of[1]} # {}
      <4>1. CASE o = q
        <5>1. q \in Updating(s) /\ RestaurantOf(staffReq[q].of) = s
          BY <4>1, <3>3, <3>5 DEF Updating
        <5>2. staffReq[q].remains => WouldRemain(q)
          BY <5>1, <3>1, <1>1 DEF AdminsInv, StaffReqAt
        <5>3. WouldRemain(q) \/ ActiveAdmins(s) \ {staffReq[q].of[1]} # {}
          BY <5>1, <5>2, <1>3 DEF KeepsAnAdmin
        <5> QED
          BY <4>1, <5>3, <3>1, <3>4, <2>3 DEF StaffReqAt
      <4>2. CASE o # q
        BY <4>2, <3>1, <3>3, <3>4, <3>5, <2>3 DEF AdminsInv, StaffReqAt
      <4> QED
        BY <4>1, <4>2
    <3>6. \A o, n \in Updating(s)' : o = n
      BY <3>1, <3>3 DEF AdminsInv
    <3>7. \A o \in Building(s)' :
              profile'[staffReq'[o].by].status = "ACTIVE" \/ ActiveAdmins(s)' # {}
      BY <3>1, <3>2, <1>1 DEF AdminsInv
    <3> QED
      BY <3>1, <3>5, <3>6, <3>7 DEF AdminsInv
  <2>10. staffReq'[q].step # "building"
    BY <2>3
  <2>11. (\A s \in Restaurants \ quotaRaced : QuotaInv(s))'
    BY <1>1, <2>3, <2>10, QuotaKept DEF StaffInv
  <2> QED
    BY <1>1, <2>4, <2>6, <2>7, <2>8, <2>9, <2>11, BranchesStay DEF StaffInv
<1> QED
  BY <1>2, <1>3

LEMMA CommitStaffUpdateInv ==
    ASSUME StaffInv, NEW q \in StaffRequests, CommitStaffUpdate(q)
    PROVE  StaffInv'
<1> PICK target \in Profiles : target = staffReq[q].of
  BY DEF StaffInv, StaffReqInv, UpdateSteps, CommitStaffUpdate, StaffReqAt
<1> PICK r \in Restaurants : r = RestaurantOf(target)
  BY DEF Profiles, RestaurantOf
<1> DEFINE record == StaffUpdated(profile[target], staffReq[q].status, staffReq[q].roles)
<1>1. /\ restaurant' = restaurant /\ branchOf' = branchOf /\ quotaRaced' = quotaRaced
      /\ adminRaced' = adminRaced /\ abandoned' = abandoned /\ emailOf' = emailOf
      /\ StaffTypeOK /\ staffReq[q] \in StaffRequestRecords
      /\ staffReq[q].step = "update" /\ StaffReqInv(q)
      /\ StaffReqEnds(q) /\ profile' = [profile EXCEPT ![target] = record]
  BY DEF CommitStaffUpdate, People, Places, StaffInv, StaffTypeOK, StaffReqAt
<1>2. profile[target] \in ProfileRecords /\ profile[target].status # "NONE"
  BY <1>1 DEF StaffTypeOK, StaffReqInv, UpdateSteps
<1>3. record \in ProfileRecords /\ record.status # "NONE"
  BY <1>1, <1>2 DEF ProfileRecords, StaffRequestRecords, StaffUpdated
<1>4. WouldRemain(q) <=> IsActiveAdmin(record)
  BY DEF WouldRemain
<1> HIDE DEF record
<1>5. /\ staffReq' \in [StaffRequests -> StaffRequestRecords] /\ staffReq'[q].step = "idle"
      /\ \A o \in StaffRequests \ {q} : staffReq'[o] = staffReq[o]
  BY <1>1, StaffRequestEnds
<1>6. /\ StaffReqInv(q)' /\ staffReq'[q].step \notin {"building"} \cup UpdateSteps
  BY <1>5, EndedRequest
<1>7. /\ profile' \in [Profiles -> ProfileRecords] /\ profile'[target] = record
      /\ \A p \in Profiles \ {target} : profile'[p] = profile[p]
  BY <1>1, <1>3 DEF StaffTypeOK
<1>8. \A p \in Profiles : profile[p].status = "NONE" <=> profile'[p].status = "NONE"
  BY <1>2, <1>3, <1>7
<1>9. StaffTypeOK'
  BY <1>1, <1>5, <1>7 DEF StaffTypeOK
<1>10. (\A o \in StaffRequests : StaffReqInv(o))'
  BY <1>1, <1>5, <1>6, <1>8, StaffReqsKept
<1>11. PlacesInv'
  BY <1>1, <1>8 DEF StaffInv, PlacesInv
<1>12. NoStrayIdentity'
  BY <1>1, <1>5, <1>8, IdentitiesStay DEF StaffInv, Owns, OwnerSteps
<1>13. ASSUME NEW s \in Restaurants, s \notin adminRaced
       PROVE  AdminsInv(s)'
  <2>1. AdminsInv(s) /\ BranchesOf(s)' = BranchesOf(s)
        /\ \A i \in Identities : <<i, s>> \in Profiles
    BY <1>1, <1>13 DEF StaffInv, BranchesOf, Profiles
  <2>2. /\ \A o \in StaffRequests : o \in Building(s)' => o \in Building(s)
        /\ \A o \in StaffRequests : o \in Updating(s)' => o \in Updating(s)
        /\ \A o \in StaffRequests : o \in Building(s)' \cup Updating(s)' =>
               o # q /\ staffReq'[o] = staffReq[o]
        /\ Building(s)' \subseteq StaffRequests /\ Updating(s)' \subseteq StaffRequests
    BY <1>5 DEF Building, Updating, UpdateSteps, StaffReqAt
  <2>3. \A o, n \in Updating(s)' : o = n
    BY <2>1, <2>2 DEF AdminsInv
  <2>4. CASE s = r
    <3>1. q \in Updating(s)
      BY <2>4, <1>1 DEF Updating
    <3>2. Updating(s)' = {}
      BY <3>1, <2>1, <2>2 DEF AdminsInv
    <3>3. WouldRemain(q) \/ ActiveAdmins(s) \ {target[1]} # {}
      BY <3>1, <2>1, <1>1 DEF AdminsInv, StaffReqAt
    <3>4. ActiveAdmins(s)' # {}
      <4>1. CASE WouldRemain(q)
        <5>1. target[1] \in Identities /\ target = <<target[1], s>>
          BY <2>4 DEF Profiles, RestaurantOf
        <5>2. target[1] \in ActiveAdmins(s)'
          BY <5>1, <4>1, <1>4, <1>7 DEF ActiveAdmins
        <5> QED
          BY <5>2
      <4>2. CASE ActiveAdmins(s) \ {target[1]} # {}
        <5>1. PICK i \in Identities : i \in ActiveAdmins(s) /\ i # target[1]
          BY <4>2 DEF ActiveAdmins
        <5>2. <<i, s>> # target
          BY <5>1
        <5>3. i \in ActiveAdmins(s)'
          BY <5>1, <5>2, <2>1, <1>7 DEF ActiveAdmins
        <5> QED
          BY <5>3
      <4> QED
        BY <4>1, <4>2, <3>3
    <3> QED
      BY <3>2, <3>4 DEF AdminsInv
  <2>5. CASE s # r
    <3>1. \A p \in Profiles : RestaurantOf(p) = s => profile'[p] = profile[p]
      BY <2>5, <1>7
    <3>2. \A i \in Identities : profile'[<<i, s>>] = profile[<<i, s>>]
      BY <3>1, <2>1 DEF RestaurantOf
    <3>3. ActiveAdmins(s)' = ActiveAdmins(s)
      BY <3>2 DEF ActiveAdmins
    <3>4. ASSUME NEW o \in Building(s)'
          PROVE  profile'[staffReq'[o].by].status = "ACTIVE" \/ ActiveAdmins(s)' # {}
      <4>1. o \in StaffRequests /\ o \in Building(s) /\ staffReq'[o] = staffReq[o]
        BY <2>2, <3>4
      <4>2. staffReq[o].by \in Profiles /\ RestaurantOf(staffReq[o].by) = s
        BY <4>1 DEF StaffInv, StaffReqInv, Building, StaffReqAt
      <4> QED
        BY <4>1, <4>2, <3>1, <3>3, <2>1 DEF AdminsInv
    <3>5. ASSUME NEW o \in Updating(s)'
          PROVE  /\ StaffReqAt(o, "updating")' /\ staffReq'[o].remains => WouldRemain(o)'
                 /\ StaffReqAt(o, "update")' =>
                        WouldRemain(o)' \/ ActiveAdmins(s)' \ {staffReq'[o].of[1]} # {}
      <4>1. o \in StaffRequests /\ o \in Updating(s) /\ staffReq'[o] = staffReq[o]
        BY <2>2, <3>5
      <4>2. staffReq[o].of \in Profiles /\ RestaurantOf(staffReq[o].of) = s
        BY <4>1 DEF StaffInv, StaffReqInv, Updating, UpdateSteps
      <4>3. WouldRemain(o) => WouldRemain(o)'
        BY <4>1, <4>2, <3>1 DEF WouldRemain
      <4> QED
        BY <4>1, <4>3, <3>3, <2>1 DEF AdminsInv, StaffReqAt
    <3> QED
      BY <3>3, <3>4, <3>5, <2>1, <2>3 DEF AdminsInv
  <2> QED
    BY <2>4, <2>5
<1>14. staffReq'[q].step # "building"
  BY <1>5
<1>15. (\A s \in Restaurants \ quotaRaced : QuotaInv(s))'
  BY <1>1, <1>5, <1>14, QuotaKept DEF StaffInv
<1> QED
  BY <1>1, <1>9, <1>10, <1>11, <1>12, <1>13, <1>15, BranchesStay DEF StaffInv

LEMMA StaffInvInit == StaffInit => StaffInv
<1> SUFFICES ASSUME StaffInit
             PROVE  StaffInv
  OBVIOUS
<1> USE DEF StaffInit
<1>1. /\ \A q \in StaffRequests : staffReq[q].step = "idle"
      /\ \A p \in Profiles : profile[p].status = "NONE"
  BY DEF IdleStaffRequest, NoProfile
<1>2. StaffTypeOK
  BY DEF StaffTypeOK, ProfileRecords, Assignments, NoProfile, StaffRequestRecords, StaffSteps,
         IdleStaffRequest
<1>3. \A q \in StaffRequests : StaffReqInv(q)
  BY <1>1 DEF StaffReqInv, OwnerSteps, UpdateSteps, HiringSteps
<1>4. PlacesInv
  BY <1>1 DEF PlacesInv
<1>5. NoStrayIdentity
  BY DEF NoStrayIdentity
<1>6. ASSUME NEW r \in Restaurants
      PROVE  AdminsInv(r) /\ IsFiniteSet(BranchesOf(r)) /\ QuotaInv(r)
  <2>1. BranchesOf(r) = {} /\ Building(r) = {} /\ Updating(r) = {}
    BY <1>1, NobodyAssumption DEF BranchesOf, Building, Updating, StaffReqAt
  <2>2. IsFiniteSet({}) /\ Cardinality({}) = 0
    BY FS_EmptySet
  <2>3. IsFiniteSet(BranchesOf(r)) /\ Cardinality(BranchesOf(r)) = 0
    BY <2>1, <2>2, Zenon
  <2>4. restaurant[r].quota = 0
    OBVIOUS
  <2> QED
    BY <2>1, <2>3, <2>4 DEF AdminsInv, QuotaInv
<1> QED
  BY <1>2, <1>3, <1>4, <1>5, <1>6 DEF StaffInv

LEMMA PlacesInvStep ==
    ASSUME StaffInv, NEW quotas \in SUBSET Nat, PlacesNext(quotas)
    PROVE  StaffInv'
<1>1. ASSUME NEW q \in StaffRequests, NEW r \in Restaurants, NEW i \in Identities,
             NEW e \in Emails, BootstrapIdentity(q, r, i, e)
      PROVE  StaffInv'
  BY <1>1, BootstrapIdentityInv
<1>2. ASSUME NEW q \in StaffRequests, NEW quota \in quotas, BootstrapRestaurant(q, quota)
      PROVE  StaffInv'
  BY <1>2, BootstrapRestaurantInv
<1>3. ASSUME NEW r \in Restaurants, NEW quota \in quotas, UpdateRestaurant(r, quota)
      PROVE  StaffInv'
  BY <1>3, UpdateRestaurantInv
<1>4. ASSUME NEW q \in StaffRequests, NEW p \in Profiles, CheckQuota(q, p)
      PROVE  StaffInv'
  BY <1>4, CheckQuotaInv
<1>5. ASSUME NEW q \in StaffRequests, NEW b \in Branches, CreateBranch(q, b)
      PROVE  StaffInv'
  BY <1>5, CreateBranchInv
<1>6. ASSUME NEW q \in StaffRequests, DeleteIdentity(q)
      PROVE  StaffInv'
  BY <1>6, DeleteIdentityInv
<1>7. ASSUME NEW q \in StaffRequests, StaffRequestDies(q)
      PROVE  StaffInv'
  BY <1>7, StaffRequestDiesInv
<1> QED
  BY <1>1, <1>2, <1>3, <1>4, <1>5, <1>6, <1>7, Zenon DEF PlacesNext

LEMMA PeopleInvStep ==
    ASSUME StaffInv, PeopleNext
    PROVE  StaffInv'
<1>1. ASSUME NEW q \in StaffRequests, NEW p \in Profiles, NEW e \in Emails,
             NEW roles \in RoleSets, CreateStaffUser(q, p, e, roles)
      PROVE  StaffInv'
  BY <1>1, CreateStaffUserInv
<1>2. ASSUME NEW q \in StaffRequests, NEW p \in Profiles, NEW target \in Profiles,
             NEW status \in {"NONE", "ACTIVE", "DISABLED"}, NEW roles \in RoleSets \cup {{}},
             UpdateStaffUser(q, p, target, status, roles)
      PROVE  StaffInv'
  BY <1>2, UpdateStaffUserInv
<1>3. ASSUME NEW q \in StaffRequests, NEW i \in Identities, CreateIdentity(q, i)
      PROVE  StaffInv'
  BY <1>3, CreateIdentityInv
<1>4. ASSUME NEW q \in StaffRequests, FindUserByEmail(q)
      PROVE  StaffInv'
  BY <1>4, FindUserByEmailInv
<1>5. ASSUME NEW q \in StaffRequests, CheckExistingStaff(q)
      PROVE  StaffInv'
  BY <1>5, CheckExistingStaffInv
<1>6. ASSUME NEW q \in StaffRequests, InsertStaffUser(q)
      PROVE  StaffInv'
  BY <1>6, InsertStaffUserInv
<1>7. ASSUME NEW q \in StaffRequests, CheckAdmins(q)
      PROVE  StaffInv'
  BY <1>7, CheckAdminsInv
<1>8. ASSUME NEW q \in StaffRequests, CommitStaffUpdate(q)
      PROVE  StaffInv'
  BY <1>8, CommitStaffUpdateInv
<1> QED
  BY <1>1, <1>2, <1>3, <1>4, <1>5, <1>6, <1>7, <1>8, Zenon DEF PeopleNext

LEMMA StaffUnmoved ==
    ASSUME StaffInv, UNCHANGED staffVars
    PROVE  StaffInv'
<1>1. /\ emailOf' = emailOf /\ restaurant' = restaurant /\ branchOf' = branchOf
      /\ profile' = profile /\ staffReq' = staffReq /\ abandoned' = abandoned
      /\ adminRaced' = adminRaced /\ quotaRaced' = quotaRaced
  BY DEF staffVars
<1>2. StaffTypeOK' /\ PlacesInv' /\ NoStrayIdentity'
  BY <1>1 DEF StaffInv, StaffTypeOK, PlacesInv, NoStrayIdentity, HasProfile, Owns
<1>3. (\A q \in StaffRequests : StaffReqInv(q))'
  BY <1>1 DEF StaffInv, StaffReqInv
<1>4. ASSUME NEW r \in Restaurants
      PROVE  /\ BranchesOf(r)' = BranchesOf(r) /\ ActiveAdmins(r)' = ActiveAdmins(r)
             /\ Building(r)' = Building(r) /\ Updating(r)' = Updating(r)
             /\ Cardinality(BranchesOf(r)') = Cardinality(BranchesOf(r))
  <2>1. BranchesOf(r)' = BranchesOf(r)
    BY <1>1 DEF BranchesOf
  <2>2. Cardinality(BranchesOf(r)') = Cardinality(BranchesOf(r))
    BY <2>1, Zenon
  <2> QED
    BY <1>1, <2>1, <2>2 DEF ActiveAdmins, Building, Updating, StaffReqAt
<1>5. \A q \in StaffRequests : WouldRemain(q) => WouldRemain(q)'
  BY <1>1 DEF WouldRemain
<1>6. ASSUME NEW r \in Restaurants, AdminsInv(r)
      PROVE  AdminsInv(r)'
  <2>1. Updating(r) \subseteq StaffRequests
    BY DEF Updating
  <2> QED
    BY <2>1, <1>1, <1>4, <1>5, <1>6 DEF AdminsInv, StaffReqAt
<1>7. ASSUME NEW r \in Restaurants, QuotaInv(r)
      PROVE  QuotaInv(r)'
  BY <1>1, <1>4, <1>7 DEF QuotaInv, BelowQuota
<1> QED
  BY <1>1, <1>2, <1>3, <1>6, <1>7, BranchesStay DEF StaffInv

LEMMA StaffInvariance == StaffSpec => []StaffInv
<1>1. StaffInv /\ [StaffNext]_staffVars => StaffInv'
  <2>1. 1..MaxQuota \in SUBSET Nat
    BY StaffBoundsAssumption
  <2> QED
    BY <2>1, PlacesInvStep, PeopleInvStep, StaffUnmoved DEF StaffNext
<1> QED
  BY <1>1, StaffInvInit, PTL DEF StaffSpec

LEMMA StaffPromises == StaffInv => KeepsActiveAdmin /\ NoStrayIdentity /\ BranchesWithinQuota
BY DEF StaffInv, AdminsInv, QuotaInv, KeepsActiveAdmin, BranchesWithinQuota

\* What the administration of the staff promises under any plans, however its requests
\* interleave: a restaurant with a branch keeps an active administrator, an identity has a
\* profile or a request that will use or remove it, and the plan bounds the branches; two
\* overlapping updates, a request that died, and overlapping branches or a lowered plan are
\* the respective exceptions.
THEOREM StaffIsSound ==
    StaffSpec => [](StaffTypeOK /\ KeepsActiveAdmin /\ NoStrayIdentity /\ BranchesWithinQuota)
<1>1. StaffInv => StaffTypeOK
  BY DEF StaffInv
<1> QED
  BY <1>1, StaffPromises, StaffInvariance, PTL

-----------------------------------------------------------------------------
(* The whole back office                                                   *)

\* While the staff only moves under the sign-in, nobody administrates.
StaffRests ==
    /\ \A b \in Branches : branchOf[b] = Nobody
    /\ \A q \in StaffRequests : staffReq[q] = IdleStaffRequest

\* Whatever moves under the sign-in keeps what the administration relies on.
LEMMA StaffMovesInv ==
    ASSUME StaffInv, StaffRests, StaffMoves
    PROVE  StaffInv' /\ StaffRests'
<1>1. /\ branchOf' = branchOf /\ staffReq' = staffReq /\ adminRaced' = adminRaced
      /\ quotaRaced' = quotaRaced /\ StaffTypeOK /\ PlacesInv
  BY DEF StaffMoves, StaffInv
<1>2. StaffRests'
  BY <1>1 DEF StaffRests
<1>3. /\ \A b \in Branches : branchOf[b] = Nobody
      /\ \A q \in StaffRequests : staffReq[q].step = "idle"
      /\ \A i \in Identities \ abandoned : emailOf[i] # Nobody => HasProfile(i)
  BY DEF StaffRests, IdleStaffRequest, StaffInv, NoStrayIdentity, Owns, OwnerSteps
<1>4. (\A q \in StaffRequests : StaffReqInv(q))'
  BY <1>1, <1>3 DEF StaffReqInv, OwnerSteps, UpdateSteps, HiringSteps
<1>5. \A p \in Profiles : p[1] \in Identities /\ RestaurantOf(p) \in Restaurants
  BY DEF Profiles, RestaurantOf
<1>6. ASSUME NEW p \in Profiles, NEW status \in {"ACTIVE", "DISABLED"},
             profile' = [profile EXCEPT ![p].status = status],
             restaurant' = [restaurant EXCEPT ![RestaurantOf(p)] =
                                [exists |-> TRUE, quota |-> MaxQuota]],
             emailOf' = emailOf, abandoned' = abandoned
      PROVE  StaffTypeOK' /\ PlacesInv' /\ NoStrayIdentity'
  <2>1. /\ profile' \in [Profiles -> ProfileRecords]
        /\ profile'[p].status = status
        /\ \A s \in Profiles \ {p} : profile'[s] = profile[s]
    <3>1. profile[p] \in ProfileRecords
      BY <1>1 DEF StaffTypeOK
    <3>2. /\ [profile[p] EXCEPT !.status = status] \in ProfileRecords
          /\ [profile[p] EXCEPT !.status = status].status = status
      BY <3>1 DEF ProfileRecords
    <3> QED
      BY <3>2, <1>1, <1>6 DEF StaffTypeOK
  <2>2. /\ restaurant' \in [Restaurants -> [exists : BOOLEAN, quota : Nat]]
        /\ restaurant'[RestaurantOf(p)].exists
        /\ \A r \in Restaurants : restaurant[r].exists => restaurant'[r].exists
    BY <1>1, <1>5, <1>6, StaffBoundsAssumption DEF StaffTypeOK
  <2>3. StaffTypeOK'
    BY <1>1, <1>6, <2>1, <2>2 DEF StaffTypeOK
  <2>4. PlacesInv'
    BY <1>1, <1>3, <1>5, <2>1, <2>2 DEF PlacesInv
  <2>5. \A i \in Identities : HasProfile(i) => HasProfile(i)'
    <3>1. \A s \in Profiles : profile[s].status # "NONE" => profile'[s].status # "NONE"
      BY <2>1
    <3>2. \A i \in Identities, r \in Restaurants : <<i, r>> \in Profiles
      BY DEF Profiles
    <3> QED
      BY <3>1, <3>2 DEF HasProfile
  <2>6. NoStrayIdentity'
    BY <2>5, <1>3, <1>6 DEF NoStrayIdentity
  <2> QED
    BY <2>3, <2>4, <2>6
<1>7. ASSUME NEW i \in Identities, NEW e \in Emails \cup {Nobody},
             emailOf' = [emailOf EXCEPT ![i] = e], abandoned' \subseteq Identities,
             abandoned \ {i} \subseteq abandoned', e = Nobody \/ i \in abandoned',
             profile' = profile, restaurant' = restaurant
      PROVE  StaffTypeOK' /\ PlacesInv' /\ NoStrayIdentity'
  <2>1. StaffTypeOK'
    BY <1>1, <1>7 DEF StaffTypeOK
  <2>2. PlacesInv'
    BY <1>1, <1>7 DEF PlacesInv
  <2>3. /\ emailOf'[i] = e /\ \A j \in Identities \ {i} : emailOf'[j] = emailOf[j]
        /\ \A j \in Identities : HasProfile(j) => HasProfile(j)'
    BY <1>1, <1>7 DEF StaffTypeOK, HasProfile
  <2>4. NoStrayIdentity'
    BY <2>3, <1>3, <1>7 DEF NoStrayIdentity
  <2> QED
    BY <2>1, <2>2, <2>4
<1>8. StaffTypeOK' /\ PlacesInv' /\ NoStrayIdentity'
  <2>1. ASSUME NEW p \in Profiles, NEW status \in {"ACTIVE", "DISABLED"},
               profile' = [profile EXCEPT ![p].status = status],
               restaurant' = [restaurant EXCEPT ![RestaurantOf(p)] =
                                  [exists |-> TRUE, quota |-> MaxQuota]],
               UNCHANGED People
        PROVE  StaffTypeOK' /\ PlacesInv' /\ NoStrayIdentity'
    BY <2>1, <1>6 DEF People
  <2>2. abandoned \subseteq Identities
    BY <1>1 DEF StaffTypeOK
  <2>3. ASSUME NEW i \in Identities, NEW e \in Emails,
               emailOf' = [emailOf EXCEPT ![i] = e], abandoned' = abandoned \cup {i},
               UNCHANGED <<profile, restaurant>>
        PROVE  StaffTypeOK' /\ PlacesInv' /\ NoStrayIdentity'
    BY <2>2, <2>3, <1>7
  <2>4. ASSUME NEW i \in Identities,
               emailOf' = [emailOf EXCEPT ![i] = Nobody], abandoned' = abandoned \ {i},
               UNCHANGED <<profile, restaurant>>
        PROVE  StaffTypeOK' /\ PlacesInv' /\ NoStrayIdentity'
    BY <2>2, <2>4, <1>7
  <2> QED
    BY <2>1, <2>3, <2>4, Zenon DEF StaffMoves
<1>9. (\A r \in Restaurants \ adminRaced : AdminsInv(r))'
  BY <1>1, <1>3, NobodyAssumption DEF AdminsInv, BranchesOf, Building, Updating, StaffReqAt
<1>10. ASSUME NEW r \in Restaurants
       PROVE  QuotaInv(r)'
  <2>1. BranchesOf(r)' = {} /\ Building(r)' = {}
    BY <1>1, <1>3, NobodyAssumption DEF BranchesOf, Building, StaffReqAt
  <2>2. Cardinality({}) = 0
    BY FS_EmptySet
  <2>3. Cardinality(BranchesOf(r)') = 0
    BY <2>1, <2>2, Zenon
  <2>4. restaurant'[r].quota \in Nat
    BY <1>8 DEF StaffTypeOK
  <2> QED
    BY <2>1, <2>3, <2>4 DEF QuotaInv
<1> QED
  BY <1>1, <1>2, <1>4, <1>8, <1>9, <1>10, BranchesStay DEF StaffInv

LEMMA AdminStaffInvariance == AdminSpec => [](StaffInv /\ (focus = "signIn" => StaffRests))
<1> DEFINE Inv == StaffInv /\ (focus = "signIn" => StaffRests)
<1>1. AdminInit => Inv
  <2>1. StaffInit => StaffRests
    BY DEF StaffInit, StaffRests
  <2> QED
    BY <2>1, StaffInvInit DEF AdminInit
<1>2. Inv /\ [AdminNext]_adminVars => Inv'
  <2> SUFFICES ASSUME Inv, [AdminNext]_adminVars
               PROVE  Inv'
    OBVIOUS
  <2>1. CASE UNCHANGED staffVars /\ UNCHANGED focus
    <3>1. StaffRests => StaffRests'
      BY <2>1 DEF StaffRests, staffVars
    <3> QED
      BY <3>1, <2>1, StaffUnmoved
  <2>2. CASE PeopleFocus /\ UNCHANGED focus
    <3>1. 1..MaxQuota \in SUBSET Nat /\ {1} \in SUBSET Nat
      BY StaffBoundsAssumption
    <3>2. focus' # "signIn"
      BY <2>2 DEF PeopleFocus
    <3> QED
      BY <3>1, <3>2, <2>2, PlacesInvStep, PeopleInvStep DEF PeopleFocus
  <2>3. CASE StaffMoves /\ focus = "signIn" /\ UNCHANGED focus
    BY <2>3, StaffMovesInv
  <2>4. \/ UNCHANGED staffVars /\ UNCHANGED focus
        \/ PeopleFocus /\ UNCHANGED focus
        \/ StaffMoves /\ focus = "signIn" /\ UNCHANGED focus
    BY DEF AdminNext, adminVars, SignInFocus
  <2> QED
    BY <2>1, <2>2, <2>3, <2>4
<1> QED
  BY <1>1, <1>2, PTL DEF AdminSpec

\* A behaviour of the back office is a behaviour of each of these parts: whatever the
\* others do, they see their own actions only.
THEOREM BackOfficeImplementsParts ==
    AdminSpec => AccountsSpec /\ AnySignIn /\ MenusSpec /\ ModifiersSpec /\ FloorSpec
<1>1. AdminInit => AccountsInit /\ SignInInit /\ MenusInit /\ ModifiersInit /\ FloorInit
  BY DEF AdminInit
<1>2. [AdminNext]_adminVars => [AccountsNext]_accountsVars
  BY DEF AdminNext, adminVars, AccountsFocus
<1>3. [AdminNext]_adminVars => [SignInNext]_signInVars
  BY DEF AdminNext, adminVars, SignInFocus
<1>4. [AdminNext]_adminVars => [MenusNext]_menuVars
  BY DEF AdminNext, adminVars, MenusFocus, MenusNext
<1>5. [AdminNext]_adminVars => [LimitsNext \/ ItemGroupsNext]_modifierVars
  BY DEF AdminNext, adminVars, ModifiersFocus
<1>6. [AdminNext]_adminVars => [ZonesNext \/ AssignmentsNext]_floorVars
  BY DEF AdminNext, adminVars, FloorFocus
<1> QED
  BY <1>1, <1>2, <1>3, <1>4, <1>5, <1>6, PTL
     DEF AdminSpec, AccountsSpec, AnySignIn, MenusSpec, ModifiersSpec, FloorSpec

\* The code of an authorization is exchanged at most once.
THEOREM CodesExchangedOnce == AdminSpec => []ExchangedOnce
BY BackOfficeImplementsParts, Exchanged

\* Some selection of an available option passes the check of an order.
THEOREM SelectionsPossible == AdminSpec => []SelectionPossible
BY BackOfficeImplementsParts, GuestsCanSelect

\* The lists that requests replace are those of the last request.
THEOREM ListsStayWhole == AdminSpec => []ListsAreWhole
<1>1. ItemGroupsAsSent /\ ZoneStaffAsSent => ListsAreWhole
  BY DEF ListsAreWhole
<1> QED
  BY <1>1, BackOfficeImplementsParts, ItemGroupsWhole, ZoneStaffWhole, PTL

\* Every variable of the back office keeps its type.
THEOREM BackOfficeTypes == AdminSpec => []AdminTypeOK
<1>1. /\ StaffInv => StaffTypeOK
      /\ SignInInv => SignInTypeOK
      /\ MenusInv => MenusTypeOK
  BY DEF StaffInv, SignInInv, TokensInv, MenusInv
<1> QED
  BY <1>1, BackOfficeImplementsParts, AdminStaffInvariance, AccountsTypes, SignInInvariance,
     MenusInvariance, ModifiersTypes, FloorTypes, PTL DEF AdminTypeOK

\* Whatever updates of the staff follow each other, a restaurant with a branch keeps an
\* active administrator, unless two of them overlapped.
THEOREM RestaurantsKeepAnAdmin == AdminSpec => []KeepsActiveAdmin
BY StaffPromises, AdminStaffInvariance, PTL

\* However the requests that hire overlap and fail, and whatever the foreign key refuses
\* to remove, an identity has a profile or a request that created it and will use it or
\* remove it, unless that request died.
THEOREM NoIdentityIsStray == AdminSpec => []NoStrayIdentity
BY StaffPromises, AdminStaffInvariance, PTL

\* However branches are created and plans change, the plan bounds the branches, unless it
\* was lowered or two branches were being created at once.
THEOREM PlansBoundBranches == AdminSpec => []BranchesWithinQuota
BY StaffPromises, AdminStaffInvariance, PTL

\* A token names the profile of its identity, also while the staff changes under it.
THEOREM TokensStayOfOneProfile == AdminSpec => []TokensNameTheirProfile
BY BackOfficeImplementsParts, TokensAreOfOneProfile, PTL

\* A profile is locked at the MaxPin-th wrong PIN in a row at the latest, also while the
\* staff changes under it, unless two attempts on it overlapped.
THEOREM PinsStayLocked == AdminSpec => []PinLockout
BY BackOfficeImplementsParts, PinLocks, PTL

\* The default menu is published and has something to order, also while the other parts
\* move, unless an edit of that DRAFT overlapped its publication.
THEOREM MenusServeGuests == AdminSpec => []GuestsCanOrder
BY BackOfficeImplementsParts, MenuServesGuests, PTL

\* The picture that a menu shows is in the storage, whatever call failed, unless two
\* requests changed it at once.
THEOREM PicturesStayStored == AdminSpec => []ImageIsStored
BY BackOfficeImplementsParts, PictureIsStored, PTL
=============================================================================
