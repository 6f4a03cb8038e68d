---------------------------- MODULE IntakeProofs -----------------------------
(***************************************************************************)
(* Proofs about what brings orders in, each for every value of its         *)
(* constants: Links, Connectors, Offers, OrderImport, ProviderSync. Each   *)
(* has its own inductive invariant.                                        *)
(***************************************************************************)
EXTENDS Platform, FiniteSetTheorems, TLAPS

-----------------------------------------------------------------------------
(* Links, for every set of shops, affiliate ids, requests and keys, and    *)
(* every number of changes of settings.                                    *)

ShareOrNone == Shares \cup {NoShare}
ShopOrNone == LinkShops \cup {NoTenant}
AccountOrHouse == AffiliateIds \cup {House}
Terms == [affiliate : AffiliateIds, share : Shares]
Scopes == {"USER", "MERCHANT_DEFAULT", "SYSTEM_DEFAULT"}

Request == [at : {"ACCOUNT", "CREATE", "WRITE"}, key : LinkKeys, content : Contents,
            shop : ShopOrNone, affiliate : AccountOrHouse, share : ShareOrNone,
            account : AccountOrHouse]

Click == [token : LinkCalls, content : Contents, shop : ShopOrNone,
          account : AccountOrHouse, share : ShareOrNone]

LinkAnswer == [key : LinkKeys, content : Contents, token : LinkCalls, share : ShareOrNone]

\* LinkTypeOK, with the shape of every table of records.
LinkTypes ==
  /\ terms \in [LinkShops -> Terms \cup {Unset}]
  /\ inService \in [LinkShops -> BOOLEAN]
  /\ merchantShare \in ShareOrNone
  /\ accountOwner \in [AffiliateIds -> ShopOrNone]
  /\ ruleShare \in [Scopes -> ShareOrNone]
  /\ linkCall \in [LinkCalls -> Request \cup {Asleep}]
  /\ click \in [LinkKeys -> Click \cup {NoClick}]
  /\ linkAnswers \subseteq LinkAnswer
  /\ changes \in 0..MaxSettings

\* Where a shop's request has got to with the account of its affiliate id.
RequestsKnowTheirAccount ==
  \A c \in LinkCalls :
    /\ linkCall[c].at \in {"ACCOUNT", "CREATE"} =>
         linkCall[c].shop \in LinkShops /\ linkCall[c].affiliate \in AffiliateIds
    /\ linkCall[c].at = "CREATE" => linkCall[c].account = linkCall[c].affiliate
    /\ linkCall[c].at = "WRITE" /\ linkCall[c].shop # NoTenant =>
         /\ linkCall[c].account \in AffiliateIds
         /\ accountOwner[linkCall[c].account] = linkCall[c].shop

ClicksPayTheirShop ==
  \A k \in LinkKeys : click[k] # NoClick /\ click[k].shop # NoTenant =>
    click[k].account \in AffiliateIds /\ accountOwner[click[k].account] = click[k].shop

\* Every answer is about the click its key made.
AnswersAreOfTheClick ==
  \A a \in linkAnswers :
    /\ click[a.key] # NoClick
    /\ a = [key |-> a.key, content |-> click[a.key].content,
            token |-> click[a.key].token, share |-> click[a.key].share]

LinkInv == LinkTypes /\ RequestsKnowTheirAccount /\ ClicksPayTheirShop /\ AnswersAreOfTheClick

-----------------------------------------------------------------------------
LEMMA ClickIsNotNone == \A x \in Click : x # NoClick
BY DEF Click, NoClick

LEMMA TermsAreSet == \A s \in LinkShops : LinkTypes /\ terms[s] # Unset => terms[s] \in Terms
BY DEF LinkTypes

LEMMA BusyIsRequest ==
  ASSUME LinkTypes, NEW c \in LinkCalls, linkCall[c].at # "ASLEEP"
  PROVE  linkCall[c] \in Request
BY DEF LinkTypes, Asleep

LEMMA LinkInitInvariant == LinkInit => LinkInv
<1> SUFFICES ASSUME LinkInit PROVE LinkInv
  OBVIOUS
<1>1. LinkTypes
  BY LinksAssumption DEF LinkInit, LinkTypes, ShareOrNone, ShopOrNone, Scopes
<1>2. RequestsKnowTheirAccount
  BY DEF LinkInit, RequestsKnowTheirAccount, Asleep
<1>3. ClicksPayTheirShop /\ AnswersAreOfTheClick
  BY DEF LinkInit, ClicksPayTheirShop, AnswersAreOfTheClick
<1> QED
  BY <1>1, <1>2, <1>3 DEF LinkInv

-----------------------------------------------------------------------------
(* Steps that touch no request, no account and no click.                   *)

LEMMA SettingsKeep ==
  ASSUME LinkInv, LinkTypes', UNCHANGED <<accountOwner, linkCall, click, linkAnswers>>
  PROVE  LinkInv'
BY DEF LinkInv, RequestsKnowTheirAccount, ClicksPayTheirShop, AnswersAreOfTheClick

\* A request that goes on or ends, with no account or click made.
LEMMA RequestKeeps ==
  ASSUME LinkInv, NEW c \in LinkCalls, NEW r \in Request \cup {Asleep},
         linkCall' = [linkCall EXCEPT ![c] = r],
         UNCHANGED <<terms, inService, merchantShare, accountOwner, ruleShare, click,
                     linkAnswers, changes>>,
         r.at \in {"ACCOUNT", "CREATE"} => r.shop \in LinkShops /\ r.affiliate \in AffiliateIds,
         r.at = "CREATE" => r.account = r.affiliate,
         r.at = "WRITE" /\ r.shop # NoTenant =>
            r.account \in AffiliateIds /\ accountOwner[r.account] = r.shop
  PROVE  LinkInv'
<1>1. LinkTypes'
  BY DEF LinkInv, LinkTypes
<1>2. RequestsKnowTheirAccount'
  BY DEF LinkInv, LinkTypes, RequestsKnowTheirAccount
<1>3. ClicksPayTheirShop' /\ AnswersAreOfTheClick'
  BY DEF LinkInv, ClicksPayTheirShop, AnswersAreOfTheClick
<1> QED
  BY <1>1, <1>2, <1>3 DEF LinkInv

\* A request is refused.
LEMMA RefusalKeeps ==
  ASSUME LinkInv, NEW c \in LinkCalls, RefuseLink(c),
         UNCHANGED <<terms, inService, merchantShare, accountOwner, ruleShare, click, changes>>
  PROVE  LinkInv'
<1>1. linkCall' = [linkCall EXCEPT ![c] = Asleep] /\ UNCHANGED linkAnswers
  BY DEF RefuseLink
<1>2. Asleep.at = "ASLEEP"
  BY DEF Asleep
<1> QED
  BY <1>1, <1>2, RequestKeeps

\* An answer about the click that is, or has just been, made with the key.
LEMMA AnswerKeeps ==
  ASSUME LinkInv, NEW c \in LinkCalls, NEW k \in LinkKeys, NEW made \in Click,
         Answer(c, k, made.content, made),
         click' \in [LinkKeys -> Click \cup {NoClick}], click'[k] = made,
         \A q \in LinkKeys : click[q] # NoClick => click'[q] = click[q],
         \A q \in LinkKeys \ {k} : click'[q] = click[q],
         made.shop # NoTenant =>
            made.account \in AffiliateIds /\ accountOwner[made.account] = made.shop,
         UNCHANGED <<terms, inService, merchantShare, accountOwner, ruleShare, changes>>
  PROVE  LinkInv'
<1> DEFINE new == [key |-> k, content |-> made.content, token |-> made.token,
                   share |-> made.share]
<1>1. linkAnswers' = linkAnswers \cup {new} /\ linkCall' = [linkCall EXCEPT ![c] = Asleep]
  BY DEF Answer
<1>2. new \in LinkAnswer
  BY DEF Click, LinkAnswer
<1>3. LinkTypes'
  BY <1>1, <1>2 DEF LinkInv, LinkTypes
<1>4. RequestsKnowTheirAccount'
  BY <1>1 DEF LinkInv, LinkTypes, RequestsKnowTheirAccount, Asleep
<1>5. ClicksPayTheirShop'
  BY DEF LinkInv, ClicksPayTheirShop
<1>6. AnswersAreOfTheClick'
  <2> SUFFICES ASSUME NEW a \in linkAnswers'
               PROVE  /\ click'[a.key] # NoClick
                      /\ a = [key |-> a.key, content |-> click'[a.key].content,
                              token |-> click'[a.key].token, share |-> click'[a.key].share]
    BY DEF AnswersAreOfTheClick
  <2>1. CASE a \in linkAnswers
    <3>1. a.key \in LinkKeys /\ click[a.key] # NoClick
      BY <2>1 DEF LinkInv, LinkTypes, LinkAnswer, AnswersAreOfTheClick
    <3>2. click'[a.key] = click[a.key]
      BY <3>1
    <3> QED
      BY <2>1, <3>1, <3>2 DEF LinkInv, AnswersAreOfTheClick
  <2>2. CASE a = new
    BY <2>2, ClickIsNotNone
  <2> QED
    BY <1>1, <2>1, <2>2
<1> HIDE DEF new
<1> QED
  BY <1>3, <1>4, <1>5, <1>6 DEF LinkInv

\* existingClickResult: an answer about the key's click, or a refusal.
LEMMA ExistingKeeps ==
  ASSUME LinkInv, NEW c \in LinkCalls, NEW k \in LinkKeys, NEW q,
         click[k] # NoClick, AnswerExisting(c, k, q),
         UNCHANGED <<terms, inService, merchantShare, accountOwner, ruleShare, click, changes>>
  PROVE  LinkInv'
<1>1. CASE click[k].content = q
  <2>1. click[k] \in Click
    BY DEF LinkInv, LinkTypes
  <2>2. Answer(c, k, click[k].content, click[k])
    BY <1>1 DEF AnswerExisting
  <2>3. click[k].shop # NoTenant =>
           click[k].account \in AffiliateIds /\ accountOwner[click[k].account] = click[k].shop
    BY DEF LinkInv, ClicksPayTheirShop
  <2>4. click' \in [LinkKeys -> Click \cup {NoClick}]
    BY DEF LinkInv, LinkTypes
  <2> QED
    BY <2>1, <2>2, <2>3, <2>4, AnswerKeeps
<1>2. CASE click[k].content # q
  BY <1>2, RefusalKeeps DEF AnswerExisting
<1> QED
  BY <1>1, <1>2

-----------------------------------------------------------------------------
LEMMA StartKeeps ==
  ASSUME LinkInv, NEW c \in LinkCalls, NEW k \in LinkKeys, NEW q \in Contents,
         StartShopLink(c, k, q) \/ StartChannelLink(c, k, q) \/ StartPlatformLink(c, k, q)
  PROVE  LinkInv'
<1> DEFINE s == BuyersShop[k]
<1>1. ASSUME s # NoTenant, terms[s] # Unset, NEW share \in ShareOrNone,
             linkCall' = [linkCall EXCEPT ![c] =
                [at |-> "ACCOUNT", key |-> k, content |-> q, shop |-> s,
                 affiliate |-> terms[s].affiliate, share |-> share, account |-> House]],
             UNCHANGED <<terms, inService, merchantShare, accountOwner, ruleShare, click,
                         linkAnswers, changes>>
      PROVE  LinkInv'
  <2> DEFINE r == [at |-> "ACCOUNT", key |-> k, content |-> q, shop |-> s,
                   affiliate |-> terms[s].affiliate, share |-> share, account |-> House]
  <2>1. s \in LinkShops
    BY <1>1, LinksAssumption DEF NoTenant
  <2>2. terms[s].affiliate \in AffiliateIds
    BY <1>1, <2>1, TermsAreSet DEF LinkInv, Terms
  <2>3. r \in Request
    BY <2>1, <2>2 DEF Request, ShopOrNone, AccountOrHouse
  <2>4. r.at = "ACCOUNT" /\ r.shop \in LinkShops /\ r.affiliate \in AffiliateIds
    BY <2>1, <2>2
  <2>5. linkCall' = [linkCall EXCEPT ![c] = r]
    BY <1>1
  <2> HIDE DEF r
  <2> QED
    BY <1>1, <2>3, <2>4, <2>5, RequestKeeps
<1>2. CASE StartShopLink(c, k, q)
  <2>1. s # NoTenant /\ terms[s] # Unset
    BY <1>2 DEF StartShopLink
  <2>2. s \in LinkShops
    BY <2>1, LinksAssumption DEF NoTenant
  <2>3. terms[s].share \in ShareOrNone
    BY <2>1, <2>2, TermsAreSet DEF LinkInv, Terms, ShareOrNone
  <2> QED
    BY <1>1, <1>2, <2>1, <2>3 DEF StartShopLink
<1>3. CASE StartChannelLink(c, k, q)
  <2>1. terms[s] # Unset
    BY <1>3 DEF StartChannelLink
  <2>2. s # NoTenant
    BY <1>3, LinksAssumption DEF StartChannelLink, NoTenant
  <2>3. NoShare \in ShareOrNone
    BY DEF ShareOrNone
  <2> QED
    BY <1>1, <1>3, <2>1, <2>2, <2>3 DEF StartChannelLink
<1>4. CASE StartPlatformLink(c, k, q)
  <2> DEFINE r == [at |-> "WRITE", key |-> k, content |-> q, shop |-> NoTenant,
                   affiliate |-> House, share |-> RateInForce, account |-> House]
  <2>1. RateInForce \in ShareOrNone
    BY DEF RateInForce, LinkInv, LinkTypes, Scopes
  <2>2. r \in Request
    BY <2>1 DEF Request, ShopOrNone, AccountOrHouse
  <2>3. r.at = "WRITE" /\ r.shop = NoTenant
    OBVIOUS
  <2>4. linkCall' = [linkCall EXCEPT ![c] = r]
        /\ UNCHANGED <<terms, inService, merchantShare, accountOwner, ruleShare, click,
                       linkAnswers, changes>>
    BY <1>4 DEF StartPlatformLink
  <2> HIDE DEF r
  <2> QED
    BY <2>2, <2>3, <2>4, RequestKeeps
<1> QED
  BY <1>2, <1>3, <1>4

LEMMA FindKeeps ==
  ASSUME LinkInv, NEW c \in LinkCalls, FindAccount(c)
  PROVE  LinkInv'
<1> DEFINE asks == linkCall[c]
<1>1. asks.at = "ACCOUNT"
  BY DEF FindAccount
<1>2. asks \in Request
  BY <1>1, BusyIsRequest DEF LinkInv
<1>3. asks.shop \in LinkShops /\ asks.affiliate \in AffiliateIds
  BY <1>1 DEF LinkInv, RequestsKnowTheirAccount
<1>4. CASE accountOwner[asks.affiliate] \in {NoTenant, asks.shop}
  <2> DEFINE r == [asks EXCEPT !.at = IF accountOwner[asks.affiliate] = NoTenant
                                      THEN "CREATE" ELSE "WRITE",
                               !.account = asks.affiliate]
  <2>1. r \in Request
    BY <1>2, <1>3 DEF Request, AccountOrHouse
  <2>2. linkCall' = [linkCall EXCEPT ![c] = r]
    BY <1>4 DEF FindAccount, LinkInv, LinkTypes
  <2>3. /\ r.shop = asks.shop /\ r.affiliate = asks.affiliate /\ r.account = asks.affiliate
        /\ r.at = IF accountOwner[asks.affiliate] = NoTenant THEN "CREATE" ELSE "WRITE"
    BY <1>2 DEF Request
  <2>4. UNCHANGED <<terms, inService, merchantShare, accountOwner, ruleShare, click,
                    linkAnswers, changes>>
    BY <1>4 DEF FindAccount
  <2>5. r.at = "WRITE" => accountOwner[r.account] = r.shop
    BY <1>4, <2>3
  <2> HIDE DEF r
  <2> QED
    BY <1>3, <2>1, <2>2, <2>3, <2>4, <2>5, RequestKeeps
<1>5. CASE accountOwner[asks.affiliate] \notin {NoTenant, asks.shop}
  BY <1>5, RefusalKeeps DEF FindAccount
<1> QED
  BY <1>4, <1>5

\* The account is made for whoever finds it nobody's; no account changes hands.
LEMMA CreateKeeps ==
  ASSUME LinkInv, NEW c \in LinkCalls, CreateAccount(c)
  PROVE  LinkInv'
<1> DEFINE asks == linkCall[c]
<1>1. asks.at = "CREATE"
  BY DEF CreateAccount
<1>2. asks \in Request
  BY <1>1, BusyIsRequest DEF LinkInv
<1>3. asks.shop \in LinkShops /\ asks.affiliate \in AffiliateIds
      /\ asks.account = asks.affiliate
  BY <1>1 DEF LinkInv, RequestsKnowTheirAccount
<1>4. CASE accountOwner[asks.affiliate] = NoTenant
  <2>1. /\ accountOwner' = [accountOwner EXCEPT ![asks.affiliate] = asks.shop]
        /\ linkCall' = [linkCall EXCEPT ![c].at = "WRITE"]
        /\ UNCHANGED <<terms, inService, merchantShare, ruleShare, click, linkAnswers, changes>>
    BY <1>4 DEF CreateAccount
  <2>2. \A a \in AffiliateIds : accountOwner[a] # NoTenant => accountOwner'[a] = accountOwner[a]
    BY <1>4, <2>1 DEF LinkInv, LinkTypes
  <2>3. accountOwner'[asks.affiliate] = asks.shop
    BY <1>3, <2>1 DEF LinkInv, LinkTypes
  <2>4. [asks EXCEPT !.at = "WRITE"] \in Request
    BY <1>2 DEF Request
  <2>5. LinkTypes'
    BY <1>3, <2>1, <2>4 DEF LinkInv, LinkTypes, ShopOrNone
  <2>6. linkCall'[c] = [asks EXCEPT !.at = "WRITE"]
    BY <2>1 DEF LinkInv, LinkTypes
  <2>7. /\ linkCall'[c].at = "WRITE" /\ linkCall'[c].shop = asks.shop
        /\ linkCall'[c].account = asks.account
    BY <1>2, <2>6 DEF Request
  <2>8. \A d \in LinkCalls : d # c => linkCall'[d] = linkCall[d]
    BY <2>1 DEF LinkInv, LinkTypes
  <2>9. RequestsKnowTheirAccount'
    BY <1>3, <2>2, <2>3, <2>7, <2>8 DEF LinkInv, RequestsKnowTheirAccount
  <2>10. ClicksPayTheirShop'
    BY <2>1, <2>2 DEF LinkInv, ClicksPayTheirShop
  <2>11. AnswersAreOfTheClick'
    BY <2>1 DEF LinkInv, AnswersAreOfTheClick
  <2> QED
    BY <2>5, <2>9, <2>10, <2>11 DEF LinkInv
<1>5. CASE accountOwner[asks.affiliate] # NoTenant
  BY <1>5, RefusalKeeps DEF CreateAccount
<1> QED
  BY <1>4, <1>5

LEMMA WriteKeeps ==
  ASSUME LinkInv, NEW c \in LinkCalls, WriteClick(c)
  PROVE  LinkInv'
<1> DEFINE asks == linkCall[c]
           made == [token |-> c, content |-> asks.content, shop |-> asks.shop,
                    account |-> asks.account, share |-> asks.share]
<1>1. asks.at = "WRITE"
  BY DEF WriteClick
<1>2. asks \in Request
  BY <1>1, BusyIsRequest DEF LinkInv
<1>3. asks.key \in LinkKeys
  BY <1>2 DEF Request
<1>4. CASE click[asks.key] = NoClick
  <2>1. made \in Click
    BY <1>2 DEF Request, Click
  <2>2. click' = [click EXCEPT ![asks.key] = made] /\ Answer(c, asks.key, made.content, made)
        /\ UNCHANGED <<terms, inService, merchantShare, accountOwner, ruleShare, changes>>
    BY <1>4 DEF WriteClick
  <2>3. made.shop # NoTenant =>
           made.account \in AffiliateIds /\ accountOwner[made.account] = made.shop
    BY <1>1 DEF LinkInv, RequestsKnowTheirAccount
  <2> HIDE DEF made
  <2>4. click' \in [LinkKeys -> Click \cup {NoClick}] /\ click'[asks.key] = made
    BY <1>3, <2>1, <2>2 DEF LinkInv, LinkTypes
  <2>5. \A q \in LinkKeys : click[q] # NoClick => click'[q] = click[q]
    BY <1>4, <2>2 DEF LinkInv, LinkTypes
  <2>6. \A q \in LinkKeys \ {asks.key} : click'[q] = click[q]
    BY <2>2 DEF LinkInv, LinkTypes
  <2> HIDE DEF asks
  <2> QED
    BY <1>3, <2>1, <2>2, <2>3, <2>4, <2>5, <2>6, AnswerKeeps
<1>5. CASE click[asks.key] # NoClick
  <2>1. AnswerExisting(c, asks.key, asks.content)
        /\ UNCHANGED <<terms, inService, merchantShare, accountOwner, ruleShare, click, changes>>
    BY <1>5 DEF WriteClick
  <2> QED
    BY <1>3, <1>5, <2>1, ExistingKeeps
<1> QED
  BY <1>4, <1>5

-----------------------------------------------------------------------------
LEMMA LinkStepInvariant == LinkInv /\ [LinkNext]_linkVars => LinkInv'
<1> SUFFICES ASSUME LinkInv, [LinkNext]_linkVars PROVE LinkInv'
  OBVIOUS
<1>1. ASSUME NEW s \in LinkShops, NameTerms(s) PROVE LinkInv'
  <2>1. LinkTypes'
    <3>1. PICK a \in AffiliateIds, p \in Shares :
             terms' = [terms EXCEPT ![s] = [affiliate |-> a, share |-> p]]
      BY <1>1 DEF NameTerms
    <3>2. terms' \in [LinkShops -> Terms \cup {Unset}]
      BY <3>1 DEF LinkInv, LinkTypes, Terms
    <3>3. changes' \in 0..MaxSettings
      BY <1>1, LinksAssumption DEF NameTerms, LinkInv, LinkTypes
    <3> QED
      BY <1>1, <3>2, <3>3 DEF NameTerms, LinkInv, LinkTypes
  <2> QED
    BY <1>1, <2>1, SettingsKeep DEF NameTerms
<1>2. ASSUME NEW s \in LinkShops, ChangeSubscription(s) PROVE LinkInv'
  <2>1. LinkTypes'
    BY <1>2, LinksAssumption DEF ChangeSubscription, LinkInv, LinkTypes
  <2> QED
    BY <1>2, <2>1, SettingsKeep DEF ChangeSubscription
<1>3. ASSUME NEW p \in Shares, UpsertMerchant(p) PROVE LinkInv'
  <2>1. LinkTypes'
    BY <1>3, LinksAssumption DEF UpsertMerchant, LinkInv, LinkTypes, ShareOrNone
  <2> QED
    BY <1>3, <2>1, SettingsKeep DEF UpsertMerchant
<1>4. ASSUME NEW scope \in DOMAIN ruleShare, NEW p \in Shares, CreateRuleVersion(scope, p)
      PROVE  LinkInv'
  <2>1. LinkTypes'
    BY <1>4, LinksAssumption DEF CreateRuleVersion, LinkInv, LinkTypes, ShareOrNone
  <2> QED
    BY <1>4, <2>1, SettingsKeep DEF CreateRuleVersion
<1>5. ASSUME NEW c \in LinkCalls, NEW k \in LinkKeys, NEW q \in Contents, RepeatRequest(c, k, q)
      PROVE  LinkInv'
  BY <1>5, ExistingKeeps DEF RepeatRequest
<1>6. ASSUME NEW c \in LinkCalls, NEW k \in LinkKeys, NEW q \in Contents,
             StartShopLink(c, k, q) \/ StartChannelLink(c, k, q) \/ StartPlatformLink(c, k, q)
      PROVE  LinkInv'
  BY <1>6, StartKeeps
<1>7. ASSUME NEW c \in LinkCalls, FindAccount(c) PROVE LinkInv'
  BY <1>7, FindKeeps
<1>8. ASSUME NEW c \in LinkCalls, CreateAccount(c) PROVE LinkInv'
  BY <1>8, CreateKeeps
<1>9. ASSUME NEW c \in LinkCalls, WriteClick(c) PROVE LinkInv'
  BY <1>9, WriteKeeps
<1>10. ASSUME NEW c \in LinkCalls, FailLink(c) PROVE LinkInv'
  BY <1>10, RefusalKeeps DEF FailLink
<1>11. ASSUME UNCHANGED linkVars PROVE LinkInv'
  BY <1>11 DEF linkVars, LinkInv, LinkTypes, RequestsKnowTheirAccount, ClicksPayTheirShop,
     AnswersAreOfTheClick
<1> QED
  BY <1>1, <1>2, <1>3, <1>4, <1>5, <1>6, <1>7, <1>8, <1>9, <1>10, <1>11
  DEF LinkNext, UpdateSettings, AdminUpdatesShop

LEMMA LinkInvariantIsEnough == LinkInv => LinksAreIdempotent /\ LinksPayTheirShop
<1> SUFFICES ASSUME LinkInv PROVE LinksAreIdempotent /\ LinksPayTheirShop
  OBVIOUS
<1>1. ASSUME NEW a \in linkAnswers, NEW b \in linkAnswers, a.key = b.key PROVE a = b
  BY <1>1 DEF LinkInv, AnswersAreOfTheClick
<1> QED
  BY <1>1 DEF LinkInv, ClicksPayTheirShop, LinksAreIdempotent, LinksPayTheirShop

\* One idempotency key, one link: every answer under a key is about the click that
\* was made with it, however requests race and terms change (links/service.ts:161-214,
\* 515-534).
THEOREM KeysStandForOneLink == LinkSpec => []LinksAreIdempotent
BY LinkInitInvariant, LinkStepInvariant, LinkInvariantIsEnough, PTL DEF LinkSpec

\* A shop's link pays an account of that shop, whatever affiliate ids the shops
\* name and whoever makes an account first (links/service.ts:40-114).
THEOREM ShopsAreNotCrossed == LinkSpec => []LinksPayTheirShop
BY LinkInitInvariant, LinkStepInvariant, LinkInvariantIsEnough, PTL DEF LinkSpec

-----------------------------------------------------------------------------
(* Connectors, for every set of accounts and jobs, and all times.          *)

RunningJob ==
  [at : {"LISTED", "CALLS"}, kind : {"HEALTH", "SYNC"}, account : ProviderAccounts,
   mode : Modes, credential : 0..MaxCredential, since : Nat]

JudgedHold ==
  [at : {"JUDGED"}, account : ProviderAccounts, verdict : {"VALIDATED", "REVIEW"}, since : Nat]

\* A connector in mode ACTIVE is so now.
ModesAreRemembered ==
  \A a \in ProviderAccounts :
    /\ activeAt[a] <= connectorClock
    /\ InActiveMode(connector[a]) => activeAt[a] = connectorClock

\* The days of a hold are set after a credential was saved.
DaysFollowCredentials ==
  \A a \in ProviderAccounts :
    a \in saving \/ providerAccount[a].holdDays => newestCredential[a] > 0

\* No job lasts longer than it may; what it took was so when it began, or later.
JobsKnowTheirConnector ==
  \A j \in ConnectorJobs : connectorJob[j] # NoJob =>
    LET job == connectorJob[j] IN
    /\ job.since <= connectorClock /\ connectorClock <= job.since + JobTime
    /\ job.kind = "SYNC" => newestCredential[job.account] > 0
    /\ job.kind = "SYNC" /\ job.at = "CALLS" => job.credential > 0
    /\ job.mode = "ACTIVE" => job.since <= activeAt[job.account]

\* A success counts for a mode the connector was in no longer ago than a job lasts.
HealthIsOfTheMode ==
  \A a \in ProviderAccounts : connectorHealth[a].status = "ACTIVE" =>
    activeAt[a] >= 0 /\ connectorHealth[a].success <= activeAt[a] + JobTime

\* A hold job lasts no longer than it may, and had seen a fresh success when it decided
\* to validate.
DecidedInTime(job) ==
  /\ job.since <= connectorClock /\ connectorClock <= job.since + JobTime
  /\ job.verdict = "VALIDATED" =>
       activeAt[job.account] >= 0 /\ job.since <= activeAt[job.account] + Freshness + JobTime

HoldsAreJudgedInTime ==
  \A j \in ConnectorJobs : holdJob[j] # NoJob => DecidedInTime(holdJob[j])

ConnectorsInv ==
  /\ ConnectorsTypeOK
  /\ ModesAreRemembered /\ DaysFollowCredentials /\ JobsKnowTheirConnector /\ HealthIsOfTheMode
  /\ HoldsAreJudgedInTime

-----------------------------------------------------------------------------
LEMMA RunningIsNoIdleJob == \A job \in RunningJob : job # NoJob
BY DEF RunningJob, NoJob

LEMMA JobFacts ==
  ASSUME ConnectorsInv, NEW j \in ConnectorJobs, connectorJob[j] # NoJob
  PROVE  /\ connectorJob[j] \in RunningJob
         /\ connectorJob[j].account \in ProviderAccounts
         /\ connectorJob[j].since \in Nat
         /\ connectorJob[j].mode \in Modes
         /\ connectorJob[j].since <= connectorClock
         /\ connectorClock <= connectorJob[j].since + JobTime
         /\ connectorJob[j].kind = "SYNC" => newestCredential[connectorJob[j].account] > 0
         /\ connectorJob[j].mode = "ACTIVE" => connectorJob[j].since <= activeAt[connectorJob[j].account]
BY DEF ConnectorsInv, ConnectorsTypeOK, RunningJob, JobsKnowTheirConnector

LEMMA HoldFacts ==
  ASSUME ConnectorsInv, NEW j \in ConnectorJobs, holdJob[j] # NoJob
  PROVE  /\ holdJob[j] \in JudgedHold
         /\ holdJob[j].account \in ProviderAccounts /\ holdJob[j].since \in Nat
         /\ DecidedInTime(holdJob[j])
BY DEF ConnectorsInv, ConnectorsTypeOK, JudgedHold, HoldsAreJudgedInTime

\* A decision made in time stays so while the job may last and activeAt only grows.
LEMMA DecisionsLast ==
  ASSUME ConnectorsInv, NEW j \in ConnectorJobs, holdJob[j] # NoJob,
         holdJob'[j] = holdJob[j],
         holdJob[j].since <= connectorClock', connectorClock' <= holdJob[j].since + JobTime,
         \A a \in ProviderAccounts :
           /\ activeAt[a] \in Nat \union {NeverYet} /\ activeAt'[a] \in Nat \union {NeverYet}
           /\ activeAt[a] <= activeAt'[a]
  PROVE  DecidedInTime(holdJob[j])'
<1> DEFINE a == holdJob[j].account
<1>1. a \in ProviderAccounts /\ holdJob[j].since \in Nat
  BY HoldFacts
<1>2. holdJob[j].verdict = "VALIDATED" =>
        activeAt[a] >= 0 /\ holdJob[j].since <= activeAt[a] + Freshness + JobTime
  BY HoldFacts DEF DecidedInTime
<1>3. Freshness \in Nat /\ JobTime \in Nat
  BY ConnectorsAssumption DEF ConnectorsAssumption
<1> HIDE DEF a
<1>4. holdJob[j].verdict = "VALIDATED" =>
        activeAt'[a] >= 0 /\ holdJob[j].since <= activeAt'[a] + Freshness + JobTime
  BY <1>1, <1>2, <1>3 DEF NeverYet
<1> QED
  BY <1>4 DEF DecidedInTime, a

LEMMA ConnectorsInitInvariant == ConnectorsInit => ConnectorsInv
<1> SUFFICES ASSUME ConnectorsInit PROVE ConnectorsInv
  OBVIOUS
<1>1. ConnectorsTypeOK
  BY ConnectorsAssumption DEF ConnectorsInit, ConnectorsTypeOK, ConnectorsAssumption, NoAccount,
     NoConnector, NoHealth, NoJob, Modes, NeverYet
<1>2. ModesAreRemembered /\ DaysFollowCredentials
  BY DEF ConnectorsInit, ModesAreRemembered, DaysFollowCredentials, NoAccount, NoConnector, NeverYet,
     InActiveMode
<1>3. JobsKnowTheirConnector /\ HealthIsOfTheMode /\ HoldsAreJudgedInTime
  BY DEF ConnectorsInit, JobsKnowTheirConnector, HealthIsOfTheMode, HoldsAreJudgedInTime, NoHealth
<1> QED
  BY <1>1, <1>2, <1>3 DEF ConnectorsInv

LEMMA ConnectorsTickKeeps ==
  ASSUME ConnectorsInv, ConnectorsTick PROVE ConnectorsInv'
<1> USE ConnectorsAssumption DEF ConnectorsAssumption
<1>0. connectorClock \in Nat /\ connectorClock' = connectorClock + 1 /\ connectorClock' \in 0..MaxConnectorClock
  BY DEF ConnectorsInv, ConnectorsTypeOK, ConnectorsTick
<1>1. ASSUME NEW a \in ProviderAccounts
      PROVE  /\ activeAt[a] \in Nat \union {NeverYet} /\ activeAt'[a] \in Nat \union {NeverYet}
             /\ activeAt[a] <= activeAt'[a] /\ activeAt'[a] <= connectorClock'
             /\ InActiveMode(connector[a]) => activeAt'[a] = connectorClock'
  BY <1>0 DEF ConnectorsInv, ConnectorsTypeOK, ConnectorsTick, ModesAreRemembered, NeverYet
<1>2. ConnectorsTypeOK'
  BY <1>0, <1>1 DEF ConnectorsInv, ConnectorsTypeOK, ConnectorsTick, accountVars, holdVars
<1>3. ModesAreRemembered'
  BY <1>1 DEF ModesAreRemembered, ConnectorsTick
<1>4. DaysFollowCredentials'
  BY DEF ConnectorsInv, DaysFollowCredentials, ConnectorsTick, accountVars
<1>5. JobsKnowTheirConnector'
  <2> SUFFICES ASSUME NEW j \in ConnectorJobs, connectorJob[j] # NoJob
               PROVE  /\ connectorJob[j].since <= connectorClock'
                      /\ connectorClock' <= connectorJob[j].since + JobTime
                      /\ connectorJob[j].kind = "SYNC" => newestCredential[connectorJob[j].account] > 0
                      /\ connectorJob[j].kind = "SYNC" /\ connectorJob[j].at = "CALLS" => connectorJob[j].credential > 0
                      /\ connectorJob[j].mode = "ACTIVE" => connectorJob[j].since <= activeAt'[connectorJob[j].account]
    BY DEF JobsKnowTheirConnector, ConnectorsTick, accountVars
  <2>1. connectorClock < connectorJob[j].since + JobTime
    BY DEF ConnectorsTick
  <2>2. connectorJob[j].mode = "ACTIVE" => connectorJob[j].since <= activeAt'[connectorJob[j].account]
    <3> DEFINE a == connectorJob[j].account
    <3>1. a \in ProviderAccounts /\ connectorJob[j].since \in Nat
      BY JobFacts
    <3>2. connectorJob[j].mode = "ACTIVE" => connectorJob[j].since <= activeAt[a]
      BY JobFacts
    <3> HIDE DEF a
    <3>3. connectorJob[j].mode = "ACTIVE" => connectorJob[j].since <= activeAt'[a]
      BY <3>1, <3>2, <1>1 DEF NeverYet
    <3> QED
      BY <3>3 DEF a
  <2> QED
    BY <1>0, <2>1, <2>2, JobFacts DEF ConnectorsInv, JobsKnowTheirConnector
<1>6. HealthIsOfTheMode'
  <2> SUFFICES ASSUME NEW a \in ProviderAccounts, connectorHealth[a].status = "ACTIVE"
               PROVE  activeAt'[a] >= 0 /\ connectorHealth[a].success <= activeAt'[a] + JobTime
    BY DEF HealthIsOfTheMode, ConnectorsTick
  <2>1. activeAt[a] >= 0 /\ connectorHealth[a].success <= activeAt[a] + JobTime
    BY DEF ConnectorsInv, HealthIsOfTheMode
  <2>2. connectorHealth[a].success \in Nat \union {NeverYet}
    BY DEF ConnectorsInv, ConnectorsTypeOK
  <2> QED
    BY <1>1, <2>1, <2>2 DEF NeverYet
<1>7. HoldsAreJudgedInTime'
  <2> SUFFICES ASSUME NEW j \in ConnectorJobs, holdJob'[j] # NoJob
               PROVE  DecidedInTime(holdJob[j])'
    BY DEF HoldsAreJudgedInTime
  <2>1. holdJob'[j] = holdJob[j]
    BY DEF ConnectorsTick, holdVars
  <2>2. connectorClock < holdJob[j].since + JobTime
    BY <2>1 DEF ConnectorsTick
  <2>3. holdJob[j].since <= connectorClock /\ holdJob[j].since \in Nat
    BY <2>1, HoldFacts DEF DecidedInTime
  <2>4. holdJob[j].since <= connectorClock' /\ connectorClock' <= holdJob[j].since + JobTime
    BY <1>0, <2>2, <2>3
  <2> QED
    BY <1>1, <2>1, <2>4, DecisionsLast
<1> QED
  BY <1>2, <1>3, <1>4, <1>5, <1>6, <1>7 DEF ConnectorsInv

\* The owner saves a credential or the days: no connector and no job changes.
LEMMA OwnerKeeps ==
  ASSUME ConnectorsInv, NEW a \in ProviderAccounts,
         OpenAccount(a) \/ SaveCredential(a) \/ SetHoldDays(a)
  PROVE  ConnectorsInv'
<1> USE ConnectorsAssumption DEF ConnectorsAssumption
<1>1. ConnectorsTypeOK'
  <2>1. CASE OpenAccount(a)
    BY <2>1, ZenonT(60) DEF ConnectorsInv, ConnectorsTypeOK, OpenAccount, holdVars
  <2>2. CASE SaveCredential(a)
    BY <2>2 DEF ConnectorsInv, ConnectorsTypeOK, SaveCredential, holdVars
  <2>3. CASE SetHoldDays(a)
    BY <2>3, ZenonT(60) DEF ConnectorsInv, ConnectorsTypeOK, SetHoldDays, holdVars
  <2> QED
    BY <2>1, <2>2, <2>3
<1>2. \A b \in ProviderAccounts : newestCredential[b] \in Nat /\ newestCredential[b] <= newestCredential'[b]
  <2>0. newestCredential \in [ProviderAccounts -> 0..MaxCredential]
    BY DEF ConnectorsInv, ConnectorsTypeOK
  <2>1. CASE OpenAccount(a)
    BY <2>0, <2>1 DEF OpenAccount
  <2>2. CASE SaveCredential(a)
    BY <2>0, <2>2 DEF SaveCredential
  <2>3. CASE SetHoldDays(a)
    BY <2>0, <2>3 DEF SetHoldDays
  <2> QED
    BY <2>1, <2>2, <2>3
<1>3. DaysFollowCredentials'
  BY <1>2, SMTT(40) DEF ConnectorsInv, ConnectorsTypeOK, DaysFollowCredentials, OpenAccount, SaveCredential, SetHoldDays
<1>4. UNCHANGED <<connectorClock, connector, connectorHealth, connectorJob, holdJob, activeAt>>
  BY DEF OpenAccount, SaveCredential, SetHoldDays, holdVars
<1>5. JobsKnowTheirConnector'
  <2> SUFFICES ASSUME NEW j \in ConnectorJobs, connectorJob[j] # NoJob
               PROVE  connectorJob[j].kind = "SYNC" => newestCredential'[connectorJob[j].account] > 0
    BY <1>4 DEF ConnectorsInv, JobsKnowTheirConnector
  <2> DEFINE b == connectorJob[j].account
  <2>1. b \in ProviderAccounts /\ (connectorJob[j].kind = "SYNC" => newestCredential[b] > 0)
    BY JobFacts
  <2>2. newestCredential'[b] \in Nat
    BY <1>1, <2>1 DEF ConnectorsTypeOK
  <2> HIDE DEF b
  <2>3. connectorJob[j].kind = "SYNC" => newestCredential'[b] > 0
    BY <1>2, <2>1, <2>2
  <2> QED
    BY <2>3 DEF b
<1> QED
  BY <1>1, <1>3, <1>4, <1>5 DEF ConnectorsInv, ModesAreRemembered, HealthIsOfTheMode, InActiveMode,
     HoldsAreJudgedInTime, DecidedInTime

LEMMA SetConnectorKeeps ==
  ASSUME ConnectorsInv, NEW a \in ProviderAccounts, NEW mode \in Modes, NEW on \in BOOLEAN,
         SetConnector(a, mode, on)
  PROVE  ConnectorsInv'
<1> USE ConnectorsAssumption DEF ConnectorsAssumption
<1>1. ConnectorsTypeOK'
  <2>1. providerAccount' \in [ProviderAccounts -> [scope: {"NONE", "PLATFORM", "TENANT"}, holdDays: BOOLEAN]]
    BY SMTT(40) DEF ConnectorsInv, ConnectorsTypeOK, SetConnector
  <2>2. connector' \in [ProviderAccounts -> [mode: Modes, enabled: BOOLEAN]]
    BY DEF ConnectorsInv, ConnectorsTypeOK, SetConnector
  <2>3. activeAt' \in [ProviderAccounts -> Nat \union {NeverYet}]
    BY DEF ConnectorsInv, ConnectorsTypeOK, SetConnector
  <2> QED
    BY <2>1, <2>2, <2>3 DEF ConnectorsInv, ConnectorsTypeOK, SetConnector, holdVars
<1>2. ASSUME NEW b \in ProviderAccounts
      PROVE  /\ activeAt[b] \in Nat \union {NeverYet} /\ activeAt'[b] \in Nat \union {NeverYet}
             /\ activeAt[b] <= activeAt'[b] /\ activeAt'[b] <= connectorClock
             /\ InActiveMode(connector'[b]) => activeAt'[b] = connectorClock
             /\ providerAccount'[b].holdDays = providerAccount[b].holdDays
  BY DEF ConnectorsInv, ConnectorsTypeOK, SetConnector, ModesAreRemembered, NeverYet, InActiveMode
<1>3. ModesAreRemembered'
  BY <1>2 DEF ModesAreRemembered, SetConnector
<1>4. DaysFollowCredentials'
  BY <1>2 DEF ConnectorsInv, DaysFollowCredentials, SetConnector
<1>5. JobsKnowTheirConnector'
  <2> SUFFICES ASSUME NEW j \in ConnectorJobs, connectorJob[j] # NoJob
               PROVE  connectorJob[j].mode = "ACTIVE" => connectorJob[j].since <= activeAt'[connectorJob[j].account]
    BY DEF ConnectorsInv, JobsKnowTheirConnector, SetConnector
  <2> DEFINE b == connectorJob[j].account
  <2>1. b \in ProviderAccounts /\ connectorJob[j].since \in Nat
        /\ (connectorJob[j].mode = "ACTIVE" => connectorJob[j].since <= activeAt[b])
    BY JobFacts
  <2> HIDE DEF b
  <2>2. connectorJob[j].mode = "ACTIVE" => connectorJob[j].since <= activeAt'[b]
    BY <2>1, <1>2 DEF NeverYet
  <2> QED
    BY <2>2 DEF b
<1>6. HealthIsOfTheMode'
  <2> SUFFICES ASSUME NEW b \in ProviderAccounts, connectorHealth[b].status = "ACTIVE"
               PROVE  activeAt'[b] >= 0 /\ connectorHealth[b].success <= activeAt'[b] + JobTime
    BY DEF HealthIsOfTheMode, SetConnector
  <2>1. activeAt[b] >= 0 /\ connectorHealth[b].success <= activeAt[b] + JobTime
    BY DEF ConnectorsInv, HealthIsOfTheMode
  <2>2. connectorHealth[b].success \in Nat \union {NeverYet}
    BY DEF ConnectorsInv, ConnectorsTypeOK
  <2> QED
    BY <1>2, <2>1, <2>2 DEF NeverYet
<1>7. HoldsAreJudgedInTime'
  <2> SUFFICES ASSUME NEW j \in ConnectorJobs, holdJob'[j] # NoJob
               PROVE  DecidedInTime(holdJob[j])'
    BY DEF HoldsAreJudgedInTime
  <2>1. holdJob'[j] = holdJob[j] /\ connectorClock' = connectorClock
    BY DEF SetConnector, holdVars
  <2>2. holdJob[j].since <= connectorClock /\ connectorClock <= holdJob[j].since + JobTime
    BY <2>1, HoldFacts DEF DecidedInTime
  <2> QED
    BY <1>2, <2>1, <2>2, DecisionsLast
<1> QED
  BY <1>1, <1>3, <1>4, <1>5, <1>6, <1>7 DEF ConnectorsInv

\* A job moves on, and the rest stays.
LEMMA OneJobKeeps ==
  ASSUME ConnectorsInv, NEW j \in ConnectorJobs, NEW job \in RunningJob \union {NoJob},
         connectorJob' = [connectorJob EXCEPT ![j] = job],
         job # NoJob =>
           /\ job.since <= connectorClock /\ connectorClock <= job.since + JobTime
           /\ job.kind = "SYNC" => newestCredential[job.account] > 0
           /\ job.kind = "SYNC" /\ job.at = "CALLS" => job.credential > 0
           /\ job.mode = "ACTIVE" => job.since <= activeAt[job.account],
         UNCHANGED <<connectorClock, newestCredential, activeAt>>
  PROVE  /\ connectorJob' \in [ConnectorJobs -> {NoJob} \union RunningJob]
         /\ JobsKnowTheirConnector'
<1>1. /\ connectorJob' \in [ConnectorJobs -> {NoJob} \union RunningJob]
      /\ connectorJob'[j] = job
      /\ \A i \in ConnectorJobs : i # j => connectorJob'[i] = connectorJob[i]
  BY DEF ConnectorsInv, ConnectorsTypeOK, RunningJob
<1>2. ASSUME NEW i \in ConnectorJobs, connectorJob'[i] # NoJob
      PROVE  /\ connectorJob'[i].since <= connectorClock'
             /\ connectorClock' <= connectorJob'[i].since + JobTime
             /\ connectorJob'[i].kind = "SYNC" => newestCredential'[connectorJob'[i].account] > 0
             /\ connectorJob'[i].kind = "SYNC" /\ connectorJob'[i].at = "CALLS" => connectorJob'[i].credential > 0
             /\ connectorJob'[i].mode = "ACTIVE" => connectorJob'[i].since <= activeAt'[connectorJob'[i].account]
  <2>1. CASE i = j
    BY <1>1, <1>2, <2>1
  <2>2. CASE i # j
    BY <1>1, <1>2, <2>2 DEF ConnectorsInv, JobsKnowTheirConnector
  <2> QED
    BY <2>1, <2>2
<1>3. JobsKnowTheirConnector'
  BY <1>2 DEF JobsKnowTheirConnector
<1> QED
  BY <1>1, <1>3

LEMMA JobStepKeeps ==
  ASSUME ConnectorsInv,
         /\ connectorJob' \in [ConnectorJobs -> {NoJob} \union RunningJob]
         /\ JobsKnowTheirConnector',
         UNCHANGED <<connectorClock, accountVars, connector, holdVars, activeAt>>,
         connectorHealth' \in [ProviderAccounts ->
           [status: Modes \union {"NONE", "DEGRADED"}, success: Nat \union {NeverYet}]],
         HealthIsOfTheMode'
  PROVE  ConnectorsInv'
<1>1. ConnectorsTypeOK'
  BY DEF ConnectorsInv, ConnectorsTypeOK, RunningJob, accountVars, holdVars
<1> QED
  BY <1>1 DEF ConnectorsInv, ModesAreRemembered, DaysFollowCredentials, InActiveMode, accountVars,
     holdVars, HoldsAreJudgedInTime, DecidedInTime

LEMMA StartJobKeeps ==
  ASSUME ConnectorsInv, NEW j \in ConnectorJobs, NEW kind \in {"HEALTH", "SYNC"}, NEW a \in ProviderAccounts,
         StartJob(j, kind, a)
  PROVE  ConnectorsInv'
<1> USE ConnectorsAssumption DEF ConnectorsAssumption
<1> DEFINE job == [at |-> "LISTED", kind |-> kind, account |-> a, mode |-> connector[a].mode,
                   credential |-> 0, since |-> connectorClock]
<1>1. connectorClock \in Nat /\ connector[a].mode \in Modes
  BY DEF ConnectorsInv, ConnectorsTypeOK
<1>2. /\ job \in RunningJob /\ job.since = connectorClock /\ job.kind = kind /\ job.account = a
      /\ job.mode = connector[a].mode /\ job.at = "LISTED"
  BY <1>1 DEF RunningJob
<1>3. kind = "SYNC" => newestCredential[a] > 0
  BY DEF StartJob, Listed, ConnectorsInv, DaysFollowCredentials
<1>4. connector[a].mode = "ACTIVE" => activeAt[a] = connectorClock
  BY DEF StartJob, Listed, ConnectorsInv, ModesAreRemembered, InActiveMode
<1>5. connectorJob' = [connectorJob EXCEPT ![j] = job]
  BY DEF StartJob
<1> HIDE DEF job
<1>6. connectorClock <= connectorClock + JobTime
  BY <1>1
<1>7. /\ connectorJob' \in [ConnectorJobs -> {NoJob} \union RunningJob]
      /\ JobsKnowTheirConnector'
  <2>1. UNCHANGED <<connectorClock, newestCredential, activeAt>>
    BY DEF StartJob, accountVars
  <2>2. /\ job.since <= connectorClock /\ connectorClock <= job.since + JobTime
        /\ job.kind = "SYNC" => newestCredential[job.account] > 0
        /\ job.kind = "SYNC" /\ job.at = "CALLS" => job.credential > 0
        /\ job.mode = "ACTIVE" => job.since <= activeAt[job.account]
    BY <1>1, <1>2, <1>3, <1>4, <1>6
  <2> QED
    BY <1>2, <1>5, <2>1, <2>2, OneJobKeeps
<1> QED
  BY <1>7, JobStepKeeps DEF StartJob, ConnectorsInv, ConnectorsTypeOK, HealthIsOfTheMode

LEMMA TakeCredentialKeeps ==
  ASSUME ConnectorsInv, NEW j \in ConnectorJobs, TakeCredential(j) PROVE ConnectorsInv'
<1> DEFINE a == connectorJob[j].account
           job == [connectorJob[j] EXCEPT !.at = "CALLS", !.credential = newestCredential[a]]
<1>1. connectorJob[j] # NoJob
  BY DEF TakeCredential, NoJob
<1>2. connectorJob[j] \in RunningJob /\ a \in ProviderAccounts /\ newestCredential[a] \in 0..MaxCredential
  BY <1>1, JobFacts DEF ConnectorsInv, ConnectorsTypeOK
<1>3. /\ job \in RunningJob /\ job.since = connectorJob[j].since /\ job.kind = connectorJob[j].kind
      /\ job.account = a /\ job.mode = connectorJob[j].mode /\ job.credential = newestCredential[a]
  BY <1>2 DEF RunningJob
<1>4. connectorJob' = [connectorJob EXCEPT ![j] = job]
  BY <1>2 DEF TakeCredential
<1> HIDE DEF job
<1>5. /\ connectorJob' \in [ConnectorJobs -> {NoJob} \union RunningJob]
      /\ JobsKnowTheirConnector'
  BY <1>1, <1>3, <1>4, JobFacts, OneJobKeeps DEF TakeCredential, accountVars
<1> QED
  BY <1>5, JobStepKeeps DEF TakeCredential, ConnectorsInv, ConnectorsTypeOK, HealthIsOfTheMode

LEMMA JobEndKeeps ==
  ASSUME ConnectorsInv, NEW j \in ConnectorJobs, JobEnds(j),
         UNCHANGED <<connectorClock, newestCredential, activeAt>>
  PROVE  /\ connectorJob' \in [ConnectorJobs -> {NoJob} \union RunningJob]
         /\ JobsKnowTheirConnector'
BY OneJobKeeps DEF JobEnds

LEMMA CallSucceedsKeeps ==
  ASSUME ConnectorsInv, NEW j \in ConnectorJobs, CallSucceeds(j) PROVE ConnectorsInv'
<1> USE ConnectorsAssumption DEF ConnectorsAssumption
<1> DEFINE a == connectorJob[j].account
           row == [status |-> connectorJob[j].mode, success |-> connectorClock]
<1>1. connectorJob[j] # NoJob
  BY DEF CallSucceeds, NoJob
<1>2. /\ a \in ProviderAccounts /\ connectorJob[j].mode \in Modes /\ connectorJob[j].since \in Nat
      /\ connectorClock <= connectorJob[j].since + JobTime
      /\ connectorJob[j].mode = "ACTIVE" => connectorJob[j].since <= activeAt[a]
  BY <1>1, JobFacts
<1>3. connectorHealth' = [connectorHealth EXCEPT ![a] = row] /\ JobEnds(j)
      /\ UNCHANGED <<connectorClock, accountVars, connector, holdVars, activeAt>>
  BY DEF CallSucceeds
<1> HIDE DEF a
<1>4. connectorClock \in Nat /\ activeAt[a] \in Nat \union {NeverYet}
  BY <1>2 DEF ConnectorsInv, ConnectorsTypeOK
<1>5. connectorHealth' \in [ProviderAccounts ->
        [status: Modes \union {"NONE", "DEGRADED"}, success: Nat \union {NeverYet}]]
  BY <1>2, <1>3, <1>4 DEF ConnectorsInv, ConnectorsTypeOK
<1>6. connectorJob[j].mode = "ACTIVE" => activeAt[a] >= 0 /\ connectorClock <= activeAt[a] + JobTime
  BY <1>2, <1>4 DEF NeverYet
<1>7. HealthIsOfTheMode'
  BY <1>2, <1>3, <1>6 DEF ConnectorsInv, ConnectorsTypeOK, HealthIsOfTheMode
<1> QED
  BY <1>3, <1>5, <1>7, JobEndKeeps, JobStepKeeps DEF ConnectorsInv, ConnectorsTypeOK, accountVars

LEMMA CallFailsKeeps ==
  ASSUME ConnectorsInv, NEW j \in ConnectorJobs, CallFails(j) PROVE ConnectorsInv'
<1> DEFINE a == connectorJob[j].account
<1>1. connectorJob[j] # NoJob
  BY DEF CallFails, NoJob
<1>2. a \in ProviderAccounts
  BY <1>1, JobFacts
<1>3. connectorHealth' = [connectorHealth EXCEPT ![a].status = "DEGRADED"] /\ JobEnds(j)
      /\ UNCHANGED <<connectorClock, accountVars, connector, holdVars, activeAt>>
  BY DEF CallFails
<1> HIDE DEF a
<1>4. connectorHealth' \in [ProviderAccounts ->
        [status: Modes \union {"NONE", "DEGRADED"}, success: Nat \union {NeverYet}]]
  <2>1. connectorHealth \in [ProviderAccounts ->
          [status: Modes \union {"NONE", "DEGRADED"}, success: Nat \union {NeverYet}]]
    BY DEF ConnectorsInv, ConnectorsTypeOK
  <2> QED
    BY <1>2, <1>3, <2>1
<1>5. HealthIsOfTheMode'
  BY <1>2, <1>3 DEF ConnectorsInv, ConnectorsTypeOK, HealthIsOfTheMode
<1> QED
  BY <1>3, <1>4, <1>5, JobEndKeeps, JobStepKeeps DEF ConnectorsInv, ConnectorsTypeOK, accountVars

LEMMA JobDiesKeeps ==
  ASSUME ConnectorsInv, NEW j \in ConnectorJobs, JobDies(j) PROVE ConnectorsInv'
BY JobEndKeeps, JobStepKeeps
   DEF JobDies, ConnectorsInv, ConnectorsTypeOK, HealthIsOfTheMode, accountVars

\* A hold job begins or ends, and the rest stays.
LEMMA HoldStepKeeps ==
  ASSUME ConnectorsInv, NEW j \in ConnectorJobs, NEW job \in JudgedHold \union {NoJob},
         holdJob' = [holdJob EXCEPT ![j] = job],
         job # NoJob => DecidedInTime(job),
         heldOrder' \in [ProviderAccounts -> {"HELD", "VALIDATED", "REVIEW"}],
         UNCHANGED <<connectorClock, accountVars, connector, connectorHealth, connectorJob, activeAt>>
  PROVE  ConnectorsInv'
<1>1. /\ holdJob' \in [ConnectorJobs -> {NoJob} \union JudgedHold]
      /\ holdJob'[j] = job
      /\ \A i \in ConnectorJobs : i # j => holdJob'[i] = holdJob[i]
  BY DEF ConnectorsInv, ConnectorsTypeOK, JudgedHold
<1>2. ConnectorsTypeOK'
  BY <1>1 DEF ConnectorsInv, ConnectorsTypeOK, JudgedHold, accountVars
<1>3. HoldsAreJudgedInTime'
  <2> SUFFICES ASSUME NEW i \in ConnectorJobs, holdJob'[i] # NoJob
               PROVE  DecidedInTime(holdJob[i])'
    BY DEF HoldsAreJudgedInTime
  <2>1. DecidedInTime(holdJob'[i])
    BY <1>1 DEF ConnectorsInv, HoldsAreJudgedInTime
  <2> QED
    BY <2>1 DEF DecidedInTime
<1> QED
  BY <1>2, <1>3 DEF ConnectorsInv, ModesAreRemembered, DaysFollowCredentials, JobsKnowTheirConnector,
     HealthIsOfTheMode, InActiveMode, accountVars

\* Who decides to validate has just seen a fresh success in the mode.
LEMMA JudgeHoldKeeps ==
  ASSUME ConnectorsInv, NEW j \in ConnectorJobs, NEW a \in ProviderAccounts, JudgeHold(j, a)
  PROVE  ConnectorsInv'
<1>1. PICK verdict \in {"VALIDATED", "REVIEW"} :
        /\ verdict = "VALIDATED" => Healthy(a)
        /\ holdJob' = [holdJob EXCEPT ![j] =
             [at |-> "JUDGED", account |-> a, verdict |-> verdict, since |-> connectorClock]]
  BY DEF JudgeHold
<1> DEFINE job == [at |-> "JUDGED", account |-> a, verdict |-> verdict, since |-> connectorClock]
<1>2. /\ connectorClock \in Nat /\ activeAt[a] \in Nat \union {NeverYet}
      /\ connectorHealth[a].success \in Nat \union {NeverYet}
      /\ Freshness \in Nat /\ JobTime \in Nat
  BY ConnectorsAssumption DEF ConnectorsAssumption, ConnectorsInv, ConnectorsTypeOK
<1>3. /\ job \in JudgedHold /\ job.account = a /\ job.verdict = verdict
      /\ job.since = connectorClock
  BY <1>2 DEF JudgedHold
<1>4. verdict = "VALIDATED" =>
        /\ activeAt[a] >= 0 /\ connectorHealth[a].success <= activeAt[a] + JobTime
        /\ connectorHealth[a].success >= connectorClock - Freshness
  BY <1>1 DEF Healthy, Fresh, ConnectorsInv, HealthIsOfTheMode
<1>5. verdict = "VALIDATED" =>
        activeAt[a] >= 0 /\ connectorClock <= activeAt[a] + Freshness + JobTime
  BY <1>2, <1>4 DEF NeverYet
<1>6. DecidedInTime(job)
  BY <1>2, <1>3, <1>5 DEF DecidedInTime
<1>7. heldOrder' \in [ProviderAccounts -> {"HELD", "VALIDATED", "REVIEW"}]
  BY DEF JudgeHold, ConnectorsInv, ConnectorsTypeOK
<1>8. holdJob' = [holdJob EXCEPT ![j] = job]
  BY <1>1
<1> HIDE DEF job
<1> QED
  BY <1>3, <1>6, <1>7, <1>8, HoldStepKeeps DEF JudgeHold

LEMMA HoldEndsKeeps ==
  ASSUME ConnectorsInv, NEW j \in ConnectorJobs, WriteHold(j) \/ LeaveHold(j)
  PROVE  ConnectorsInv'
<1>1. holdJob' = [holdJob EXCEPT ![j] = NoJob]
  BY DEF WriteHold, LeaveHold
<1>2. heldOrder' \in [ProviderAccounts -> {"HELD", "VALIDATED", "REVIEW"}]
  <2>1. CASE WriteHold(j)
    <3>1. holdJob[j].account \in ProviderAccounts /\ holdJob[j].verdict \in {"VALIDATED", "REVIEW"}
      BY <2>1, HoldFacts DEF WriteHold, JudgedHold
    <3> QED
      BY <2>1, <3>1 DEF WriteHold, ConnectorsInv, ConnectorsTypeOK
  <2>2. CASE LeaveHold(j)
    BY <2>2 DEF LeaveHold, ConnectorsInv, ConnectorsTypeOK
  <2> QED
    BY <2>1, <2>2
<1> QED
  BY <1>1, <1>2, HoldStepKeeps DEF WriteHold, LeaveHold

LEMMA ConnectorsStepInvariant == ConnectorsInv /\ [ConnectorsNext]_connectorsVars => ConnectorsInv'
<1> SUFFICES ASSUME ConnectorsInv, [ConnectorsNext]_connectorsVars PROVE ConnectorsInv'
  OBVIOUS
<1>1. CASE ConnectorsTick
  BY <1>1, ConnectorsTickKeeps
<1>2. ASSUME NEW a \in ProviderAccounts, OpenAccount(a) \/ SaveCredential(a) \/ SetHoldDays(a)
      PROVE  ConnectorsInv'
  BY <1>2, OwnerKeeps
<1>3. ASSUME NEW a \in ProviderAccounts, NEW mode \in Modes, NEW on \in BOOLEAN, SetConnector(a, mode, on)
      PROVE  ConnectorsInv'
  BY <1>3, SetConnectorKeeps
<1>4. ASSUME NEW a \in ProviderAccounts, NEW j \in ConnectorJobs, NEW kind \in {"HEALTH", "SYNC"},
             StartJob(j, kind, a)
      PROVE  ConnectorsInv'
  BY <1>4, StartJobKeeps
<1>5. ASSUME NEW j \in ConnectorJobs, TakeCredential(j) \/ CallSucceeds(j) \/ CallFails(j)
      PROVE  ConnectorsInv'
  BY <1>5, TakeCredentialKeeps, CallSucceedsKeeps, CallFailsKeeps
<1>6. ASSUME NEW j \in ConnectorJobs,
             JobDies(j) \/ WriteHold(j) \/ LeaveHold(j) \/ \E a \in ProviderAccounts : JudgeHold(j, a)
      PROVE  ConnectorsInv'
  BY <1>6, JobDiesKeeps, HoldEndsKeeps, JudgeHoldKeeps
<1>7. CASE UNCHANGED connectorsVars
  BY <1>7 DEF connectorsVars, ConnectorsInv, ConnectorsTypeOK, ModesAreRemembered, DaysFollowCredentials,
     JobsKnowTheirConnector, HealthIsOfTheMode, InActiveMode, HoldsAreJudgedInTime, DecidedInTime
<1> QED
  BY <1>1, <1>2, <1>3, <1>4, <1>5, <1>6, <1>7 DEF ConnectorsNext

LEMMA CredentialsAreTheirOwn == ConnectorsInv => SyncsUseTheirCredential
BY DEF ConnectorsInv, JobsKnowTheirConnector, SyncsUseTheirCredential

\* A hold is validated on a mode that is or was ACTIVE not long ago.
LEMMA ValidationNeedsTheMode ==
  ConnectorsInv /\ [ConnectorsNext]_connectorsVars =>
    [\A a \in ProviderAccounts :
       heldOrder[a] = "HELD" /\ heldOrder'[a] = "VALIDATED" =>
         WasActiveWithin(a, Freshness + 2 * JobTime)]_connectorsVars
<1> SUFFICES ASSUME ConnectorsInv, ConnectorsNext, NEW a \in ProviderAccounts,
                    heldOrder[a] = "HELD", heldOrder'[a] = "VALIDATED"
             PROVE  WasActiveWithin(a, Freshness + 2 * JobTime)
  OBVIOUS
<1>1. heldOrder' # heldOrder
  OBVIOUS
<1>2. PICK j \in ConnectorJobs : WriteHold(j)
  BY <1>1 DEF ConnectorsNext, ConnectorsTick, OpenAccount, SaveCredential, SetHoldDays, SetConnector,
     StartJob, TakeCredential, CallSucceeds, CallFails, JobDies, JudgeHold, LeaveHold, holdVars
<1>3. holdJob[j] # NoJob
  BY <1>2 DEF WriteHold
<1>4. holdJob[j].account = a /\ holdJob[j].verdict = "VALIDATED"
  BY <1>2 DEF WriteHold, ConnectorsInv, ConnectorsTypeOK
<1>5. /\ activeAt[a] >= 0 /\ holdJob[j].since <= activeAt[a] + Freshness + JobTime
      /\ connectorClock <= holdJob[j].since + JobTime /\ holdJob[j].since \in Nat
  BY <1>3, <1>4, HoldFacts DEF DecidedInTime
<1>6. /\ activeAt[a] \in Nat \union {NeverYet} /\ connectorClock \in Int
      /\ Freshness \in Nat /\ JobTime \in Nat
  BY ConnectorsAssumption DEF ConnectorsAssumption, ConnectorsInv, ConnectorsTypeOK
<1> QED
  BY <1>5, <1>6 DEF WasActiveWithin, NeverYet

\* A sync runs with the account's own credential, and a held order is validated only where
\* the connector was in mode ACTIVE no longer ago than a health check stays fresh, the job
\* that reported it lasts and the job that trusts it lasts, for any accounts, jobs and times
\* (runner.ts:485-530, conversions/service.ts:733-811).
THEOREM TrustIsNoOlderThanHealth == ConnectorsSpec => ConnectorsAreTrustedInTime
<1> QED
  BY ConnectorsInitInvariant, ConnectorsStepInvariant, CredentialsAreTheirOwn, ValidationNeedsTheMode, PTL
     DEF ConnectorsSpec, ConnectorsAreTrustedInTime, TrustFollowsTheMode

-----------------------------------------------------------------------------
(* Offers, for every market, page size, number of runs and time to live.   *)

\* What a page answered: some offers, and what they said.
Answers == UNION {[listed -> DealTexts] : listed \in SUBSET Deals}

AskingRun == [at : {"ASKS"}, since : Nat, page : Nat, tries : Nat]
StoringRun == [at : {"STORES"}, since : Nat, page : Nat, more : BOOLEAN, answer : Answers]

OffersKinds ==
  /\ shelf \in Shelves
  /\ offerClock \in Nat
  /\ market \in [Deals -> DealTexts \union {Withdrawn}]
  /\ lastSaid \in [Deals -> [DealTexts -> Int]]
  /\ snapshot \in [Deals -> [says : DealTexts \union {Withdrawn}, expires : Nat]]
  /\ offerRun \in [OfferRuns -> {NoOfferRun} \union AskingRun \union StoringRun]

\* What an offer says now, it says now.
MarketSaysSo ==
  \A d \in Deals : market[d] # Withdrawn => lastSaid[d][market[d]] = offerClock

\* No run lasts longer than it may.
OfferRunsAreBrief ==
  \A n \in OfferRuns : offerRun[n] # NoOfferRun =>
    offerRun[n].since <= offerClock /\ offerClock <= offerRun[n].since + OfferTime

\* What a run has yet to store, the network said since the run began.
AnswersAreOfTheRun ==
  \A n \in OfferRuns : offerRun[n].at = "STORES" =>
    \A d \in DOMAIN offerRun[n].answer : offerRun[n].since <= lastSaid[d][offerRun[n].answer[d]]

\* A row lives no longer than its offer's last word allows.
RowsEndInTime ==
  \A d \in Deals : snapshot[d] # NoSnapshot =>
    /\ snapshot[d].says \in DealTexts
    /\ lastSaid[d][snapshot[d].says] >= 0
    /\ snapshot[d].expires <= lastSaid[d][snapshot[d].says] + OfferTime + OfferLife

\* Nothing was said later than now.
WordsAreOfThePast ==
  \A d \in Deals : \A c \in DealTexts : lastSaid[d][c] <= offerClock

OffersInv ==
  OffersKinds /\ WordsAreOfThePast /\ MarketSaysSo /\ OfferRunsAreBrief /\ AnswersAreOfTheRun /\ RowsEndInTime

-----------------------------------------------------------------------------
LEMMA OfferRunForms ==
  /\ \A run \in AskingRun : run # NoOfferRun /\ run.at = "ASKS"
  /\ \A run \in StoringRun : run # NoOfferRun /\ run.at = "STORES"
  /\ NoOfferRun.at = "NO_RUN"
BY DEF AskingRun, StoringRun, NoOfferRun

LEMMA AnswerForms ==
  ASSUME NEW answer \in Answers
  PROVE  /\ DOMAIN answer \subseteq Deals
         /\ \A d \in DOMAIN answer : answer[d] \in DealTexts
BY DEF Answers

LEMMA OffersInitInvariant == OffersInit => OffersInv
<1> SUFFICES ASSUME OffersInit PROVE OffersInv
  OBVIOUS
<1>1. OffersKinds
  BY DEF OffersInit, OffersKinds, NoSnapshot, NeverSaid
<1>2. WordsAreOfThePast /\ MarketSaysSo /\ OfferRunsAreBrief /\ AnswersAreOfTheRun /\ RowsEndInTime
  BY OfferRunForms DEF OffersInit, NeverSaid, WordsAreOfThePast, MarketSaysSo, OfferRunsAreBrief, AnswersAreOfTheRun, RowsEndInTime
<1> QED
  BY <1>1, <1>2 DEF OffersInv

\* The network speaks on: nothing it said becomes older, and a run keeps its time.
LEMMA WordsKeep ==
  ASSUME OffersInv,
         offerClock' \in Nat, offerClock <= offerClock',
         lastSaid' \in [Deals -> [DealTexts -> Int]],
         \A d \in Deals : \A c \in DealTexts : lastSaid[d][c] <= lastSaid'[d][c],
         UNCHANGED <<offerRun, snapshot>>
  PROVE  AnswersAreOfTheRun' /\ RowsEndInTime'
<1> USE OffersAssumption DEF OffersAssumption
<1>1. AnswersAreOfTheRun'
  <2> SUFFICES ASSUME NEW n \in OfferRuns, offerRun[n].at = "STORES", NEW d \in DOMAIN offerRun[n].answer
               PROVE  offerRun[n].since <= lastSaid'[d][offerRun[n].answer[d]]
    BY DEF AnswersAreOfTheRun
  <2>1. offerRun[n] \in StoringRun
    BY OfferRunForms DEF OffersInv, OffersKinds
  <2>2. offerRun[n].since \in Nat /\ offerRun[n].answer \in Answers
    BY <2>1 DEF StoringRun
  <2>3. d \in Deals /\ offerRun[n].answer[d] \in DealTexts
    BY <2>2, AnswerForms
  <2>4. offerRun[n].since <= lastSaid[d][offerRun[n].answer[d]]
    BY DEF OffersInv, AnswersAreOfTheRun
  <2>5. /\ lastSaid[d][offerRun[n].answer[d]] \in Int
        /\ lastSaid'[d][offerRun[n].answer[d]] \in Int
    BY <2>3 DEF OffersInv, OffersKinds
  <2>6. lastSaid[d][offerRun[n].answer[d]] <= lastSaid'[d][offerRun[n].answer[d]]
    BY <2>3
  <2> QED
    BY <2>2, <2>4, <2>5, <2>6
<1>2. RowsEndInTime'
  <2> SUFFICES ASSUME NEW d \in Deals, snapshot[d] # NoSnapshot
               PROVE  /\ snapshot[d].says \in DealTexts
                      /\ lastSaid'[d][snapshot[d].says] >= 0
                      /\ snapshot[d].expires <= lastSaid'[d][snapshot[d].says] + OfferTime + OfferLife
    BY DEF RowsEndInTime
  <2>1. /\ snapshot[d].says \in DealTexts
        /\ lastSaid[d][snapshot[d].says] >= 0
        /\ snapshot[d].expires <= lastSaid[d][snapshot[d].says] + OfferTime + OfferLife
    BY DEF OffersInv, RowsEndInTime
  <2>2. /\ lastSaid[d][snapshot[d].says] \in Int
        /\ lastSaid'[d][snapshot[d].says] \in Int
        /\ snapshot[d].expires \in Nat
    BY <2>1 DEF OffersInv, OffersKinds
  <2> QED
    BY <2>1, <2>2
<1> QED
  BY <1>1, <1>2

LEMMA OffersTickKeeps ==
  ASSUME OffersInv, OffersTick PROVE OffersInv'
<1> USE OffersAssumption DEF OffersAssumption
<1>1. OffersKinds'
  BY DEF OffersInv, OffersKinds, OffersTick
<1>2. MarketSaysSo'
  BY <1>1 DEF OffersInv, OffersKinds, MarketSaysSo, OffersTick
<1>3. OfferRunsAreBrief'
  <2> SUFFICES ASSUME NEW n \in OfferRuns, offerRun[n] # NoOfferRun
               PROVE  offerRun[n].since <= offerClock' /\ offerClock' <= offerRun[n].since + OfferTime
    BY DEF OfferRunsAreBrief, OffersTick
  <2>1. offerRun[n].since \in Nat
    BY DEF OffersInv, OffersKinds, AskingRun, StoringRun
  <2> QED
    BY <2>1 DEF OffersInv, OffersKinds, OfferRunsAreBrief, OffersTick
<1>4. ASSUME NEW d \in Deals, NEW c \in DealTexts
      PROVE  lastSaid[d][c] <= lastSaid'[d][c]
  <2>1. lastSaid[d][c] \in Int /\ offerClock \in Nat
    BY DEF OffersInv, OffersKinds
  <2>2. lastSaid[d][c] <= offerClock
    BY DEF OffersInv, WordsAreOfThePast
  <2>3. lastSaid'[d][c] \in {lastSaid[d][c], offerClock + 1}
    BY DEF OffersTick
  <2> QED
    BY <2>1, <2>2, <2>3
<1>6. WordsAreOfThePast'
  BY <1>1 DEF OffersInv, OffersKinds, WordsAreOfThePast, OffersTick
<1>5. AnswersAreOfTheRun' /\ RowsEndInTime'
  BY <1>1, <1>4, WordsKeep DEF OffersInv, OffersKinds, OffersTick
<1> QED
  BY <1>1, <1>2, <1>3, <1>5, <1>6 DEF OffersInv

LEMMA MarketKeeps ==
  ASSUME OffersInv, NEW d \in Deals,
         OfferLeaves(d) \/ \E c \in DealTexts : OfferChanges(d, c)
  PROVE  OffersInv'
<1> USE OffersAssumption DEF OffersAssumption
<1>1. CASE OfferLeaves(d)
  <2>1. OffersKinds'
    BY <1>1 DEF OffersInv, OffersKinds, OfferLeaves
  <2>2. MarketSaysSo'
    BY <1>1 DEF OffersInv, OffersKinds, MarketSaysSo, OfferLeaves
  <2>3. WordsAreOfThePast' /\ OfferRunsAreBrief' /\ AnswersAreOfTheRun' /\ RowsEndInTime'
    BY <1>1 DEF OffersInv, WordsAreOfThePast, OfferRunsAreBrief, AnswersAreOfTheRun, RowsEndInTime, OfferLeaves
  <2> QED
    BY <2>1, <2>2, <2>3 DEF OffersInv
<1>2. ASSUME NEW c \in DealTexts, OfferChanges(d, c)
      PROVE  OffersInv'
  <2>1. OffersKinds'
    BY <1>2 DEF OffersInv, OffersKinds, OfferChanges
  <2>2. MarketSaysSo'
    BY <1>2 DEF OffersInv, OffersKinds, MarketSaysSo, OfferChanges
  <2>3. OfferRunsAreBrief'
    BY <1>2 DEF OffersInv, OfferRunsAreBrief, OfferChanges
  <2>4. ASSUME NEW e \in Deals, NEW t \in DealTexts
        PROVE  lastSaid[e][t] <= lastSaid'[e][t]
    BY <1>2, <2>1 DEF OffersInv, OffersKinds, WordsAreOfThePast, OfferChanges
  <2>5. AnswersAreOfTheRun' /\ RowsEndInTime'
    BY <1>2, <2>1, <2>4, WordsKeep DEF OffersInv, OffersKinds, OfferChanges
  <2>6. WordsAreOfThePast'
    BY <1>2, <2>1 DEF OffersInv, OffersKinds, WordsAreOfThePast, OfferChanges
  <2> QED
    BY <2>1, <2>2, <2>3, <2>5, <2>6 DEF OffersInv
<1> QED
  BY <1>1, <1>2

\* A run takes a step: the network and the rows are as they were.
LEMMA OneOfferRunKeeps ==
  ASSUME OffersInv, NEW n \in OfferRuns, NEW run \in {NoOfferRun} \union AskingRun \union StoringRun,
         offerRun' = [offerRun EXCEPT ![n] = run],
         run # NoOfferRun => run.since <= offerClock /\ offerClock <= run.since + OfferTime,
         run.at = "STORES" =>
           \A d \in DOMAIN run.answer : run.since <= lastSaid[d][run.answer[d]],
         UNCHANGED <<shelf, offerClock, market, lastSaid>>
  PROVE  /\ offerRun' \in [OfferRuns -> {NoOfferRun} \union AskingRun \union StoringRun]
         /\ OfferRunsAreBrief' /\ AnswersAreOfTheRun'
<1>1. /\ offerRun' \in [OfferRuns -> {NoOfferRun} \union AskingRun \union StoringRun]
      /\ offerRun'[n] = run
      /\ \A m \in OfferRuns : m # n => offerRun'[m] = offerRun[m]
  BY DEF OffersInv, OffersKinds
<1>2. OfferRunsAreBrief'
  BY <1>1 DEF OffersInv, OfferRunsAreBrief
<1>3. AnswersAreOfTheRun'
  <2> SUFFICES ASSUME NEW m \in OfferRuns, offerRun'[m].at = "STORES", NEW d \in DOMAIN offerRun'[m].answer
               PROVE  offerRun'[m].since <= lastSaid[d][offerRun'[m].answer[d]]
    BY DEF AnswersAreOfTheRun
  <2>1. CASE m = n
    BY <1>1, <2>1
  <2>2. CASE m # n
    BY <1>1, <2>2 DEF OffersInv, AnswersAreOfTheRun
  <2> QED
    BY <2>1, <2>2
<1> QED
  BY <1>1, <1>2, <1>3

LEMMA QuietRunKeeps ==
  ASSUME OffersInv, NEW n \in OfferRuns, NEW run \in {NoOfferRun} \union AskingRun \union StoringRun,
         offerRun' = [offerRun EXCEPT ![n] = run],
         run # NoOfferRun => run.since <= offerClock /\ offerClock <= run.since + OfferTime,
         run.at = "STORES" =>
           \A d \in DOMAIN run.answer : run.since <= lastSaid[d][run.answer[d]],
         UNCHANGED <<shelf, offerClock, market, lastSaid, snapshot>>
  PROVE  OffersInv'
<1>1. /\ offerRun' \in [OfferRuns -> {NoOfferRun} \union AskingRun \union StoringRun]
      /\ OfferRunsAreBrief' /\ AnswersAreOfTheRun'
  BY OneOfferRunKeeps
<1> QED
  BY <1>1 DEF OffersInv, OffersKinds, WordsAreOfThePast, MarketSaysSo, RowsEndInTime

LEMMA OfferRunFacts ==
  ASSUME OffersInv, NEW n \in OfferRuns
  PROVE  /\ offerRun[n] \in {NoOfferRun} \union AskingRun \union StoringRun
         /\ offerRun[n].at = "ASKS" => offerRun[n] \in AskingRun
         /\ offerRun[n].at = "STORES" => offerRun[n] \in StoringRun
         /\ offerRun[n] # NoOfferRun =>
              offerRun[n].since <= offerClock /\ offerClock <= offerRun[n].since + OfferTime
         /\ offerRun[n].at \in {"ASKS", "STORES"} => offerRun[n] # NoOfferRun
BY OfferRunForms DEF OffersInv, OffersKinds, OfferRunsAreBrief

\* What a page answers is on offer.
LEMMA AnsweredIsOnOffer ==
  ASSUME NEW k \in Nat
  PROVE  Answered(k) \subseteq OnOffer
BY DEF Answered, AccessTradePage, AddLiveTagPage, NoOffers, OffersOfPage

LEMMA StartOffersKeeps ==
  ASSUME OffersInv, NEW n \in OfferRuns, StartOffers(n) PROVE OffersInv'
<1> DEFINE run == [at |-> "ASKS", since |-> offerClock, page |-> 1, tries |-> 1]
<1>1. run \in AskingRun /\ run.since = offerClock /\ run.at = "ASKS"
  BY DEF AskingRun, OffersInv, OffersKinds
<1>2. offerRun' = [offerRun EXCEPT ![n] = run] /\ UNCHANGED <<shelf, offerClock, market, lastSaid, snapshot>>
  BY DEF StartOffers
<1>3. offerClock <= offerClock /\ offerClock <= offerClock + OfferTime
  BY OffersAssumption DEF OffersAssumption, OffersInv, OffersKinds
<1> HIDE DEF run
<1> QED
  BY <1>1, <1>2, <1>3, QuietRunKeeps

LEMMA TryAgainKeeps ==
  ASSUME OffersInv, NEW n \in OfferRuns, TryAgain(n) PROVE OffersInv'
<1> DEFINE run == [offerRun[n] EXCEPT !.tries = offerRun[n].tries + 1]
<1>1. offerRun[n] \in AskingRun /\ offerRun[n] # NoOfferRun
  BY OfferRunFacts DEF TryAgain
<1>2. run \in AskingRun /\ run.since = offerRun[n].since /\ run.at = "ASKS"
  BY <1>1 DEF AskingRun
<1>3. offerRun' = [offerRun EXCEPT ![n] = run] /\ UNCHANGED <<shelf, offerClock, market, lastSaid, snapshot>>
  BY <1>1 DEF TryAgain
<1> HIDE DEF run
<1> QED
  BY <1>1, <1>2, <1>3, QuietRunKeeps, OfferRunFacts

LEMMA ReadOffersKeeps ==
  ASSUME OffersInv, NEW n \in OfferRuns, ReadOffers(n) PROVE OffersInv'
<1>1. offerRun[n] \in AskingRun /\ offerRun[n] # NoOfferRun
  BY OfferRunFacts DEF ReadOffers
<1>2. PICK more \in NextPages(offerRun[n].page) :
        offerRun' = [offerRun EXCEPT ![n] =
          [at |-> "STORES", since |-> offerRun[n].since, page |-> offerRun[n].page, more |-> more,
           answer |-> [d \in Answered(offerRun[n].page) |-> market[d]]]]
  BY DEF ReadOffers
<1> DEFINE answer == [d \in Answered(offerRun[n].page) |-> market[d]]
           run == [at |-> "STORES", since |-> offerRun[n].since, page |-> offerRun[n].page,
                   more |-> more, answer |-> answer]
<1>3. offerRun[n].page \in Nat /\ offerRun[n].since \in Nat
  BY <1>1 DEF AskingRun
<1>4. Answered(offerRun[n].page) \subseteq OnOffer
  BY <1>3, AnsweredIsOnOffer
<1>5. more \in BOOLEAN
  BY <1>2 DEF NextPages
<1>6. ASSUME NEW d \in DOMAIN answer
      PROVE  d \in Deals /\ answer[d] = market[d] /\ market[d] \in DealTexts
             /\ offerRun[n].since <= lastSaid[d][answer[d]]
  <2>1. d \in Deals /\ market[d] # Withdrawn /\ answer[d] = market[d]
    BY <1>4 DEF OnOffer
  <2>2. market[d] \in DealTexts /\ lastSaid[d][market[d]] = offerClock
    BY <2>1 DEF OffersInv, OffersKinds, MarketSaysSo
  <2>3. offerRun[n].since <= offerClock
    BY <1>1 DEF OffersInv, OfferRunsAreBrief
  <2> QED
    BY <2>1, <2>2, <2>3
<1>7. answer \in Answers
  <2>1. DOMAIN answer \in SUBSET Deals /\ answer \in [DOMAIN answer -> DealTexts]
    BY <1>6
  <2> QED
    BY <2>1 DEF Answers
<1> HIDE DEF answer
<1>8. run \in StoringRun /\ run.since = offerRun[n].since /\ run.answer = answer
  BY <1>3, <1>5, <1>7 DEF StoringRun
<1>9. offerRun' = [offerRun EXCEPT ![n] = run] /\ UNCHANGED <<shelf, offerClock, market, lastSaid, snapshot>>
  BY <1>2 DEF ReadOffers, answer
<1> HIDE DEF run
<1> QED
  BY <1>1, <1>6, <1>8, <1>9, QuietRunKeeps, OfferRunFacts

LEMMA TurnPageKeeps ==
  ASSUME OffersInv, NEW n \in OfferRuns, TurnPage(n) PROVE OffersInv'
<1> DEFINE run == IF offerRun[n].more /\ offerRun[n].page < MaxOfferPages
                  THEN [at |-> "ASKS", since |-> offerRun[n].since, page |-> offerRun[n].page + 1, tries |-> 1]
                  ELSE NoOfferRun
<1>1. offerRun[n] \in StoringRun /\ offerRun[n] # NoOfferRun
  BY OfferRunFacts DEF TurnPage
<1>2. \/ run = NoOfferRun
      \/ run \in AskingRun /\ run.since = offerRun[n].since
  BY <1>1 DEF AskingRun, StoringRun
<1>3. offerRun' = [offerRun EXCEPT ![n] = run] /\ UNCHANGED <<shelf, offerClock, market, lastSaid, snapshot>>
  BY DEF TurnPage
<1> HIDE DEF run
<1> QED
  BY <1>1, <1>2, <1>3, QuietRunKeeps, OfferRunFacts, OfferRunForms

LEMMA OffersFailKeeps ==
  ASSUME OffersInv, NEW n \in OfferRuns, OffersFail(n) PROVE OffersInv'
BY QuietRunKeeps, OfferRunForms DEF OffersFail

LEMMA StoreOfferKeeps ==
  ASSUME OffersInv, NEW n \in OfferRuns, StoreOffer(n) PROVE OffersInv'
<1> USE OffersAssumption DEF OffersAssumption
<1>1. offerRun[n] \in StoringRun /\ offerRun[n] # NoOfferRun
  BY OfferRunFacts DEF StoreOffer
<1>2. PICK d \in DOMAIN offerRun[n].answer :
        /\ snapshot' = [snapshot EXCEPT ![d] = Snapshot(offerRun[n].answer[d])]
        /\ offerRun' = [offerRun EXCEPT ![n].answer =
             [e \in DOMAIN offerRun[n].answer \ {d} |-> offerRun[n].answer[e]]]
  BY DEF StoreOffer
<1> DEFINE rest == [e \in DOMAIN offerRun[n].answer \ {d} |-> offerRun[n].answer[e]]
           run == [offerRun[n] EXCEPT !.answer = rest]
           words == offerRun[n].answer[d]
<1>3. /\ offerRun[n].answer \in Answers
      /\ DOMAIN offerRun[n].answer \subseteq Deals
      /\ \A e \in DOMAIN offerRun[n].answer :
           /\ offerRun[n].answer[e] \in DealTexts
           /\ offerRun[n].since <= lastSaid[e][offerRun[n].answer[e]]
  BY <1>1, AnswerForms DEF StoringRun, OffersInv, AnswersAreOfTheRun, StoreOffer
<1>4. rest \in Answers
  <2>1. DOMAIN rest \in SUBSET Deals /\ rest \in [DOMAIN rest -> DealTexts]
    BY <1>3
  <2> QED
    BY <2>1 DEF Answers
<1>5. \A e \in DOMAIN rest : rest[e] = offerRun[n].answer[e] /\ e \in DOMAIN offerRun[n].answer
  OBVIOUS
<1>6. d \in Deals /\ words \in DealTexts /\ offerRun[n].since <= lastSaid[d][words]
  BY <1>3
<1> HIDE DEF rest
<1>7. run \in StoringRun /\ run.since = offerRun[n].since /\ run.answer = rest
  BY <1>1, <1>4 DEF StoringRun
<1>8. offerRun' = [offerRun EXCEPT ![n] = run] /\ UNCHANGED <<shelf, offerClock, market, lastSaid>>
  BY <1>2 DEF StoreOffer, rest
<1> HIDE DEF run, words
<1>9. /\ offerRun' \in [OfferRuns -> {NoOfferRun} \union AskingRun \union StoringRun]
      /\ OfferRunsAreBrief' /\ AnswersAreOfTheRun'
  BY <1>1, <1>3, <1>5, <1>7, <1>8, OneOfferRunKeeps, OfferRunFacts
<1>10. /\ offerClock \in Nat /\ offerRun[n].since \in Nat /\ lastSaid[d][words] \in Int
       /\ offerClock <= offerRun[n].since + OfferTime
  BY <1>1, <1>6, OfferRunFacts DEF OffersInv, OffersKinds, StoringRun
<1>11. snapshot' = [snapshot EXCEPT ![d] = [says |-> words, expires |-> offerClock + OfferLife]]
  BY <1>2 DEF Snapshot, words
<1>12. offerClock + OfferLife <= lastSaid[d][words] + OfferTime + OfferLife /\ lastSaid[d][words] >= 0
  BY <1>6, <1>10
<1>13. snapshot' \in [Deals -> [says : DealTexts \union {Withdrawn}, expires : Nat]]
  BY <1>6, <1>10, <1>11 DEF OffersInv, OffersKinds
<1>14. RowsEndInTime'
  <2> SUFFICES ASSUME NEW e \in Deals, snapshot'[e] # NoSnapshot
               PROVE  /\ snapshot'[e].says \in DealTexts
                      /\ lastSaid[e][snapshot'[e].says] >= 0
                      /\ snapshot'[e].expires <= lastSaid[e][snapshot'[e].says] + OfferTime + OfferLife
    BY <1>8 DEF RowsEndInTime
  <2>1. CASE e = d
    <3>1. snapshot'[e].says = words /\ snapshot'[e].expires = offerClock + OfferLife
      BY <1>11, <2>1 DEF OffersInv, OffersKinds
    <3> QED
      BY <1>6, <1>12, <2>1, <3>1
  <2>2. CASE e # d
    BY <1>11, <2>2 DEF OffersInv, OffersKinds, RowsEndInTime
  <2> QED
    BY <2>1, <2>2
<1> QED
  BY <1>8, <1>9, <1>13, <1>14 DEF OffersInv, OffersKinds, WordsAreOfThePast, MarketSaysSo

LEMMA OffersStepInvariant == OffersInv /\ [OffersNext]_offersVars => OffersInv'
<1> SUFFICES ASSUME OffersInv, [OffersNext]_offersVars PROVE OffersInv'
  OBVIOUS
<1>1. CASE OffersTick
  BY <1>1, OffersTickKeeps
<1>2. CASE \E d \in Deals : OfferLeaves(d) \/ \E c \in DealTexts : OfferChanges(d, c)
  BY <1>2, MarketKeeps
<1>3. ASSUME NEW n \in OfferRuns,
             StartOffers(n) \/ TryAgain(n) \/ ReadOffers(n) \/ StoreOffer(n) \/ TurnPage(n) \/ OffersFail(n)
      PROVE  OffersInv'
  BY <1>3, StartOffersKeeps, TryAgainKeeps, ReadOffersKeeps, StoreOfferKeeps, TurnPageKeeps, OffersFailKeeps
<1>4. CASE UNCHANGED offersVars
  BY <1>4 DEF offersVars, OffersInv, OffersKinds, WordsAreOfThePast, MarketSaysSo, OfferRunsAreBrief,
     AnswersAreOfTheRun, RowsEndInTime
<1> QED
  BY <1>1, <1>2, <1>3, <1>4 DEF OffersNext

LEMMA OffersInvariantIsEnough == OffersInv => DealsAreCurrent
<1> SUFFICES ASSUME OffersInv, NEW d \in Deals, OnThePage(d)
             PROVE  SaidWithin(d, snapshot[d].says, OfferLife + OfferTime)
  BY DEF DealsAreCurrent
<1>1. /\ snapshot[d].says \in DealTexts
      /\ lastSaid[d][snapshot[d].says] >= 0
      /\ snapshot[d].expires <= lastSaid[d][snapshot[d].says] + OfferTime + OfferLife
      /\ offerClock < snapshot[d].expires
  BY DEF OffersInv, RowsEndInTime, OnThePage, Live
<1>2. lastSaid[d][snapshot[d].says] \in Int /\ offerClock \in Nat /\ snapshot[d].expires \in Nat
  BY <1>1 DEF OffersInv, OffersKinds
<1> QED
  BY <1>1, <1>2, OffersAssumption DEF SaidWithin, NeverSaid, OffersAssumption

\* What the public pages show of an offer, the network did say, no longer ago than a snapshot
\* lives and a run lasts, for any offers, pages and numbers of runs (runner.ts:541-580).
THEOREM ShownOffersAreCurrent == OffersSpec => []DealsAreCurrent
<1> QED
  BY OffersInitInvariant, OffersStepInvariant, OffersInvariantIsEnough, PTL DEF OffersSpec

\* Connectors are trusted, and their offers shown, no longer than they are fresh,
\* whatever each set of jobs does.
THEOREM ProvidersStayTrustedInTime ==
  ConnectorsSpec /\ OffersSpec => ProvidersAreTrustedInTime
BY TrustIsNoOlderThanHealth, ShownOffersAreCurrent, PTL DEF ProvidersAreTrustedInTime

-----------------------------------------------------------------------------
(* OrderImport, for any files, rows and uploads.                           *)

AllRows == UNION {FileRows[f] : f \in Files}

RowsJob == [at : {"ROWS"}, file : Files, todo : SUBSET AllRows, row : AllRows \cup {NoRow},
            found : BOOLEAN, accepted : Nat, duplicates : Nat, quarantined : Nat]

UploadStates ==
  {Waiting} \cup [at : {"STORED", "CHECKED", "REFUSED"}, file : Files]
    \cup [at : {"ANSWERED"}, file : Files, as : {NoImport, "RUNNING"} \cup Outcomes]
    \cup [at : {"CLOSED"}, file : Files, as : Outcomes]
    \cup [at : {"DEAD"}, file : Files, opened : BOOLEAN]
    \cup RowsJob

\* An upload that has quarantined nothing has left no row out but the ones still to
\* do, and a row it found is known.
RowsAreDone(job) ==
  /\ job.quarantined = 0 => FileRows[job.file] \ job.todo \subseteq orders
  /\ job.row # NoRow => job.row \in job.todo
  /\ job.row # NoRow /\ job.found => job.row \in orders

\* What an upload has behind it, at its step.
Sound(u, job) ==
  /\ job.at = "STORED" => u \in stored
  /\ job.at \in {"CHECKED", "ROWS", "CLOSED"} => u \in evidence
  /\ job.at = "ROWS" => RowsAreDone(job)
  /\ job.at = "CLOSED" =>
       IF job.as = "SUCCEEDED" THEN FileRows[job.file] \subseteq orders
       ELSE importCase[u] # "NONE"

ImportInv ==
  /\ ImportTypeOK
  /\ EvidenceIsIntact
  /\ \A u \in Uploads : upload[u] \in UploadStates /\ Sound(u, upload[u])
  /\ upload = [u \in Uploads |-> upload[u]]

-----------------------------------------------------------------------------
\* Which state an upload is in tells its step, and its step the state.
LEMMA UploadForms ==
  ASSUME NEW job \in UploadStates
  PROVE  /\ job.at = "ROWS" => job \in RowsJob
         /\ job.at = "CLOSED" => job \in [at : {"CLOSED"}, file : Files, as : Outcomes]
         /\ job.at \in {"STORED", "CHECKED"} => job.file \in Files
         /\ job.at \in {"WAITING", "STORED", "CHECKED", "ANSWERED", "REFUSED", "ROWS", "CLOSED", "DEAD"}
BY DEF UploadStates, Waiting, RowsJob

\* Nothing is imported at first.
LEMMA ImportInitInvariant == ImportInit => ImportInv
BY DEF ImportInit, ImportInv, ImportTypeOK, EvidenceIsIntact, UploadStates, Sound, Waiting

\* Conversions, objects, evidence and cases stay, so that what was so of an upload
\* that did not move is so.
LEMMA SoundStays ==
  ASSUME NEW u, NEW job, Sound(u, job), orders \subseteq orders', stored \subseteq stored',
         evidence \subseteq evidence', importCase[u] # "NONE" => importCase'[u] # "NONE"
  PROVE  Sound(u, job)'
BY DEF Sound, RowsAreDone

\* One upload moves to a state that is sound, and the rest keeps what it has.
LEMMA OneUploadKeeps ==
  ASSUME ImportInv, NEW u \in Uploads, NEW job \in UploadStates,
         upload' = [upload EXCEPT ![u] = job], Sound(u, job)',
         tenantImport' \in [Files -> {NoImport, "RUNNING"} \cup Outcomes],
         orders \subseteq orders', orders' \subseteq AllRows, stored \subseteq stored',
         stored' \subseteq Uploads, evidence \subseteq evidence', evidence' \subseteq stored',
         importCase' \in [Uploads -> {"NONE", "OPEN", "RESOLVED"}],
         \A v \in Uploads \ {u} : importCase'[v] = importCase[v]
  PROVE  ImportInv'
<1>1. upload' = [v \in Uploads |-> upload'[v]]
  BY DEF ImportInv
<1>2. ASSUME NEW v \in Uploads
      PROVE  upload'[v] \in UploadStates /\ Sound(v, upload[v])'
  <2>1. CASE v = u
    <3>1. upload'[v] = job
      BY <2>1 DEF ImportInv
    <3> QED
      BY <2>1, <3>1 DEF Sound, RowsAreDone
  <2>2. CASE v # u
    <3>1. upload'[v] = upload[v] /\ upload[v] \in UploadStates /\ Sound(v, upload[v])
      BY <2>2 DEF ImportInv
    <3>2. ASSUME NEW old, old = upload[v], Sound(v, old)
          PROVE  Sound(v, old)'
      BY <2>2, <3>2, SoundStays
    <3>3. \A old : old = upload[v] => Sound(v, old)'
      BY <3>1, <3>2
    <3> QED
      BY <3>1, <3>3 DEF Sound, RowsAreDone
  <2> QED
    BY <2>1, <2>2
<1>3. ImportTypeOK'
  BY <1>2, UploadForms DEF ImportTypeOK, AllRows
<1> QED
  BY <1>1, <1>2, <1>3 DEF ImportInv, EvidenceIsIntact

\* The parser's rows are rows of the file, and no row is left out where nothing is.
LEMMA ParsedRows ==
  ASSUME NEW f \in Files
  PROVE  /\ PayableRows(f) \subseteq FileRows[f]
         /\ Cardinality(FileRows[f] \ PayableRows(f)) \in Nat
         /\ Cardinality(FileRows[f] \ PayableRows(f)) = 0 => FileRows[f] \subseteq PayableRows(f)
<1>1. PayableRows(f) \subseteq FileRows[f]
  BY DEF PayableRows
<1>2. IsFiniteSet(FileRows[f] \ PayableRows(f))
  BY ImportAssumption, FS_Difference
<1> QED
  BY <1>1, <1>2, FS_CardinalityType, FS_EmptySet

\* An import that has begun with its rows has to do all it was given.
LEMMA RunningIsSound ==
  ASSUME ImportInv, NEW u \in Uploads, NEW f \in Files, u \in evidence
  PROVE  Running(f) \in UploadStates /\ Sound(u, Running(f))
<1> DEFINE n == Cardinality(FileRows[f] \ PayableRows(f))
<1>1. PayableRows(f) \subseteq FileRows[f] /\ n \in Nat /\ (n = 0 => FileRows[f] \subseteq PayableRows(f))
  BY ParsedRows
<1> HIDE DEF n
<1>2. Running(f) = [at |-> "ROWS", file |-> f, todo |-> PayableRows(f), row |-> NoRow,
                    found |-> FALSE, accepted |-> 0, duplicates |-> 0, quarantined |-> n]
  BY DEF Running, n
<1>3. FileRows[f] \subseteq AllRows
  BY DEF AllRows
<1>4. Running(f) \in RowsJob
  BY <1>1, <1>2, <1>3 DEF RowsJob
<1>5. Sound(u, Running(f))
  BY <1>1, <1>2 DEF Sound, RowsAreDone
<1> QED
  BY <1>4, <1>5 DEF UploadStates

\* An upload's facts, from the invariant.
LEMMA UploadFacts ==
  ASSUME ImportInv, NEW u \in Uploads
  PROVE  /\ upload[u] \in UploadStates
         /\ upload[u].at = "ROWS" => upload[u] \in RowsJob /\ RowsAreDone(upload[u]) /\ u \in evidence
         /\ upload[u].at \in {"STORED", "CHECKED"} => upload[u].file \in Files
         /\ upload[u].at = "STORED" => u \in stored
         /\ upload[u].at = "CHECKED" => u \in evidence
BY UploadForms DEF ImportInv, Sound

LEMMA ReceiveKeeps ==
  ASSUME ImportInv, NEW u \in Uploads, NEW f \in Files, ReceiveFile(u, f)
  PROVE  ImportInv'
<1>1. PICK job \in {[at |-> "STORED", file |-> f], [at |-> "REFUSED", file |-> f]} :
        upload' = [upload EXCEPT ![u] = job] /\ (job.at = "STORED" => u \in stored')
  BY DEF ReceiveFile, PutObject
<1>2. job \in UploadStates /\ Sound(u, job)'
  BY <1>1 DEF UploadStates, Sound
<1>3. stored \subseteq stored' /\ stored' \subseteq Uploads
  BY DEF ReceiveFile, PutObject, ImportInv, ImportTypeOK
<1> QED
  BY <1>1, <1>2, <1>3, OneUploadKeeps
  DEF ReceiveFile, ImportInv, ImportTypeOK, EvidenceIsIntact, AllRows

LEMMA RecordKeeps ==
  ASSUME ImportInv, NEW u \in Uploads, RecordEvidence(u)
  PROVE  ImportInv'
<1> DEFINE f == upload[u].file
           job == IF Replayed(f) THEN [at |-> "ANSWERED", file |-> f, as |-> tenantImport[f]]
                  ELSE [at |-> "CHECKED", file |-> f]
<1>1. f \in Files /\ u \in stored
  BY UploadFacts DEF RecordEvidence
<1>2. tenantImport[f] \in {NoImport, "RUNNING"} \cup Outcomes
  BY <1>1 DEF ImportInv, ImportTypeOK
<1>3. evidence' = evidence \cup {u} /\ upload' = [upload EXCEPT ![u] = job]
  BY DEF RecordEvidence
<1>4. job \in UploadStates
  BY <1>1, <1>2 DEF UploadStates
<1>5. \A new : new \in {[at |-> "ANSWERED", file |-> f, as |-> tenantImport[f]],
                        [at |-> "CHECKED", file |-> f]} => Sound(u, new)'
  BY <1>3 DEF Sound
<1>6. \E new : new = job /\ new \in UploadStates /\ upload' = [upload EXCEPT ![u] = new] /\ Sound(u, new)'
  BY <1>3, <1>4, <1>5
<1>7. evidence \subseteq evidence' /\ evidence' \subseteq stored'
  BY <1>1, <1>3 DEF RecordEvidence, ImportInv, EvidenceIsIntact
<1> QED
  BY <1>6, <1>7, OneUploadKeeps DEF RecordEvidence, ImportInv, ImportTypeOK, AllRows

\* Steps that write an upload, and perhaps the import of its tenant, and nothing else.
LEMMA QuietUploadKeeps ==
  ASSUME ImportInv, NEW u \in Uploads, NEW job \in UploadStates, Sound(u, job),
         upload' = [upload EXCEPT ![u] = job],
         tenantImport' \in [Files -> {NoImport, "RUNNING"} \cup Outcomes],
         UNCHANGED <<orders, importCase, evidenceVars>>
  PROVE  ImportInv'
<1>1. Sound(u, job)'
  BY DEF Sound, RowsAreDone, evidenceVars
<1> QED
  BY <1>1, OneUploadKeeps DEF ImportInv, ImportTypeOK, EvidenceIsIntact, AllRows, evidenceVars

LEMMA OpenKeeps ==
  ASSUME ImportInv, NEW u \in Uploads, RefuseFile(u) \/ OpenImport(u) \/ OpenDeskImport(u)
  PROVE  ImportInv'
<1> DEFINE f == upload[u].file
           refused == [at |-> "REFUSED", file |-> f]
<1>1. f \in Files /\ u \in evidence
  BY UploadFacts DEF RefuseFile, OpenImport, OpenDeskImport
<1>2. Running(f) \in UploadStates /\ Sound(u, Running(f))
  BY <1>1, RunningIsSound
<1>3. refused \in UploadStates /\ Sound(u, refused)
  BY <1>1 DEF UploadStates, Sound
<1>4. tenantImport' \in [Files -> {NoImport, "RUNNING"} \cup Outcomes]
  BY <1>1 DEF ImportInv, ImportTypeOK, RefuseFile, OpenImport, OpenDeskImport
<1>5. upload' = [upload EXCEPT ![u] = Running(f)] \/ upload' = [upload EXCEPT ![u] = refused]
  BY DEF RefuseFile, OpenImport, OpenDeskImport
<1>6. UNCHANGED <<orders, importCase, evidenceVars>>
  BY DEF RefuseFile, OpenImport, OpenDeskImport
<1> HIDE DEF f, refused
<1> QED
  BY <1>2, <1>3, <1>4, <1>5, <1>6, QuietUploadKeeps

LEMMA LookUpKeeps ==
  ASSUME ImportInv, NEW u \in Uploads, NEW r, LookUpRow(u, r)
  PROVE  ImportInv'
<1> DEFINE old == upload[u]
<1>1. old \in RowsJob /\ RowsAreDone(old) /\ u \in evidence /\ r \in old.todo
  BY UploadFacts DEF LookUpRow
<1>2. r \in AllRows
  BY <1>1 DEF RowsJob
<1>3. ASSUME NEW b \in BOOLEAN, b => r \in orders,
             upload' = [upload EXCEPT ![u] = [old EXCEPT !.row = r, !.found = b]]
      PROVE  ImportInv'
  <2>1. PICK job : /\ job = [old EXCEPT !.row = r, !.found = b]
                   /\ upload' = [upload EXCEPT ![u] = job]
    BY <1>3
  <2> HIDE DEF old
  <2>2. /\ job \in RowsJob
        /\ job.at = "ROWS" /\ job.file = old.file /\ job.todo = old.todo
        /\ job.row = r /\ job.found = b /\ job.quarantined = old.quarantined
    <3>1. old \in RowsJob
      BY <1>1
    <3>2. b \in BOOLEAN
      OBVIOUS
    <3>3. job = [old EXCEPT !.row = r, !.found = b]
      BY <2>1
    <3> QED
      BY ONLY <3>1, <3>2, <3>3, <1>2 DEF RowsJob
  <2>3. Sound(u, job)
    BY <1>1, <1>3, <2>2 DEF Sound, RowsAreDone
  <2> QED
    BY <2>1, <2>2, <2>3, QuietUploadKeeps DEF LookUpRow, ImportInv, ImportTypeOK, UploadStates
<1>4. upload' = [upload EXCEPT ![u] = [old EXCEPT !.row = r, !.found = (r \in orders)]]
  BY DEF LookUpRow, ImportInv
<1>5. CASE r \in orders
  <2>1. (r \in orders) = TRUE
    BY <1>5
  <2>2. upload' = [upload EXCEPT ![u] = [old EXCEPT !.row = r, !.found = TRUE]]
    BY <1>4, <2>1, Zenon
  <2> QED
    BY <1>3, <1>5, <2>2
<1>6. CASE r \notin orders
  <2>1. (r \in orders) = FALSE
    BY <1>6
  <2>2. upload' = [upload EXCEPT ![u] = [old EXCEPT !.row = r, !.found = FALSE]]
    BY <1>4, <2>1, Zenon
  <2> QED
    BY <1>3, <2>2
<1> QED
  BY <1>5, <1>6

LEMMA DieKeepsImport ==
  ASSUME ImportInv, NEW u \in Uploads, ImportDies(u)
  PROVE  ImportInv'
<1> DEFINE job == [at |-> "DEAD", file |-> upload[u].file, opened |-> upload[u].at = "ROWS"]
<1>1. upload[u].file \in Files
  BY UploadFacts DEF ImportDies, RowsJob
<1>2. job \in UploadStates /\ Sound(u, job)
  BY <1>1 DEF UploadStates, Sound
<1> QED
  BY <1>2, QuietUploadKeeps DEF ImportDies, ImportInv, ImportTypeOK

LEMMA ResolveCaseKeeps ==
  ASSUME ImportInv, NEW u \in Uploads, ResolveImportCase(u)
  PROVE  ImportInv'
<1>1. importCase' \in [Uploads -> {"NONE", "OPEN", "RESOLVED"}]
  BY DEF ImportInv, ImportTypeOK, ResolveImportCase
<1>2. \A v \in Uploads : importCase[v] # "NONE" => importCase'[v] # "NONE"
  BY DEF ImportInv, ImportTypeOK, ResolveImportCase
<1>3. ASSUME NEW v \in Uploads, NEW job, job = upload[v], Sound(v, job)
      PROVE  Sound(v, job)'
  BY <1>2, <1>3, SoundStays DEF ResolveImportCase, evidenceVars
<1>4. \A v \in Uploads : Sound(v, upload[v])'
  <2> SUFFICES ASSUME NEW v \in Uploads
               PROVE  Sound(v, upload[v])'
    OBVIOUS
  <2>1. \A job : job = upload[v] => Sound(v, job)'
    BY <1>3 DEF ImportInv
  <2> QED
    BY <2>1 DEF Sound, RowsAreDone, ResolveImportCase
<1> QED
  BY <1>1, <1>4 DEF ImportInv, ImportTypeOK, EvidenceIsIntact, ResolveImportCase, evidenceVars

\* A row that was written or found, or was quarantined and counted so, is accounted for.
LEMMA DoneKeeps ==
  ASSUME ImportInv, NEW u \in Uploads, NEW column \in {"accepted", "duplicates", "quarantined"},
         upload[u].at = "ROWS", upload[u].row # NoRow, RowDone(u, column),
         orders \subseteq orders', orders' \subseteq AllRows,
         column = "quarantined" \/ upload[u].row \in orders',
         UNCHANGED <<tenantImport, importCase, evidenceVars>>
  PROVE  ImportInv'
<1> DEFINE old == upload[u]
<1>1. old \in RowsJob /\ RowsAreDone(old) /\ u \in evidence
  BY UploadFacts
<1>2. PICK job : /\ upload' = [upload EXCEPT ![u] = job]
                 /\ \/ job = [old EXCEPT !.todo = @ \ {old.row}, !.row = NoRow, !.found = FALSE, !.accepted = @ + 1]
                       /\ column = "accepted"
                    \/ job = [old EXCEPT !.todo = @ \ {old.row}, !.row = NoRow, !.found = FALSE, !.duplicates = @ + 1]
                       /\ column = "duplicates"
                    \/ job = [old EXCEPT !.todo = @ \ {old.row}, !.row = NoRow, !.found = FALSE, !.quarantined = @ + 1]
                       /\ column = "quarantined"
  <2>1. CASE column = "accepted"
    BY <2>1 DEF RowDone, ImportInv
  <2>2. CASE column = "duplicates"
    BY <2>2 DEF RowDone, ImportInv
  <2>3. CASE column = "quarantined"
    BY <2>3 DEF RowDone, ImportInv
  <2> QED
    BY <2>1, <2>2, <2>3
<1>3. old.row # NoRow
  OBVIOUS
<1> HIDE DEF old
<1>4. /\ job \in RowsJob
      /\ job.at = "ROWS" /\ job.file = old.file /\ job.todo = old.todo \ {old.row}
      /\ job.row = NoRow /\ old.quarantined \in Nat
      /\ job.quarantined = IF column = "quarantined" THEN old.quarantined + 1 ELSE old.quarantined
  <2>1. old \in RowsJob
    BY <1>1
  <2>2. CASE column = "accepted"
    <3>1. PICK rest, count : rest = old.todo \ {old.row} /\ count = old.accepted + 1
      OBVIOUS
    <3>2. job = [old EXCEPT !.todo = rest, !.row = NoRow, !.found = FALSE, !.accepted = count]
      BY <1>2, <2>2, <3>1, Zenon
    <3>3. rest \in SUBSET AllRows /\ count \in Nat /\ old.quarantined \in Nat
      BY <2>1, <3>1 DEF RowsJob
    <3>4. /\ job \in RowsJob /\ job.at = "ROWS" /\ job.file = old.file /\ job.todo = rest
          /\ job.row = NoRow /\ job.quarantined = old.quarantined
      BY ONLY <2>1, <3>2, <3>3 DEF RowsJob
    <3> QED
      BY <2>2, <3>1, <3>3, <3>4
  <2>3. CASE column = "duplicates"
    <3>1. PICK rest, count : rest = old.todo \ {old.row} /\ count = old.duplicates + 1
      OBVIOUS
    <3>2. job = [old EXCEPT !.todo = rest, !.row = NoRow, !.found = FALSE, !.duplicates = count]
      BY <1>2, <2>3, <3>1, Zenon
    <3>3. rest \in SUBSET AllRows /\ count \in Nat /\ old.quarantined \in Nat
      BY <2>1, <3>1 DEF RowsJob
    <3>4. /\ job \in RowsJob /\ job.at = "ROWS" /\ job.file = old.file /\ job.todo = rest
          /\ job.row = NoRow /\ job.quarantined = old.quarantined
      BY ONLY <2>1, <3>2, <3>3 DEF RowsJob
    <3> QED
      BY <2>3, <3>1, <3>3, <3>4
  <2>4. CASE column = "quarantined"
    <3>1. PICK rest, count : rest = old.todo \ {old.row} /\ count = old.quarantined + 1
      OBVIOUS
    <3>2. job = [old EXCEPT !.todo = rest, !.row = NoRow, !.found = FALSE, !.quarantined = count]
      BY <1>2, <2>4, <3>1, Zenon
    <3>3. rest \in SUBSET AllRows /\ count \in Nat /\ old.quarantined \in Nat
      BY <2>1, <3>1 DEF RowsJob
    <3>4. /\ job \in RowsJob /\ job.at = "ROWS" /\ job.file = old.file /\ job.todo = rest
          /\ job.row = NoRow /\ job.quarantined = count
      BY ONLY <2>1, <3>2, <3>3 DEF RowsJob
    <3> QED
      BY <2>4, <3>1, <3>3, <3>4
  <2> QED
    BY <2>2, <2>3, <2>4
<1>5. old.row \in old.todo
  BY <1>1, <1>3 DEF RowsAreDone
<1>6. column = "quarantined" \/ old.row \in orders'
  BY DEF old
<1>7. job.quarantined = 0 => FileRows[job.file] \ job.todo \subseteq orders'
  <2> SUFFICES ASSUME job.quarantined = 0, NEW r \in FileRows[job.file], r \notin job.todo
               PROVE  r \in orders'
    OBVIOUS
  <2>1. column # "quarantined" /\ old.quarantined = 0
    BY <1>4
  <2>2. FileRows[old.file] \ old.todo \subseteq orders
    BY <1>1, <2>1 DEF RowsAreDone
  <2> QED
    BY <1>4, <1>6, <2>1, <2>2
<1>8. Sound(u, job)'
  BY <1>1, <1>4, <1>7 DEF Sound, RowsAreDone, evidenceVars
<1> QED
  BY <1>2, <1>4, <1>8, OneUploadKeeps
  DEF ImportInv, ImportTypeOK, EvidenceIsIntact, UploadStates, evidenceVars

LEMMA WriteRowKeeps ==
  ASSUME ImportInv, NEW u \in Uploads, WriteRow(u) \/ QuarantineRow(u)
  PROVE  ImportInv'
<1>1. /\ upload[u].at = "ROWS" /\ upload[u].row # NoRow
      /\ UNCHANGED <<tenantImport, importCase, evidenceVars>>
  BY DEF WriteRow, QuarantineRow
<1>2. upload[u] \in RowsJob /\ RowsAreDone(upload[u])
  BY <1>1, UploadFacts
<1>3. orders \subseteq AllRows /\ upload[u].row \in AllRows
  BY <1>1, <1>2 DEF ImportInv, ImportTypeOK, AllRows, RowsJob
<1>4. CASE QuarantineRow(u)
  BY <1>1, <1>3, <1>4, DoneKeeps DEF QuarantineRow
<1>5. CASE upload[u].found /\ RowDone(u, "duplicates") /\ UNCHANGED orders
  <2>1. upload[u].row \in orders
    BY <1>1, <1>2, <1>5 DEF RowsAreDone
  <2> QED
    BY <1>1, <1>3, <1>5, <2>1, DoneKeeps
<1>6. CASE RowDone(u, "accepted") /\ orders' = orders \cup {upload[u].row}
  BY <1>1, <1>3, <1>6, DoneKeeps
<1> QED
  BY <1>4, <1>5, <1>6 DEF WriteRow

LEMMA CloseKeeps ==
  ASSUME ImportInv, NEW u \in Uploads, CloseImport(u) \/ CloseDeskImport(u)
  PROVE  ImportInv'
<1> DEFINE old == upload[u]
<1>1. PICK job : /\ job = [at |-> "CLOSED", file |-> old.file, as |-> ImportStatus(old)]
                 /\ upload' = [upload EXCEPT ![u] = job]
  BY DEF CloseImport, CloseDeskImport
<1>2. /\ old.at = "ROWS" /\ old.row = NoRow /\ old.todo = {}
      /\ importCase' = [importCase EXCEPT ![u] = CaseOf(old)]
      /\ UNCHANGED <<orders, evidenceVars>>
  BY DEF CloseImport, CloseDeskImport
<1>3. old \in RowsJob /\ RowsAreDone(old) /\ u \in evidence
  BY <1>2, UploadFacts
<1>4. tenantImport' \in [Files -> {NoImport, "RUNNING"} \cup Outcomes]
  BY <1>3 DEF ImportInv, ImportTypeOK, CloseImport, CloseDeskImport, ImportStatus, Outcomes
<1>5. job \in UploadStates
  BY <1>1, <1>3 DEF UploadStates, RowsJob, ImportStatus, Outcomes
<1>6. importCase' \in [Uploads -> {"NONE", "OPEN", "RESOLVED"}] /\ importCase'[u] = CaseOf(old)
        /\ \A v \in Uploads \ {u} : importCase'[v] = importCase[v]
  BY <1>2 DEF ImportInv, ImportTypeOK, CaseOf
<1>7. old.quarantined \in Nat
  BY <1>3 DEF RowsJob
<1>8. old.quarantined = 0 => FileRows[old.file] \subseteq orders
  BY <1>2, <1>3 DEF RowsAreDone
<1>9. job.as = "SUCCEEDED" => old.quarantined = 0
  BY <1>1 DEF ImportStatus
<1>10. job.as # "SUCCEEDED" => CaseOf(old) # "NONE"
  BY <1>1, <1>7 DEF ImportStatus, CaseOf
<1>11. job.at = "CLOSED" /\ job.file = old.file
  BY <1>1
<1>12. Sound(u, job)'
  BY <1>2, <1>3, <1>6, <1>8, <1>9, <1>10, <1>11 DEF Sound, evidenceVars
<1> HIDE DEF old
<1> QED
  BY <1>1, <1>2, <1>4, <1>5, <1>6, <1>12, OneUploadKeeps
  DEF ImportInv, ImportTypeOK, EvidenceIsIntact, AllRows, evidenceVars

LEMMA ImportStepInvariant == ImportInv /\ [ImportNext]_importVars => ImportInv'
<1> SUFFICES ASSUME ImportInv, [ImportNext]_importVars
             PROVE  ImportInv'
  OBVIOUS
<1>1. CASE UNCHANGED importVars
  BY <1>1 DEF importVars, ImportInv, ImportTypeOK, EvidenceIsIntact, Sound, RowsAreDone
<1>2. ASSUME NEW u \in Uploads,
             \/ \E f \in Files : ReceiveFile(u, f)
             \/ RecordEvidence(u) \/ RefuseFile(u) \/ OpenImport(u) \/ OpenDeskImport(u)
             \/ \E r \in UNION {FileRows[f] : f \in Files} : LookUpRow(u, r)
             \/ WriteRow(u) \/ QuarantineRow(u)
             \/ CloseImport(u) \/ CloseDeskImport(u) \/ ImportDies(u) \/ ResolveImportCase(u)
      PROVE  ImportInv'
  <2>1. CASE \E f \in Files : ReceiveFile(u, f)
    BY <2>1, ReceiveKeeps
  <2>2. CASE RecordEvidence(u)
    BY <2>2, RecordKeeps
  <2>3. CASE RefuseFile(u) \/ OpenImport(u) \/ OpenDeskImport(u)
    BY <2>3, OpenKeeps
  <2>4. CASE \E r \in UNION {FileRows[f] : f \in Files} : LookUpRow(u, r)
    BY <2>4, LookUpKeeps
  <2>5. CASE WriteRow(u) \/ QuarantineRow(u)
    BY <2>5, WriteRowKeeps
  <2>6. CASE CloseImport(u) \/ CloseDeskImport(u)
    BY <2>6, CloseKeeps
  <2>7. CASE ImportDies(u)
    BY <2>7, DieKeepsImport
  <2>8. CASE ResolveImportCase(u)
    BY <2>8, ResolveCaseKeeps
  <2> QED
    BY <1>2, <2>1, <2>2, <2>3, <2>4, <2>5, <2>6, <2>7, <2>8
<1> QED
  BY <1>1, <1>2 DEF ImportNext

\* A closed upload has its evidence, its rows or its case.
LEMMA ImportInvariantIsEnough == ImportInv => ImportsTellTheTruth
<1> SUFFICES ASSUME ImportInv, NEW u \in Uploads, upload[u].at = "CLOSED"
             PROVE  /\ u \in evidence
                    /\ upload[u].as = "SUCCEEDED" => FileRows[upload[u].file] \subseteq orders
                    /\ ~(FileRows[upload[u].file] \subseteq orders) => importCase[u] # "NONE"
  BY DEF ImportsTellTheTruth, ImportInv
<1> QED
  BY DEF ImportInv, Sound

\* What an import says of its file is so, for any files and rows, however uploads of
\* the same orders overlap, are killed and are repeated (imports/shopee-orders.ts:297-551).
THEOREM ImportsStayTruthful == ImportSpec => []ImportsTellTheTruth
<1>1. ImportSpec => []ImportInv
  BY ImportInitInvariant, ImportStepInvariant, PTL DEF ImportSpec
<1> QED
  BY <1>1, ImportInvariantIsEnough, PTL

-----------------------------------------------------------------------------
(* ProviderSync, for any rows, runs, lag, overlap and size of a page. What *)
(* an order puts before a row numbers the rows, and pages divide the       *)
(* numbers.                                                                *)

\* How many members of S the order lt puts before r.
RankOf(S, lt, r) == Cardinality({q \in S : <<q, r>> \in lt})

StrictOrder(S, lt) ==
  /\ \A x, y \in S : <<x, y>> \in lt => <<y, x>> \notin lt
  /\ \A x, y, z \in S : <<x, y>> \in lt /\ <<y, z>> \in lt => <<x, z>> \in lt
  /\ \A x, y \in S : x = y \/ <<x, y>> \in lt \/ <<y, x>> \in lt

\* Ranks number a finite set from 0, without a gap.
LEMMA RanksNumber ==
  ASSUME NEW S, IsFiniteSet(S), NEW lt, StrictOrder(S, lt)
  PROVE  /\ Cardinality(S) \in Nat
         /\ \A r \in S : RankOf(S, lt, r) \in 0..(Cardinality(S) - 1)
         /\ [r \in S |-> RankOf(S, lt, r)] \in Bijection(S, 0..(Cardinality(S) - 1))
<1> DEFINE below(r) == {q \in S : <<q, r>> \in lt}
           n == Cardinality(S)
           f == [r \in S |-> RankOf(S, lt, r)]
<1>0. n \in Nat
  BY FS_CardinalityType
<1>1. \A r \in S : IsFiniteSet(below(r)) /\ Cardinality(below(r)) \in Nat
  BY FS_Subset, FS_CardinalityType
<1>2. ASSUME NEW x \in S, NEW y \in S, <<x, y>> \in lt
      PROVE  RankOf(S, lt, x) < RankOf(S, lt, y)
  <2>1. below(x) \cup {x} \subseteq below(y) /\ x \notin below(x)
    BY <1>2 DEF StrictOrder
  <2>2. Cardinality(below(x) \cup {x}) = Cardinality(below(x)) + 1
    BY <1>1, <2>1, FS_AddElement
  <2>3. Cardinality(below(x) \cup {x}) <= Cardinality(below(y))
    BY <1>1, <2>1, FS_Subset
  <2> QED
    BY <1>1, <2>2, <2>3 DEF RankOf
<1>3. ASSUME NEW r \in S PROVE RankOf(S, lt, r) \in 0..(n - 1)
  <2>1. below(r) \subseteq S \ {r}
    BY DEF StrictOrder
  <2>2. IsFiniteSet(S \ {r}) /\ Cardinality(S \ {r}) = n - 1
    BY FS_RemoveElement
  <2>3. Cardinality(below(r)) <= Cardinality(S \ {r})
    BY <2>1, <2>2, FS_Subset
  <2> QED
    BY <1>0, <1>1, <2>2, <2>3 DEF RankOf
<1>4. f \in Injection(S, 0..(n - 1))
  <2>1. \A r \in S : f[r] = RankOf(S, lt, r)
    OBVIOUS
  <2>2. f \in [S -> 0..(n - 1)]
    BY <1>3
  <2>3. ASSUME NEW x \in S, NEW y \in S, f[x] = f[y] PROVE x = y
    <3>1. ~(<<x, y>> \in lt) /\ ~(<<y, x>> \in lt)
      BY <1>0, <1>2, <1>3, <2>1, <2>3
    <3> QED
      BY <3>1 DEF StrictOrder
  <2> QED
    BY <2>2, <2>3 DEF Injection, IsInjective
<1>5. IsFiniteSet(0..(n - 1)) /\ Cardinality(0..(n - 1)) = n
  BY <1>0, 0 \in Int, n - 1 \in Int, FS_Interval
<1>6. f \in Surjection(S, 0..(n - 1))
  BY <1>4, <1>5, FS_Injection
<1> QED
  BY <1>0, <1>3, <1>4, <1>6 DEF Bijection

-----------------------------------------------------------------------------
\* The quotient by a page's size, by products.
LEMMA Quotients ==
  ASSUME NEW d \in Nat \ {0}, NEW i \in Nat
  PROVE  /\ i \div d \in Nat
         /\ \A m \in Nat : i \div d = m <=> m * d <= i /\ i < (m + 1) * d
         /\ \A m \in Nat : i \div d >= m <=> i >= m * d
<1>1. i \div d \in Nat
  BY Z3
<1>2. ASSUME NEW m \in Nat PROVE i \div d = m <=> m * d <= i /\ i < (m + 1) * d
  BY Z3
<1>3. ASSUME NEW m \in Nat PROVE i \div d >= m <=> i >= m * d
  BY Z3
<1> QED
  BY <1>1, <1>2, <1>3

\* Where one page ends and the next begins.
LEMMA Blocks ==
  ASSUME NEW d \in Nat \ {0}, NEW k \in Nat \ {0}
  PROVE  (k - 1) * d \in Nat /\ k * d = (k - 1) * d + d
BY Z3

\* The k-th page of numbered rows is full when a row lies behind it, and nothing lies
\* behind a page at or after the last number.
LEMMA PagesDivide ==
  ASSUME NEW S, IsFiniteSet(S), NEW lt, StrictOrder(S, lt), NEW d \in Nat \ {0},
         NEW k \in Nat \ {0}, NEW r \in S, RankOf(S, lt, r) \div d >= k
  PROVE  LET page == {q \in S : RankOf(S, lt, q) \div d = k - 1}
         IN  Cardinality(page) >= d /\ Cardinality(S) > k * d
<1> DEFINE n == Cardinality(S)
           f == [q \in S |-> RankOf(S, lt, q)]
           page == {q \in S : RankOf(S, lt, q) \div d = k - 1}
           from == (k - 1) * d
           block == from..(from + d - 1)
           g == [q \in page |-> f[q]]
<1>1. /\ n \in Nat
      /\ \A q \in S : f[q] = RankOf(S, lt, q) /\ f[q] \in 0..(n - 1)
      /\ f \in Surjection(S, 0..(n - 1))
  BY RanksNumber DEF Bijection
<1>2. from \in Nat /\ k * d = from + d /\ k - 1 \in Nat
  BY Blocks
<1> HIDE DEF f, from, n
<1>3. f[r] >= k * d
  BY <1>1, Quotients
<1>4. n > k * d /\ block \subseteq 0..(n - 1)
  BY <1>1, <1>2, <1>3
<1>5. \A q \in S : q \in page <=> f[q] \in block
  <2> SUFFICES ASSUME NEW q \in S PROVE q \in page <=> f[q] \in block
    OBVIOUS
  <2>1. f[q] \in Nat /\ f[q] = RankOf(S, lt, q)
    BY <1>1
  <2>2. f[q] \div d = k - 1 <=> (k - 1) * d <= f[q] /\ f[q] < (k - 1 + 1) * d
    BY <1>2, <2>1, Quotients
  <2>3. (k - 1 + 1) * d = from + d
    BY <1>2
  <2> QED
    BY <1>2, <2>1, <2>2, <2>3 DEF from
<1>6. g \in Surjection(page, block)
  <2>1. g \in [page -> block]
    BY <1>5
  <2>2. ASSUME NEW i \in block PROVE \E q \in page : g[q] = i
    <3>1. PICK q \in S : f[q] = i
      BY <1>1, <1>4 DEF Surjection
    <3> QED
      BY <1>5, <3>1
  <2> QED
    BY <2>1, <2>2 DEF Surjection
<1>7. IsFiniteSet(page)
  BY FS_Subset
<1>8. Cardinality(block) <= Cardinality(page)
  <2> HIDE DEF block, page, g
  <2> QED
    BY <1>6, <1>7, FS_Surjection
<1>9. Cardinality(block) = d
  BY <1>2, FS_Interval
<1> QED
  BY <1>4, <1>7, <1>8, <1>9, FS_CardinalityType DEF n

\* Pages that are covered up to the k-th one: a page that is empty or not full, or that
\* reaches the number of rows, covers everything.
LEMMA LastPageCovers ==
  ASSUME NEW S, IsFiniteSet(S), NEW lt, StrictOrder(S, lt), NEW d \in Nat \ {0},
         NEW k \in Nat \ {0},
         \/ Cardinality({q \in S : RankOf(S, lt, q) \div d = k - 1}) < d
         \/ {q \in S : RankOf(S, lt, q) \div d = k - 1} = {}
         \/ k * d >= Cardinality(S)
  PROVE  \A r \in S : RankOf(S, lt, r) \div d < k
<1> DEFINE page == {q \in S : RankOf(S, lt, q) \div d = k - 1}
<1>1. ASSUME NEW r \in S PROVE RankOf(S, lt, r) \div d \in Nat
  <2>1. Cardinality(S) \in Nat /\ RankOf(S, lt, r) \in 0..(Cardinality(S) - 1)
    BY RanksNumber
  <2> QED
    BY <2>1, Quotients
<1>2. IsFiniteSet(page) /\ Cardinality(page) \in Nat /\ Cardinality(S) \in Nat /\ k * d \in Nat
  BY FS_Subset, FS_CardinalityType, Blocks
<1>3. page = {} => Cardinality(page) < d
  BY FS_EmptySet
<1>4. ASSUME NEW r \in S, ~(RankOf(S, lt, r) \div d < k) PROVE FALSE
  <2>1. RankOf(S, lt, r) \div d >= k
    BY <1>1, <1>4
  <2>2. Cardinality(page) >= d /\ Cardinality(S) > k * d
    BY <2>1, PagesDivide
  <2> QED
    BY <1>2, <1>3, <2>2
<1> QED
  BY <1>4

-----------------------------------------------------------------------------
(* The order list: what a round has covered, page by page.                 *)

LessThan == {x \in Nat \X Nat : x[1] < x[2]}

LEMMA OrdersAreNumbered ==
  ASSUME NEW list \in SUBSET Rows
  PROVE  /\ IsFiniteSet(list) /\ StrictOrder(list, LessThan)
         /\ \A r \in list : /\ RankOf(list, LessThan, r) \div PageSize \in Nat
                            /\ PageNumber(list, r) = RankOf(list, LessThan, r) \div PageSize + 1
<1>1. list \subseteq Nat /\ IsFiniteSet(list)
  BY RowsArePaged, FS_Subset
<1>2. StrictOrder(list, LessThan)
  BY <1>1 DEF StrictOrder, LessThan
<1>3. \A r \in list : {q \in list : q < r} = {q \in list : <<q, r>> \in LessThan}
  BY <1>1 DEF LessThan
<1>4. ASSUME NEW r \in list PROVE RankOf(list, LessThan, r) \div PageSize \in Nat
  <2>1. Cardinality(list) \in Nat /\ RankOf(list, LessThan, r) \in 0..(Cardinality(list) - 1)
    BY <1>1, <1>2, RanksNumber
  <2> QED
    BY <2>1, RowsArePaged, Quotients
<1> QED
  BY <1>1, <1>2, <1>3, <1>4 DEF PageNumber, RankOf

\* No order stands at an empty page, or behind it.
LEMMA NothingBehindAnEmptyPage ==
  ASSUME NEW list \in SUBSET Rows, NEW k \in Nat \ {0}, OrderPage(list, k) = {}
  PROVE  \A r \in list : PageNumber(list, r) \in Nat \ {0} /\ PageNumber(list, r) < k
<1>1. /\ IsFiniteSet(list) /\ StrictOrder(list, LessThan)
      /\ \A r \in list : /\ RankOf(list, LessThan, r) \div PageSize \in Nat
                         /\ PageNumber(list, r) = RankOf(list, LessThan, r) \div PageSize + 1
  BY OrdersAreNumbered
<1>2. \A r \in list : PageNumber(list, r) # k
  BY DEF OrderPage
<1>3. \A r \in list : RankOf(list, LessThan, r) \div PageSize # k - 1
  BY <1>1, <1>2
<1>4. {r \in list : RankOf(list, LessThan, r) \div PageSize = k - 1} = {}
  BY <1>3
<1>5. \A r \in list : RankOf(list, LessThan, r) \div PageSize < k
  BY <1>1, <1>4, RowsArePaged, LastPageCovers
<1> QED
  BY <1>1, <1>3, <1>5

OrderRun == [at : {"ORDERS", "NEXT"}, page : Nat \ {0}, from : Int, until : Int,
             empty : BOOLEAN, fresh : BOOLEAN]

StandsOn(r, p) == \A list \in lists : r \in list /\ PageNumber(list, r) = p

\* What a run of this round vouches for: the pages before its own and, once it is read,
\* its own.
Vouches(run, p) == p < run.page \/ (run.at = "NEXT" /\ p = run.page)

FreshRun(n) == orderRun[n] # NoRun /\ orderRun[n].fresh

\* An order that stands on one page in every list of the round has been checked when that
\* page lies behind the cursor or behind a run that belongs to the round.
RoundIsKept ==
  \A r \in Rows, p \in Nat \ {0} : StandsOn(r, p) =>
    /\ p < orderCursor => r \in checked
    /\ \A n \in SyncRuns : FreshRun(n) /\ Vouches(orderRun[n], p) => r \in checked

OrdersInv ==
  /\ orderCursor \in Nat \ {0}
  /\ orderRun \in [SyncRuns -> OrderRun \cup {NoRun}]
  /\ lists \in SUBSET SUBSET Rows
  /\ overtaken \in BOOLEAN
  /\ ~overtaken => RoundIsKept
  /\ \A n \in SyncRuns : FreshRun(n) /\ orderRun[n].at = "NEXT" /\ orderRun[n].empty =>
       \E list \in lists : OrderPage(list, orderRun[n].page) = {}

LEMMA NoRunIsNoOrderRun == NoRun \notin OrderRun /\ NoRun.at \notin {"ORDERS", "NEXT"}
BY DEF NoRun, OrderRun

LEMMA OrdersInitInvariant == SyncInit => OrdersInv
<1> SUFFICES ASSUME SyncInit PROVE OrdersInv
  OBVIOUS
<1>1. orderCursor = 1 /\ orderRun = [n \in SyncRuns |-> NoRun] /\ lists = {} /\ overtaken = FALSE
  BY DEF SyncInit
<1>2. \A n \in SyncRuns : ~FreshRun(n)
  BY <1>1 DEF FreshRun
<1>3. RoundIsKept
  BY <1>1, <1>2 DEF RoundIsKept
<1>4. orderCursor \in Nat \ {0} /\ lists \in SUBSET SUBSET Rows
  BY <1>1
<1>5. overtaken \in BOOLEAN
  BY <1>1
<1>6. orderRun \in [SyncRuns -> OrderRun \cup {NoRun}]
  BY <1>1
<1> QED
  BY <1>2, <1>3, <1>4, <1>5, <1>6 DEF OrdersInv

TimeIsANumber == syncTime \in Int

LEMMA TimeStaysANumber == SyncSpec => []TimeIsANumber
<1>1. SyncInit => TimeIsANumber
  BY DEF SyncInit, TimeIsANumber
<1>2. TimeIsANumber /\ [SyncNext \/ OrdersNext]_syncVars => TimeIsANumber'
  <2> SUFFICES ASSUME TimeIsANumber, [SyncNext \/ OrdersNext]_syncVars PROVE syncTime' \in Int
    BY DEF TimeIsANumber
  <2>1. CASE PassTime
    BY <2>1 DEF PassTime, TimeIsANumber
  <2>2. ASSUME NEW n \in SyncRuns, StartOrders(n) \/ ReadOrders(n) \/ NextOrders(n) \/ FailOrders(n)
        PROVE  syncTime' = syncTime
    BY <2>2 DEF StartOrders, ReadOrders, NextOrders, FailOrders
  <2>3. ASSUME NEW n \in SyncRuns, NEW backfill \in BOOLEAN,
               \/ StartRun(n, backfill) \/ StartClicks(n) \/ ReadPage(n) \/ CommitRun(n) \/ CommitClicks(n)
               \/ FailRun(n) \/ FailClicks(n)
        PROVE  syncTime' = syncTime
    BY <2>3 DEF StartRun, StartClicks, Begins, ReadPage, CommitRun, CommitClicks, Commits, FailRun,
                FailClicks, Fails
  <2>4. ASSUME NEW r \in Rows, ShowRow(r) \/ ChangeRow(r) PROVE syncTime' = syncTime
    BY <2>4 DEF ShowRow, ChangeRow
  <2>5. CASE UNCHANGED syncVars
    BY <2>5 DEF syncVars, TimeIsANumber
  <2> QED
    BY <2>1, <2>2, <2>3, <2>4, <2>5 DEF SyncNext, OrdersNext, NetworkNext, TimeIsANumber
<1> QED
  BY <1>1, <1>2, PTL DEF SyncSpec

LEMMA StartingKeepsTheRound ==
  ASSUME OrdersInv, NEW n \in SyncRuns, StartOrders(n), TimeIsANumber
  PROVE  OrdersInv'
<1>0. orderRun \in [SyncRuns -> OrderRun \cup {NoRun}] /\ orderCursor \in Nat \ {0}
  BY DEF OrdersInv
<1>1. PICK run : run = [at |-> "ORDERS", page |-> orderCursor, from |-> syncTime - Reach,
                        until |-> syncTime, empty |-> FALSE, fresh |-> TRUE]
  OBVIOUS
<1>2. orderRun' = [orderRun EXCEPT ![n] = run] /\ UNCHANGED <<orderCursor, checked, lists, overtaken>>
  BY <1>1 DEF StartOrders
<1>3. run \in OrderRun
  BY <1>0, <1>1, TimesAreNumbers DEF OrderRun, TimeIsANumber
<1>4. /\ orderRun'[n] = run /\ run.at = "ORDERS" /\ run.page = orderCursor
      /\ \A m \in SyncRuns : m # n => orderRun'[m] = orderRun[m]
  BY <1>0, <1>1, <1>2
<1>5. \A r, p : StandsOn(r, p)' = StandsOn(r, p)
  BY <1>2 DEF StandsOn
<1>6. ASSUME ~overtaken PROVE RoundIsKept'
  <2> SUFFICES ASSUME NEW r \in Rows, NEW p \in Nat \ {0}, StandsOn(r, p)
               PROVE  /\ p < orderCursor => r \in checked
                      /\ \A m \in SyncRuns : FreshRun(m)' /\ Vouches(orderRun'[m], p) => r \in checked
    BY <1>2, <1>5 DEF RoundIsKept
  <2>1. /\ p < orderCursor => r \in checked
        /\ \A m \in SyncRuns : FreshRun(m) /\ Vouches(orderRun[m], p) => r \in checked
    BY <1>6 DEF OrdersInv, RoundIsKept
  <2>2. Vouches(run, p) => p < orderCursor
    BY <1>4 DEF Vouches
  <2> QED
    BY <1>4, <2>1, <2>2 DEF FreshRun
<1>7. ASSUME NEW m \in SyncRuns, FreshRun(m)', orderRun'[m].at = "NEXT", orderRun'[m].empty
      PROVE  \E list \in lists : OrderPage(list, orderRun'[m].page) = {}
  <2>1. m # n
    BY <1>4, <1>7
  <2> QED
    BY <1>4, <1>7, <2>1 DEF OrdersInv, FreshRun
<1> QED
  BY <1>0, <1>2, <1>3, <1>6, <1>7 DEF OrdersInv

\* A run that has read its page vouches for it: what stands there in every list, stands
\* there in the list it was shown.
LEMMA ReadingKeepsTheRound ==
  ASSUME OrdersInv, NEW n \in SyncRuns, ReadOrders(n)
  PROVE  OrdersInv'
<1>0. orderRun \in [SyncRuns -> OrderRun \cup {NoRun}] /\ orderCursor \in Nat \ {0}
  BY DEF OrdersInv
<1>1. PICK run \in OrderRun : run = orderRun[n] /\ run.at = "ORDERS"
  BY <1>0, NoRunIsNoOrderRun DEF ReadOrders
<1>2. PICK list, page, next : /\ list = OrderList(run) /\ page = OrderPage(list, run.page)
                              /\ next = [run EXCEPT !.at = "NEXT", !.empty = (page = {})]
  OBVIOUS
<1>3. /\ checked' = checked \cup page /\ orderRun' = [orderRun EXCEPT ![n] = next]
      /\ lists' = IF run.fresh THEN lists \cup {list} ELSE lists
      /\ UNCHANGED <<orderCursor, overtaken>>
  BY <1>1, <1>2 DEF ReadOrders
<1>4. /\ next \in OrderRun /\ next.at = "NEXT" /\ next.page = run.page /\ next.fresh = run.fresh
      /\ next.empty = (page = {}) /\ run.page \in Nat \ {0} /\ next # NoRun /\ run # NoRun
  BY <1>1, <1>2, NoRunIsNoOrderRun DEF OrderRun
<1>5. list \in SUBSET Rows
  BY <1>2 DEF OrderList, Sold, Shown
<1>6. orderRun'[n] = next /\ \A m \in SyncRuns : m # n => orderRun'[m] = orderRun[m]
  BY <1>0, <1>3
<1>7. lists \subseteq lists' /\ \A r, p : StandsOn(r, p)' => StandsOn(r, p)
  BY <1>3 DEF StandsOn
<1>8. ASSUME ~overtaken PROVE RoundIsKept'
  <2> SUFFICES ASSUME NEW r \in Rows, NEW p \in Nat \ {0}, StandsOn(r, p)'
               PROVE  /\ p < orderCursor => r \in checked'
                      /\ \A m \in SyncRuns : FreshRun(m)' /\ Vouches(orderRun'[m], p) => r \in checked'
    BY <1>3 DEF RoundIsKept
  <2>1. /\ p < orderCursor => r \in checked
        /\ \A m \in SyncRuns : FreshRun(m) /\ Vouches(orderRun[m], p) => r \in checked
    BY <1>7, <1>8 DEF OrdersInv, RoundIsKept
  <2>2. ASSUME FreshRun(n)', Vouches(next, p) PROVE r \in checked'
    <3>1. run.fresh
      BY <1>4, <1>6, <2>2 DEF FreshRun
    <3>2. CASE p < run.page
      <4>1. FreshRun(n) /\ Vouches(orderRun[n], p)
        BY <1>1, <1>4, <3>1, <3>2 DEF FreshRun, Vouches
      <4> QED
        BY <1>3, <2>1, <4>1
    <3>3. CASE p = run.page
      <4>1. list \in lists'
        BY <1>3, <3>1
      <4>2. r \in list /\ PageNumber(list, r) = p
        BY <4>1 DEF StandsOn
      <4> QED
        BY <1>2, <1>3, <3>3, <4>2 DEF OrderPage
    <3> QED
      BY <1>4, <2>2, <3>2, <3>3 DEF Vouches
  <2> QED
    BY <1>3, <1>6, <2>1, <2>2 DEF FreshRun
<1>9. ASSUME NEW m \in SyncRuns, FreshRun(m)', orderRun'[m].at = "NEXT", orderRun'[m].empty
      PROVE  \E l \in lists' : OrderPage(l, orderRun'[m].page) = {}
  <2>1. CASE m = n
    <3>1. run.fresh /\ page = {}
      BY <1>4, <1>6, <1>9, <2>1 DEF FreshRun
    <3>2. list \in lists' /\ OrderPage(list, run.page) = {}
      BY <1>2, <1>3, <3>1
    <3>3. orderRun'[m].page = run.page
      BY <1>4, <1>6, <2>1
    <3> QED
      BY <3>2, <3>3
  <2>2. CASE m # n
    BY <1>6, <1>7, <1>9, <2>2 DEF OrdersInv, FreshRun
  <2> QED
    BY <2>1, <2>2
<1>10. lists' \in SUBSET SUBSET Rows /\ orderRun' \in [SyncRuns -> OrderRun \cup {NoRun}]
  BY <1>0, <1>3, <1>4, <1>5 DEF OrdersInv
<1> QED
  BY <1>0, <1>3, <1>8, <1>9, <1>10 DEF OrdersInv

\* A run that fails leaves the round where it was.
LEMMA FailingKeepsTheRound ==
  ASSUME OrdersInv, NEW n \in SyncRuns, FailOrders(n)
  PROVE  OrdersInv'
<1>1. /\ checked \subseteq checked' /\ orderRun' = [orderRun EXCEPT ![n] = NoRun]
      /\ UNCHANGED <<orderCursor, lists, overtaken>>
  BY DEF FailOrders
<1>2. \A m \in SyncRuns : FreshRun(m)' => FreshRun(m) /\ orderRun'[m] = orderRun[m]
  BY <1>1 DEF FreshRun, OrdersInv
<1>3. \A r, p : StandsOn(r, p)' = StandsOn(r, p)
  BY <1>1 DEF StandsOn
<1>4. RoundIsKept => RoundIsKept'
  BY <1>1, <1>2, <1>3 DEF RoundIsKept
<1> QED
  BY <1>1, <1>2, <1>4 DEF OrdersInv

\* The cursor goes on behind what its run vouches for, or a round begins.
LEMMA GoingOnKeepsTheRound ==
  ASSUME OrdersInv, NEW n \in SyncRuns, NextOrders(n)
  PROVE  OrdersInv'
<1>0. orderRun \in [SyncRuns -> OrderRun \cup {NoRun}] /\ orderCursor \in Nat \ {0} /\ overtaken \in BOOLEAN
  BY DEF OrdersInv
<1>1. PICK run \in OrderRun : run = orderRun[n] /\ run.at = "NEXT"
  BY <1>0, NoRunIsNoOrderRun DEF NextOrders
<1>2. PICK rest : rest = [orderRun EXCEPT ![n] = NoRun]
  OBVIOUS
<1>3. /\ rest \in [SyncRuns -> OrderRun \cup {NoRun}]
      /\ \A m \in SyncRuns : rest[m] # NoRun => m # n /\ rest[m] = orderRun[m]
      /\ run.page \in Nat \ {0} /\ run.fresh \in BOOLEAN /\ run.empty \in BOOLEAN /\ run # NoRun
  BY <1>0, <1>1, <1>2, NoRunIsNoOrderRun DEF OrderRun
<1>4. orderCursor' = (IF run.empty THEN 1 ELSE run.page + 1) /\ orderCursor' \in Nat \ {0}
  BY <1>1, <1>3 DEF NextOrders, PageAfter
<1>5. CASE run.empty
  <2>1. /\ orderRun' = [m \in SyncRuns |-> IF rest[m] = NoRun THEN NoRun ELSE [rest[m] EXCEPT !.fresh = FALSE]]
        /\ lists' = {} /\ overtaken' = FALSE
    BY <1>1, <1>2, <1>5 DEF NextOrders
  <2>2. ASSUME NEW m \in SyncRuns PROVE orderRun'[m] \in OrderRun \cup {NoRun} /\ ~FreshRun(m)'
    <3>1. CASE rest[m] = NoRun
      BY <2>1, <3>1 DEF FreshRun
    <3>2. CASE rest[m] # NoRun
      <4>1. rest[m] \in OrderRun /\ orderRun'[m] = [rest[m] EXCEPT !.fresh = FALSE]
        BY <1>3, <2>1, <3>2
      <4>2. orderRun'[m] \in OrderRun /\ orderRun'[m].fresh = FALSE
        BY <4>1 DEF OrderRun
      <4> QED
        BY <4>2 DEF FreshRun
    <3> QED
      BY <3>1, <3>2
  <2>3. orderRun' \in [SyncRuns -> OrderRun \cup {NoRun}]
    BY <2>1, <2>2
  <2>4. orderCursor' = 1
    BY <1>4, <1>5
  <2>5. RoundIsKept'
    BY <2>2, <2>4 DEF RoundIsKept
  <2> QED
    BY <1>4, <2>1, <2>2, <2>3, <2>5 DEF OrdersInv
<1>6. CASE ~run.empty
  <2>1. /\ orderRun' = rest /\ overtaken' = (overtaken \/ ~run.fresh)
        /\ UNCHANGED <<checked, lists>>
    BY <1>1, <1>2, <1>6 DEF NextOrders
  <2>2. \A m \in SyncRuns : FreshRun(m)' => FreshRun(m) /\ orderRun'[m] = orderRun[m]
    BY <1>3, <2>1 DEF FreshRun
  <2>3. ASSUME ~overtaken' PROVE RoundIsKept'
    <3>1. ~overtaken /\ run.fresh
      BY <1>0, <1>3, <2>1, <2>3
    <3>2. \A p \in Nat \ {0} : p < orderCursor' => Vouches(run, p)
      BY <1>1, <1>3, <1>4, <1>6 DEF Vouches
    <3>3. FreshRun(n)
      BY <1>1, <1>3, <3>1 DEF FreshRun
    <3>4. \A r, p : StandsOn(r, p)' = StandsOn(r, p)
      BY <2>1 DEF StandsOn
    <3>5. RoundIsKept
      BY <3>1 DEF OrdersInv
    <3> QED
      BY <1>1, <2>1, <2>2, <3>2, <3>3, <3>4, <3>5 DEF RoundIsKept
  <2>4. overtaken' \in BOOLEAN
    BY <1>0, <1>3, <2>1
  <2> QED
    BY <1>3, <1>4, <2>1, <2>2, <2>3, <2>4 DEF OrdersInv
<1> QED
  BY <1>3, <1>5, <1>6

LEMMA OrdersStepInvariant ==
  OrdersInv /\ TimeIsANumber /\ [SyncNext \/ OrdersNext]_syncVars => OrdersInv'
<1> SUFFICES ASSUME OrdersInv, TimeIsANumber, [SyncNext \/ OrdersNext]_syncVars PROVE OrdersInv'
  OBVIOUS
<1>1. CASE UNCHANGED orderVars
  <2>1. \A r, p : StandsOn(r, p)' = StandsOn(r, p)
    BY <1>1 DEF StandsOn, orderVars
  <2>2. \A n : FreshRun(n)' = FreshRun(n)
    BY <1>1 DEF FreshRun, orderVars
  <2>3. RoundIsKept' = RoundIsKept
    BY <1>1, <2>1, <2>2 DEF RoundIsKept, orderVars
  <2> QED
    BY <1>1, <2>2, <2>3 DEF OrdersInv, orderVars
<1>2. ASSUME NEW n \in SyncRuns, StartOrders(n) \/ ReadOrders(n) \/ NextOrders(n) \/ FailOrders(n)
      PROVE  OrdersInv'
  BY <1>2, StartingKeepsTheRound, ReadingKeepsTheRound, GoingOnKeepsTheRound, FailingKeepsTheRound
<1>3. NetworkNext \/ SyncNext \/ UNCHANGED syncVars => UNCHANGED orderVars
  BY DEF NetworkNext, SyncNext, syncVars, PassTime, ShowRow, ChangeRow, StartRun, StartClicks, Begins,
         ReadPage, CommitRun, CommitClicks, Commits, FailRun, FailClicks, Fails
<1> QED
  BY <1>1, <1>2, <1>3 DEF OrdersNext

\* When a run of the order list starts the round over, every order that stood on one page
\* in all lists of the round has been checked, unless a run of an earlier round has set
\* the cursor (runner.ts:359-450).
THEOREM RoundsStayComplete == SyncSpec => []RoundsAreComplete
<1>1. OrdersInv => RoundsAreComplete
  <2> SUFFICES ASSUME OrdersInv, NEW n \in SyncRuns, orderRun[n].at = "NEXT", orderRun[n].empty,
                      orderRun[n].fresh, ~overtaken, NEW r \in UNION lists, StoodStill(r)
               PROVE  r \in checked
    BY DEF RoundsAreComplete
  <2>1. PICK run \in OrderRun : run = orderRun[n]
    BY NoRunIsNoOrderRun DEF OrdersInv
  <2>2. FreshRun(n) /\ run.page \in Nat \ {0} /\ lists \in SUBSET SUBSET Rows
    BY <2>1, NoRunIsNoOrderRun DEF FreshRun, OrdersInv, OrderRun
  <2>3. PICK list \in lists : OrderPage(list, run.page) = {}
    BY <2>1, <2>2 DEF OrdersInv
  <2>4. PICK p \in Nat \ {0} : p = PageNumber(list, r) /\ p < run.page
    BY <2>2, <2>3, NothingBehindAnEmptyPage DEF StoodStill
  <2>5. StandsOn(r, p)
    BY <2>4 DEF StandsOn, StoodStill
  <2>6. r \in Rows /\ Vouches(run, p)
    BY <2>2, <2>4 DEF Vouches
  <2> QED
    BY <2>1, <2>2, <2>5, <2>6 DEF OrdersInv, RoundIsKept
<1> QED
  BY <1>1, TimeStaysANumber, OrdersInitInvariant, OrdersStepInvariant, PTL DEF SyncSpec

-----------------------------------------------------------------------------
(* The windows: what a run has listed, and what it has read of the list.   *)

Entries == Rows \X Stamps
Earlier == {x \in Entries \X Entries :
              x[1][2] < x[2][2] \/ (x[1][2] = x[2][2] /\ x[1][1] < x[2][1])}
PlaceIn(listing, e) == RankOf(listing, Earlier, e) \div PageSize
ListPage(listing, k) == {e \in listing : PlaceIn(listing, e) = k - 1}
ListedBefore(listing, k) == {e \in listing : PlaceIn(listing, e) < k - 1}

LEMMA ListingsAreNumbered ==
  ASSUME NEW listing \in SUBSET Entries
  PROVE  /\ IsFiniteSet(listing) /\ StrictOrder(listing, Earlier)
         /\ \A e \in listing : PlaceIn(listing, e) \in Nat
<1>1. IsFiniteSet(listing)
  <2>1. IsFiniteSet(Stamps) /\ IsFiniteSet(Rows)
    BY RowsArePaged, TimesAreNumbers, FS_Interval DEF Stamps
  <2>2. IsFiniteSet(Entries)
    BY <2>1, FS_Product DEF Entries
  <2> QED
    BY <2>2, FS_Subset
<1>2. StrictOrder(listing, Earlier)
  <2>0. \A e \in listing : e[1] \in Rows /\ e[2] \in Stamps /\ e = <<e[1], e[2]>>
    BY DEF Entries
  <2>1. \A e \in listing : e[1] \in Nat /\ e[2] \in Nat
    BY <2>0, RowsArePaged, TimesAreNumbers DEF Stamps
  <2>2. \A x, y \in listing : <<x, y>> \in Earlier <=> x[2] < y[2] \/ (x[2] = y[2] /\ x[1] < y[1])
    BY DEF Earlier
  <2>3. \A x, y \in listing : x[1] = y[1] /\ x[2] = y[2] => x = y
    BY <2>0
  <2>4. \A x, y \in listing : <<x, y>> \in Earlier => <<y, x>> \notin Earlier
    BY <2>1, <2>2
  <2>5. \A x, y, z \in listing : <<x, y>> \in Earlier /\ <<y, z>> \in Earlier => <<x, z>> \in Earlier
    BY <2>1, <2>2
  <2>6. \A x, y \in listing : x = y \/ <<x, y>> \in Earlier \/ <<y, x>> \in Earlier
    <3> SUFFICES ASSUME NEW x \in listing, NEW y \in listing, x # y
                 PROVE  \/ x[2] < y[2] \/ (x[2] = y[2] /\ x[1] < y[1])
                        \/ y[2] < x[2] \/ (y[2] = x[2] /\ y[1] < x[1])
      BY <2>2
    <3>1. x[1] \in Nat /\ x[2] \in Nat /\ y[1] \in Nat /\ y[2] \in Nat
      BY <2>1
    <3>2. x[1] # y[1] \/ x[2] # y[2]
      BY <2>3
    <3> QED
      BY <3>1, <3>2
  <2> QED
    BY <2>4, <2>5, <2>6 DEF StrictOrder
<1>3. ASSUME NEW e \in listing PROVE PlaceIn(listing, e) \in Nat
  <2>1. Cardinality(listing) \in Nat /\ RankOf(listing, Earlier, e) \in 0..(Cardinality(listing) - 1)
    BY <1>1, <1>2, RanksNumber
  <2> QED
    BY <2>1, RowsArePaged, Quotients DEF PlaceIn
<1> QED
  BY <1>1, <1>2, <1>3

\* The next page of a listing, and the last.
LEMMA NextPageIsListed ==
  ASSUME NEW listing \in SUBSET Entries, NEW k \in Nat \ {0}
  PROVE  /\ ListedBefore(listing, k + 1) = ListedBefore(listing, k) \cup ListPage(listing, k)
         /\ Cardinality(ListedBefore(listing, k + 1)) =
              Cardinality(ListedBefore(listing, k)) + Cardinality(ListPage(listing, k))
         /\ ListedBefore(listing, 1) = {}
         /\ \/ Cardinality(ListPage(listing, k)) < PageSize
            \/ ListPage(listing, k) = {}
            \/ k * PageSize >= Cardinality(listing)
            \/ Cardinality(ListedBefore(listing, k + 1)) >= Cardinality(listing)
            => ListedBefore(listing, k + 1) = listing
<1>0. IsFiniteSet(listing) /\ StrictOrder(listing, Earlier) /\ PageSize \in Nat \ {0}
  BY ListingsAreNumbered, RowsArePaged
<1>1. \A e \in listing : PlaceIn(listing, e) \in Nat
  BY ListingsAreNumbered
<1>2. ListedBefore(listing, k + 1) = ListedBefore(listing, k) \cup ListPage(listing, k)
  <2>1. \A e \in listing : PlaceIn(listing, e) < k + 1 - 1 <=>
                             PlaceIn(listing, e) < k - 1 \/ PlaceIn(listing, e) = k - 1
    BY <1>1
  <2> QED
    BY <2>1 DEF ListedBefore, ListPage
<1>3. \A n \in Nat : ListedBefore(listing, n) \subseteq listing /\ IsFiniteSet(ListedBefore(listing, n))
        /\ Cardinality(ListedBefore(listing, n)) \in Nat
  <2>1. \A n \in Nat : ListedBefore(listing, n) \subseteq listing
    BY DEF ListedBefore
  <2> QED
    BY <1>0, <2>1, FS_Subset, FS_CardinalityType
<1>4. IsFiniteSet(ListPage(listing, k)) /\ Cardinality(ListPage(listing, k)) \in Nat
  <2>1. ListPage(listing, k) \subseteq listing
    BY DEF ListPage
  <2> QED
    BY <1>0, <2>1, FS_Subset, FS_CardinalityType
<1>5. Cardinality(ListedBefore(listing, k + 1)) =
        Cardinality(ListedBefore(listing, k)) + Cardinality(ListPage(listing, k))
  <2>1. ListedBefore(listing, k) \cap ListPage(listing, k) = {}
    BY <1>1 DEF ListedBefore, ListPage
  <2>2. Cardinality(ListedBefore(listing, k) \cap ListPage(listing, k)) = 0
    BY <2>1, FS_EmptySet
  <2>3. Cardinality(ListedBefore(listing, k) \cup ListPage(listing, k)) =
          Cardinality(ListedBefore(listing, k)) + Cardinality(ListPage(listing, k))
            - Cardinality(ListedBefore(listing, k) \cap ListPage(listing, k))
    BY <1>3, <1>4, FS_Union
  <2>4. Cardinality(ListedBefore(listing, k)) \in Nat
    BY <1>3
  <2>5. PICK a \in Nat, b \in Nat : /\ a = Cardinality(ListedBefore(listing, k))
                                    /\ b = Cardinality(ListPage(listing, k))
    BY <1>4, <2>4
  <2>6. Cardinality(ListedBefore(listing, k + 1)) = a + b - 0
    BY <1>2, <2>2, <2>3, <2>5, Zenon
  <2> QED
    BY <2>5, <2>6
<1>6. ListedBefore(listing, 1) = {}
  BY <1>1 DEF ListedBefore
<1>7. ASSUME \/ Cardinality(ListPage(listing, k)) < PageSize
             \/ ListPage(listing, k) = {}
             \/ k * PageSize >= Cardinality(listing)
      PROVE  ListedBefore(listing, k + 1) = listing
  <2>1. \A e \in listing : RankOf(listing, Earlier, e) \div PageSize < k
    BY <1>0, <1>7, LastPageCovers DEF ListPage, PlaceIn
  <2> QED
    BY <1>1, <2>1 DEF ListedBefore, PlaceIn
<1>8. ASSUME Cardinality(ListedBefore(listing, k + 1)) >= Cardinality(listing)
      PROVE  ListedBefore(listing, k + 1) = listing
  <2>1. ListedBefore(listing, k + 1) \in SUBSET listing /\ Cardinality(ListedBefore(listing, k + 1)) \in Nat
    BY <1>3
  <2>2. Cardinality(ListedBefore(listing, k + 1)) <= Cardinality(listing) /\ Cardinality(listing) \in Nat
    BY <1>0, <2>1, FS_Subset, FS_CardinalityType
  <2>3. Cardinality(listing) = Cardinality(ListedBefore(listing, k + 1))
    BY <1>8, <2>1, <2>2
  <2> QED
    BY <1>0, <2>1, <2>3, FS_Subset
<1> QED
  BY <1>2, <1>5, <1>6, <1>7, <1>8

-----------------------------------------------------------------------------
\* A row with its stamp.
Stamped(T) == {<<r, rowStamp[r]>> : r \in T}

LEMMA StampedCounts ==
  ASSUME NEW T, IsFiniteSet(T)
  PROVE  IsFiniteSet(Stamped(T)) /\ Cardinality(Stamped(T)) = Cardinality(T)
<1> DEFINE f == [r \in T |-> <<r, rowStamp[r]>>]
<1>1. f \in Bijection(T, Stamped(T))
  <2>1. f \in [T -> Stamped(T)] /\ \A t \in Stamped(T) : \E r \in T : f[r] = t
    BY DEF Stamped
  <2>2. \A a, b \in T : f[a] = f[b] => a = b
    OBVIOUS
  <2> QED
    BY <2>1, <2>2 DEF Bijection, Injection, Surjection, IsInjective
<1> QED
  BY <1>1, FS_Bijection DEF ExistsBijection

SyncTypes ==
  /\ syncTime \in Stamps
  /\ soldAt \in [Rows -> Stamps \cup {Never}]
  /\ rowStamp \in [Rows -> Stamps \cup {Never}]
  /\ due \in [Rows -> Stamps \cup {Never}]
  /\ ingested \in [Rows -> Stamps \cup {Never}]
  /\ \A r \in Rows : soldAt[r] <= due[r] /\ due[r] <= rowStamp[r] /\ ingested[r] <= rowStamp[r]
  /\ cursorEnd \in Stamps \cup {Never} /\ cursorEnd <= syncTime
  /\ slipped \subseteq Shown

\* The page of a window is the page of its listing.
LEMMA PagesAreListed ==
  ASSUME SyncTypes, NEW from \in Int, NEW until \in Int, NEW k \in Nat \ {0}
  PROVE  LET rows == Window(from, until)
             now == {<<r, rowStamp[r]>> : r \in rows}
         IN  /\ now \in SUBSET Entries /\ Cardinality(now) = Cardinality(rows)
             /\ PageOf(rows, k) \subseteq Shown
             /\ ListPage(now, k) = Stamped(PageOf(rows, k))
             /\ Cardinality(ListPage(now, k)) = Cardinality(PageOf(rows, k))
             /\ Cardinality(PageOf(rows, k)) \in Nat
<1> DEFINE rows == Window(from, until)
           now == Stamped(rows)
           page == PageOf(rows, k)
<1>0. rows \subseteq Shown /\ Shown \subseteq Rows /\ page \subseteq rows
  BY DEF Window, Sold, Shown, PageOf
<1>1. \A r \in rows : r \in Rows /\ r \in Nat /\ rowStamp[r] \in Stamps /\ rowStamp[r] \in Nat
  <2>1. \A r \in rows : r \in Rows /\ rowStamp[r] # Never
    BY <1>0 DEF Shown
  <2>2. \A r \in rows : rowStamp[r] \in Stamps
    BY <2>1 DEF SyncTypes
  <2>3. Stamps \subseteq Nat /\ Rows \subseteq Nat
    BY RowsArePaged, TimesAreNumbers DEF Stamps
  <2> QED
    BY <2>1, <2>2, <2>3
<1>2. IsFiniteSet(rows) /\ IsFiniteSet(page)
  BY <1>0, RowsArePaged, FS_Subset
<1>3. now \in SUBSET Entries
  BY <1>0, <1>1 DEF Entries, Stamped
<1>4. ASSUME NEW r \in rows
      PROVE  RankOf(now, Earlier, <<r, rowStamp[r]>>) = Cardinality({q \in rows : Before(q, r)})
  <2> DEFINE below == {q \in rows : Before(q, r)}
  <2>1. \A q \in rows : <<<<q, rowStamp[q]>>, <<r, rowStamp[r]>>>> \in Earlier <=> Before(q, r)
    <3> SUFFICES ASSUME NEW q \in rows
                 PROVE  <<<<q, rowStamp[q]>>, <<r, rowStamp[r]>>>> \in Earlier <=> Before(q, r)
      OBVIOUS
    <3>1. PICK x \in Entries, y \in Entries : x = <<q, rowStamp[q]>> /\ y = <<r, rowStamp[r]>>
      BY <1>1 DEF Entries
    <3>2. x[1] = q /\ x[2] = rowStamp[q] /\ y[1] = r /\ y[2] = rowStamp[r]
      BY <3>1
    <3>3. <<x, y>> \in Earlier <=> x[2] < y[2] \/ (x[2] = y[2] /\ x[1] < y[1])
      BY DEF Earlier
    <3> QED
      BY <3>1, <3>2, <3>3, Zenon DEF Before
  <2>2. {x \in now : <<x, <<r, rowStamp[r]>>>> \in Earlier} = Stamped(below)
    BY <2>1 DEF Stamped
  <2>3. IsFiniteSet(below)
    BY <1>2, FS_Subset
  <2> QED
    BY <2>2, <2>3, StampedCounts DEF RankOf
<1>5. ListPage(now, k) = Stamped(page)
  <2>1. \A r \in rows : <<r, rowStamp[r]>> \in ListPage(now, k) <=> r \in page
    <3>1. \A r \in rows : <<r, rowStamp[r]>> \in now
      BY DEF Stamped
    <3> QED
      BY <1>4, <3>1 DEF ListPage, PlaceIn, PageOf
  <2>2. ListPage(now, k) \subseteq now /\ Stamped(page) \subseteq now
    BY <1>0 DEF ListPage, Stamped
  <2>3. \A x \in now : \E r \in rows : x = <<r, rowStamp[r]>>
    BY DEF Stamped
  <2>4. \A r \in rows : <<r, rowStamp[r]>> \in Stamped(page) <=> r \in page
    BY DEF Stamped
  <2> QED
    BY <2>1, <2>2, <2>3, <2>4
<1>6. now = {<<r, rowStamp[r]>> : r \in rows}
  BY DEF Stamped
<1>7. Cardinality(now) = Cardinality(rows) /\ Cardinality(Stamped(page)) = Cardinality(page)
  BY <1>2, StampedCounts
<1>8. Cardinality(page) \in Nat
  BY <1>2, FS_CardinalityType
<1> QED
  <2> HIDE DEF rows, now, page
  <2> QED
    BY <1>0, <1>3, <1>5, <1>6, <1>7, <1>8 DEF rows, page

-----------------------------------------------------------------------------
(* What a run knows, and that nothing it does not know is lost.            *)

Run == [at : {"READ", "COMMIT"}, from : Int, until : Stamps, page : Nat \ {0}, got : Nat,
        listing : SUBSET Entries, moved : BOOLEAN]

Settled(r) == ingested[r] >= due[r] \/ r \in slipped

\* The network changed a row out of the window that AccessTrade was asked for.
ChangedAway(r, until) == feed = "ACCESSTRADE" /\ rowStamp[r] > until

\* What a run has asked for while its pages stand still: it has read what it has listed.
ReadsItsList(run) ==
  /\ \A e \in ListedBefore(run.listing, run.page) : ingested[e[1]] >= e[2]
  /\ run.at = "READ" => run.got = Cardinality(ListedBefore(run.listing, run.page))
  /\ run.at = "COMMIT" => \A e \in run.listing : ingested[e[1]] >= e[2]

\* A run's window reaches back to what earlier runs have settled, or as far as any; and
\* its list holds what was due of every row sold an overlap before the window's end.
RunIsSound(run) ==
  /\ run.until <= syncTime
  /\ run.from <= run.until - Overlap \/ run.from = run.until - Reach
  /\ \A r \in Shown : soldAt[r] >= run.from \/ Settled(r) \/ soldAt[r] < run.until - Reach
  /\ run.page = 1 => run.at = "READ" /\ run.got = 0 /\ run.moved = FALSE
  /\ run.page > 1 =>
       /\ \A r \in Shown : soldAt[r] >= run.from /\ soldAt[r] < run.until - Overlap =>
            \/ \E e \in run.listing : e[1] = r /\ e[2] >= due[r]
            \/ ChangedAway(r, run.until)
       /\ run.moved \/ ReadsItsList(run)

CursorIsSound ==
  cursorEnd = Never \/ \A r \in Shown :
     soldAt[r] >= cursorEnd - Overlap \/ Settled(r) \/ soldAt[r] < syncTime - Reach

WindowsInv ==
  /\ SyncTypes
  /\ syncRun \in [SyncRuns -> {NoRun} \cup Run]
  /\ \A n \in SyncRuns : syncRun[n] # NoRun => RunIsSound(syncRun[n])
  /\ CursorIsSound

LEMMA StampsAreNumbers ==
  /\ Stamps \subseteq Nat /\ Never \notin Stamps
  /\ Lag \in Nat /\ Overlap \in Nat /\ Lag <= Overlap /\ Reach \in Nat
BY TimesAreNumbers, LagWithinOverlap DEF Stamps, Never

LEMMA SyncForms ==
  ASSUME SyncTypes
  PROVE  /\ syncTime \in Nat /\ Shown \subseteq Rows
         /\ \A r \in Rows : /\ soldAt[r] \in Int /\ rowStamp[r] \in Int /\ due[r] \in Int /\ ingested[r] \in Int
                            /\ soldAt[r] <= due[r] /\ due[r] <= rowStamp[r] /\ ingested[r] <= rowStamp[r]
         /\ \A r \in Shown : rowStamp[r] \in Stamps /\ rowStamp[r] \in Nat
         /\ cursorEnd \in Int
<1>1. \A r \in Rows : /\ soldAt[r] \in Stamps \cup {Never} /\ rowStamp[r] \in Stamps \cup {Never}
                      /\ due[r] \in Stamps \cup {Never} /\ ingested[r] \in Stamps \cup {Never}
                      /\ soldAt[r] <= due[r] /\ due[r] <= rowStamp[r] /\ ingested[r] <= rowStamp[r]
  BY DEF SyncTypes
<1>2. Stamps \cup {Never} \subseteq Int
  BY StampsAreNumbers DEF Never
<1>3. Shown \subseteq Rows /\ \A r \in Shown : rowStamp[r] # Never
  BY DEF Shown
<1>4. \A r \in Shown : rowStamp[r] \in Stamps
  BY <1>1, <1>3
<1> QED
  BY <1>1, <1>2, <1>3, <1>4, StampsAreNumbers DEF SyncTypes

\* The same in the next state.
LEMMA SyncFormsNext ==
  ASSUME SyncTypes'
  PROVE  /\ syncTime' \in Nat /\ Shown' \subseteq Rows
         /\ \A r \in Rows : /\ soldAt'[r] \in Int /\ rowStamp'[r] \in Int /\ due'[r] \in Int /\ ingested'[r] \in Int
                            /\ soldAt'[r] <= due'[r] /\ due'[r] <= rowStamp'[r] /\ ingested'[r] <= rowStamp'[r]
         /\ \A r \in Shown' : rowStamp'[r] \in Stamps /\ rowStamp'[r] \in Nat
         /\ cursorEnd' \in Int
<1>1. \A r \in Rows : /\ soldAt'[r] \in Stamps \cup {Never} /\ rowStamp'[r] \in Stamps \cup {Never}
                      /\ due'[r] \in Stamps \cup {Never} /\ ingested'[r] \in Stamps \cup {Never}
                      /\ soldAt'[r] <= due'[r] /\ due'[r] <= rowStamp'[r] /\ ingested'[r] <= rowStamp'[r]
  BY DEF SyncTypes
<1>2. Stamps \cup {Never} \subseteq Int
  BY StampsAreNumbers DEF Never
<1>3. Shown' \subseteq Rows /\ \A r \in Shown' : rowStamp'[r] # Never
  BY DEF Shown
<1>4. \A r \in Shown' : rowStamp'[r] \in Stamps
  BY <1>1, <1>3
<1> QED
  BY <1>1, <1>2, <1>3, <1>4, StampsAreNumbers DEF SyncTypes

LEMMA RunForms ==
  /\ NoRun \notin Run
  /\ \A run \in Run : /\ run.at \in {"READ", "COMMIT"} /\ run.from \in Int /\ run.until \in Stamps
                      /\ run.until \in Nat /\ run.page \in Nat \ {0} /\ run.got \in Nat
                      /\ run.listing \in SUBSET Entries /\ run.moved \in BOOLEAN
BY StampsAreNumbers DEF Run, NoRun

\* What a step does to a row that it does not sell: it keeps what was due and, once
\* settled, stays so.
StaysAsItWas(r) ==
  /\ r \in Shown /\ soldAt'[r] = soldAt[r] /\ due'[r] = due[r] /\ rowStamp'[r] >= rowStamp[r]
  /\ Settled(r) => Settled(r)'

\* What every step does: something more is due only for rows sold within the overlap.
GoesOn ==
  /\ feed' = feed /\ syncTime' >= syncTime
  /\ \A r \in Rows : ingested'[r] >= ingested[r]
  /\ \A r \in Shown' : StaysAsItWas(r) \/ soldAt'[r] >= syncTime - Overlap

LEMMA SoundRunsStaySound ==
  ASSUME SyncTypes, SyncTypes', GoesOn, NEW run \in Run, RunIsSound(run)
  PROVE  RunIsSound(run)'
<1>0. /\ run.from \in Int /\ run.until \in Nat /\ run.until <= syncTime
      /\ run.from <= run.until - Overlap \/ run.from = run.until - Reach
      /\ run.listing \in SUBSET Entries
  BY RunForms DEF RunIsSound
<1>1. /\ syncTime \in Nat /\ syncTime' \in Nat /\ syncTime' >= syncTime /\ feed' = feed
      /\ \A r \in Rows : ingested[r] \in Int /\ ingested'[r] \in Int /\ ingested'[r] >= ingested[r]
      /\ \A r \in Shown' : r \in Rows /\ soldAt'[r] \in Int /\ rowStamp[r] \in Int /\ rowStamp'[r] \in Int
  <2>1. syncTime \in Nat /\ \A r \in Rows : ingested[r] \in Int /\ rowStamp[r] \in Int
    BY SyncForms
  <2>2. /\ syncTime' \in Nat /\ Shown' \subseteq Rows
        /\ \A r \in Rows : ingested'[r] \in Int /\ soldAt'[r] \in Int /\ rowStamp'[r] \in Int
    BY SyncFormsNext
  <2> QED
    BY <2>1, <2>2 DEF GoesOn
<1>2. run.until <= syncTime'
  BY <1>0, <1>1
<1>3. ASSUME NEW r \in Shown'
      PROVE  soldAt'[r] >= run.from \/ Settled(r)' \/ soldAt'[r] < run.until - Reach
  <2>1. CASE StaysAsItWas(r)
    BY <2>1 DEF RunIsSound, StaysAsItWas
  <2>2. CASE soldAt'[r] >= syncTime - Overlap
    BY <1>0, <1>1, <2>2, StampsAreNumbers
  <2> QED
    BY <2>1, <2>2 DEF GoesOn
<1>4. ASSUME run.page > 1, NEW r \in Shown', soldAt'[r] >= run.from, soldAt'[r] < run.until - Overlap
      PROVE  \/ \E e \in run.listing : e[1] = r /\ e[2] >= due'[r]
             \/ ChangedAway(r, run.until)'
  <2>1. ~(soldAt'[r] >= syncTime - Overlap)
    BY <1>0, <1>1, <1>4, StampsAreNumbers
  <2>2. StaysAsItWas(r)
    BY <2>1 DEF GoesOn
  <2>3. \/ \E e \in run.listing : e[1] = r /\ e[2] >= due[r]
        \/ ChangedAway(r, run.until)
    BY <1>4, <2>2 DEF RunIsSound, StaysAsItWas
  <2>4. ChangedAway(r, run.until) => ChangedAway(r, run.until)'
    BY <1>0, <1>1, <2>2 DEF ChangedAway, StaysAsItWas
  <2> QED
    BY <2>2, <2>3, <2>4 DEF StaysAsItWas
<1>5. ASSUME ReadsItsList(run) PROVE ReadsItsList(run)'
  <2>1. \A e \in run.listing : e[1] \in Rows /\ e[2] \in Nat
    BY <1>0, StampsAreNumbers DEF Entries
  <2>2. ListedBefore(run.listing, run.page) \subseteq run.listing
    BY DEF ListedBefore
  <2>3. \A e \in run.listing : ingested[e[1]] >= e[2] => ingested'[e[1]] >= e[2]
    BY <1>1, <2>1
  <2> QED
    BY <1>5, <2>2, <2>3 DEF ReadsItsList
<1> QED
  BY <1>0, <1>2, <1>3, <1>4, <1>5 DEF RunIsSound

LEMMA SoundCursorStaysSound ==
  ASSUME SyncTypes, SyncTypes', GoesOn, CursorIsSound, cursorEnd' = cursorEnd
  PROVE  CursorIsSound'
<1> SUFFICES ASSUME cursorEnd # Never, NEW r \in Shown'
             PROVE  soldAt'[r] >= cursorEnd - Overlap \/ Settled(r)' \/ soldAt'[r] < syncTime' - Reach
  BY DEF CursorIsSound
<1>1. /\ syncTime \in Nat /\ syncTime' \in Nat /\ syncTime' >= syncTime
      /\ cursorEnd \in Int /\ cursorEnd <= syncTime /\ soldAt'[r] \in Int
  <2>1. soldAt'[r] \in Int /\ syncTime' \in Nat
    BY SyncFormsNext
  <2> QED
    BY <2>1, SyncForms DEF SyncTypes, GoesOn
<1>2. CASE StaysAsItWas(r)
  <2>1. soldAt'[r] >= cursorEnd - Overlap \/ Settled(r)' \/ soldAt'[r] < syncTime - Reach
    BY <1>2 DEF CursorIsSound, StaysAsItWas
  <2> QED
    BY <1>1, <2>1, StampsAreNumbers
<1>3. CASE soldAt'[r] >= syncTime - Overlap
  BY <1>1, <1>3, StampsAreNumbers
<1> QED
  BY <1>2, <1>3 DEF GoesOn

\* What reading rows does: what is on the page is settled, and nothing is unsettled.
LEMMA IngestingSettles ==
  ASSUME SyncTypes, NEW rows, rows \subseteq Shown, Ingest(rows), slipped' = slipped \ rows,
         UNCHANGED <<feed, syncTime, soldAt, rowStamp, due, cursorEnd>>
  PROVE  /\ SyncTypes' /\ GoesOn
         /\ \A r \in rows : ingested'[r] = rowStamp[r]
<1>1. /\ ingested' = [r \in Rows |-> IF r \in rows /\ rowStamp[r] > ingested[r] THEN rowStamp[r] ELSE ingested[r]]
      /\ feed' = feed /\ soldAt' = soldAt /\ rowStamp' = rowStamp /\ due' = due
      /\ syncTime' = syncTime /\ cursorEnd' = cursorEnd
  BY DEF Ingest
<1>2. \A r \in Rows : /\ rowStamp[r] \in Int /\ ingested[r] \in Int /\ due[r] \in Int
                      /\ ingested[r] <= rowStamp[r] /\ due[r] <= rowStamp[r]
  BY SyncForms
<1>3. \A r \in Rows : /\ ingested'[r] \in {rowStamp[r], ingested[r]}
                      /\ r \in rows => ingested'[r] = rowStamp[r]
                      /\ r \notin rows => ingested'[r] = ingested[r]
  BY <1>1, <1>2
<1>4. rows \subseteq Rows /\ Shown' = Shown /\ Shown \subseteq Rows
  BY <1>1 DEF Shown
<1>5. SyncTypes'
  <2>1. ingested' \in [Rows -> Stamps \cup {Never}]
    BY <1>1 DEF SyncTypes
  <2>2. \A r \in Rows : ingested'[r] <= rowStamp[r]
    BY <1>2, <1>3
  <2> QED
    BY <1>1, <1>4, <2>1, <2>2 DEF SyncTypes
<1>6. \A r \in Rows : ingested'[r] >= ingested[r]
  BY <1>2, <1>3
<1>7. \A r \in Shown : StaysAsItWas(r)
  <2>1. \A r \in Shown : Settled(r) => Settled(r)'
    BY <1>1, <1>2, <1>3, <1>4 DEF Settled
  <2> QED
    BY <1>1, <1>2, <1>4, <2>1 DEF StaysAsItWas
<1>8. syncTime' >= syncTime
  BY <1>1, SyncForms
<1> QED
  BY <1>1, <1>3, <1>4, <1>5, <1>6, <1>7, <1>8 DEF GoesOn

-----------------------------------------------------------------------------
\* When the answer says that a page is the last one, the whole list has been read.
LEMMA LastPageIsLast ==
  ASSUME SyncTypes, NEW run \in Run, NEW rows, rows = Window(run.from, run.until),
         NEW now \in SUBSET Entries, now = {<<r, rowStamp[r]>> : r \in rows},
         run.got = Cardinality(ListedBefore(now, run.page)),
         TRUE \in Ended(run, PageOf(rows, run.page), rows)
  PROVE  ListedBefore(now, run.page + 1) = now
<1> DEFINE k == run.page
           page == PageOf(rows, k)
<1>0. run.from \in Int /\ run.until \in Int /\ k \in Nat \ {0}
  BY RunForms
<1>1. /\ Cardinality(now) = Cardinality(rows) /\ ListPage(now, k) = Stamped(page)
      /\ Cardinality(ListPage(now, k)) = Cardinality(page)
  BY <1>0, PagesAreListed
<1>2. page = {} => ListPage(now, k) = {}
  BY <1>1 DEF Stamped
<1>3. Cardinality(ListedBefore(now, k + 1)) = run.got + Cardinality(page)
  BY <1>0, <1>1, NextPageIsListed
<1>4. \/ Cardinality(page) < PageSize \/ page = {} \/ k * PageSize >= Cardinality(rows)
      \/ run.got + Cardinality(page) >= Cardinality(rows)
  <2>1. CASE feed = "LAZADA"
    BY <2>1 DEF Ended, ShortPage
  <2>2. CASE feed # "LAZADA"
    <3>1. AllReceived(run.got + Cardinality(page), page, rows) = TRUE
      BY <2>2 DEF Ended
    <3> QED
      BY <3>1 DEF AllReceived
  <2> QED
    BY <2>1, <2>2
<1>5. \/ Cardinality(ListPage(now, k)) < PageSize \/ ListPage(now, k) = {}
      \/ k * PageSize >= Cardinality(now)
      \/ Cardinality(ListedBefore(now, k + 1)) >= Cardinality(now)
  BY <1>1, <1>2, <1>3, <1>4
<1> QED
  BY <1>0, <1>5, NextPageIsListed

\* The step of a run that reads its next page.
LEMMA ReadingStaysSound ==
  ASSUME WindowsInv, NEW n \in SyncRuns, ReadPage(n)
  PROVE  SyncTypes' /\ GoesOn /\ cursorEnd' = cursorEnd
         /\ \E run \in Run : syncRun' = [syncRun EXCEPT ![n] = run] /\ RunIsSound(run)'
<1>0. SyncTypes /\ syncRun \in [SyncRuns -> {NoRun} \cup Run]
  BY DEF WindowsInv
<1>1. PICK run \in Run : run = syncRun[n] /\ run.at = "READ" /\ RunIsSound(run)
  <2>1. syncRun[n].at = "READ"
    BY DEF ReadPage
  <2>2. syncRun[n] # NoRun
    BY <2>1 DEF NoRun
  <2> QED
    BY <1>0, <2>1, <2>2 DEF WindowsInv
<1>2. PICK rows, now, page : /\ rows = Window(run.from, run.until)
                             /\ now = {<<r, rowStamp[r]>> : r \in rows}
                             /\ page = PageOf(rows, run.page)
  OBVIOUS
<1>3. PICK last \in Ended(run, page, rows) :
         /\ Ingest(page) /\ slipped' = slipped \ page
         /\ UNCHANGED <<feed, syncTime, soldAt, rowStamp, due, cursorEnd>>
         /\ syncRun' = [syncRun EXCEPT ![n] =
              [run EXCEPT !.at = IF last THEN "COMMIT" ELSE "READ", !.page = run.page + 1,
                          !.got = run.got + Cardinality(page),
                          !.listing = IF run.page = 1 THEN now ELSE run.listing,
                          !.moved = run.moved \/ (run.page > 1 /\ now # run.listing)]]
  BY <1>1, <1>2, ZenonT(40) DEF ReadPage, reportVars
<1>4. /\ run.from \in Int /\ run.until \in Stamps /\ run.until \in Int /\ run.page \in Nat \ {0} /\ run.got \in Nat
      /\ run.listing \in SUBSET Entries /\ run.moved \in BOOLEAN
  BY RunForms
<1>5. /\ now \in SUBSET Entries /\ page \subseteq Shown /\ ListPage(now, run.page) = Stamped(page)
      /\ Cardinality(ListPage(now, run.page)) = Cardinality(page) /\ Cardinality(page) \in Nat
  BY <1>0, <1>2, <1>4, PagesAreListed
<1>6. SyncTypes' /\ GoesOn /\ \A r \in page : ingested'[r] = rowStamp[r]
  BY <1>0, <1>3, <1>5, IngestingSettles
<1>7. RunIsSound(run)'
  BY <1>0, <1>1, <1>6, SoundRunsStaySound
<1>8. PICK at, got, listing, moved :
         /\ at = (IF last THEN "COMMIT" ELSE "READ") /\ got = run.got + Cardinality(page)
         /\ listing = (IF run.page = 1 THEN now ELSE run.listing)
         /\ moved = (run.moved \/ (run.page > 1 /\ now # run.listing))
  OBVIOUS
<1>9. at \in {"READ", "COMMIT"} /\ got \in Nat /\ listing \in SUBSET Entries /\ moved \in BOOLEAN
  BY <1>4, <1>5, <1>8
<1>10. PICK next : next = [at |-> at, from |-> run.from, until |-> run.until, page |-> run.page + 1,
                           got |-> got, listing |-> listing, moved |-> moved]
  OBVIOUS
<1>11. next \in Run
  BY <1>4, <1>9, <1>10 DEF Run
<1>12. syncRun' = [syncRun EXCEPT ![n] = next]
  <2>1. [run EXCEPT !.at = at, !.page = run.page + 1, !.got = got, !.listing = listing, !.moved = moved] = next
    <3>1. run = [at |-> run.at, from |-> run.from, until |-> run.until, page |-> run.page,
                 got |-> run.got, listing |-> run.listing, moved |-> run.moved]
      BY DEF Run
    <3>2. PICK a, f, u, k, g, l, m : run = [at |-> a, from |-> f, until |-> u, page |-> k,
                                            got |-> g, listing |-> l, moved |-> m]
      BY <3>1, Zenon
    <3>3. PICK p : p = run.page + 1
      OBVIOUS
    <3>4. PICK changed : changed = [run EXCEPT !.at = at, !.page = p, !.got = got, !.listing = listing, !.moved = moved]
      OBVIOUS
    <3>5. run \in [at : {a}, from : {f}, until : {u}, page : {k}, got : {g}, listing : {l}, moved : {m}]
      BY ONLY <3>2
    <3>6. changed \in [at : {at}, from : {f}, until : {u}, page : {p}, got : {got}, listing : {listing}, moved : {moved}]
      BY ONLY <3>4, <3>5
    <3>7. changed = [at |-> at, from |-> f, until |-> u, page |-> p, got |-> got, listing |-> listing, moved |-> moved]
      BY ONLY <3>6
    <3>8. run.from = f /\ run.until = u
      BY ONLY <3>2
    <3> QED
      BY ONLY <1>10, <3>3, <3>4, <3>7, <3>8, Zenon
  <2> QED
    BY <1>3, <1>8, <2>1, Zenon
<1>13. ASSUME ~moved PROVE listing = now /\ ReadsItsList(next)'
  <2>1. run.moved = FALSE /\ (run.page = 1 \/ now = run.listing)
    <3>1. ~(run.moved \/ (run.page > 1 /\ now # run.listing))
      BY <1>8, <1>13, Zenon
    <3>2. run.moved = FALSE
      BY <1>4, <3>1, Zenon
    <3>3. run.page = 1 \/ now = run.listing
      <4>1. run.page > 1 => now = run.listing
        BY <3>1, Zenon
      <4> QED
        BY <1>4, <4>1
    <3> QED
      BY <3>2, <3>3
  <2>2. listing = now
    BY <1>8, <2>1
  <2>3. /\ \A e \in ListedBefore(now, run.page) : ingested'[e[1]] >= e[2]
        /\ run.got = Cardinality(ListedBefore(now, run.page))
    <3>1. CASE run.page = 1
      <4>1. ListedBefore(now, run.page) = {}
        BY <1>5, <3>1, NextPageIsListed
      <4>2. run.got = 0
        BY <1>1, <3>1 DEF RunIsSound
      <4> QED
        BY <4>1, <4>2, FS_EmptySet
    <3>2. CASE run.page # 1
      <4>1. run.page > 1 /\ now = run.listing
        BY <1>4, <2>1, <3>2
      <4> QED
        BY <1>1, <1>7, <2>1, <4>1 DEF RunIsSound, ReadsItsList
    <3> QED
      BY <3>1, <3>2
  <2>4. \A e \in ListPage(now, run.page) : ingested'[e[1]] >= e[2]
    <3>1. \A r \in page : ingested'[r] >= rowStamp[r]
      BY <1>0, <1>5, <1>6, SyncForms
    <3> QED
      BY <1>5, <3>1 DEF Stamped
  <2>5. /\ ListedBefore(now, run.page + 1) = ListedBefore(now, run.page) \cup ListPage(now, run.page)
        /\ Cardinality(ListedBefore(now, run.page + 1)) = got
    BY <1>4, <1>5, <1>8, <2>3, NextPageIsListed
  <2>6. \A e \in ListedBefore(now, run.page + 1) : ingested'[e[1]] >= e[2]
    BY <2>3, <2>4, <2>5
  <2>7. ASSUME at = "COMMIT" PROVE ListedBefore(now, run.page + 1) = now
    <3>1. TRUE \in Ended(run, page, rows)
      <4>1. last
        BY <1>8, <2>7
      <4>2. last \in BOOLEAN
        BY <1>3 DEF Ended, ShortPage, AllReceived
      <4> QED
        BY <1>3, <4>1, <4>2
    <3> QED
      BY <1>0, <1>2, <1>5, <2>3, <3>1, LastPageIsLast
  <2>8. next.at = at /\ next.listing = now /\ next.page = run.page + 1 /\ next.got = got
    BY <1>10, <2>2
  <2> QED
    BY <2>2, <2>5, <2>6, <2>7, <2>8 DEF ReadsItsList
<1>14. ASSUME NEW r \in Shown', soldAt'[r] >= run.from, soldAt'[r] < run.until - Overlap
       PROVE  \/ \E e \in listing : e[1] = r /\ e[2] >= due'[r]
              \/ ChangedAway(r, run.until)'
  <2>1. /\ r \in Shown /\ soldAt'[r] = soldAt[r] /\ rowStamp'[r] = rowStamp[r] /\ due'[r] = due[r]
        /\ feed' = feed
    BY <1>3 DEF Shown
  <2>2. CASE run.page = 1
    <3>1. /\ soldAt[r] \in Int /\ rowStamp[r] \in Int /\ due[r] \in Int
          /\ soldAt[r] <= due[r] /\ due[r] <= rowStamp[r]
      BY <1>0, <2>1, SyncForms
    <3>2. r \in Sold(run.from, run.until)
      BY <1>4, <1>14, <2>1, <3>1, StampsAreNumbers DEF Sold
    <3>3. CASE r \in rows
      <4>1. PICK e \in listing : e = <<r, rowStamp[r]>>
        BY <1>2, <1>8, <2>2, <3>3
      <4> QED
        BY <2>1, <3>1, <4>1
    <3>4. CASE r \notin rows
      BY <1>2, <1>4, <1>14, <2>1, <3>1, <3>2, <3>4 DEF Window, ChangedAway
    <3> QED
      BY <3>3, <3>4
  <2>3. CASE run.page # 1
    <3>1. run.page > 1
      BY <1>4, <2>3
    <3> QED
      BY <1>7, <1>8, <1>14, <2>3, <3>1 DEF RunIsSound
  <2> QED
    BY <2>2, <2>3
<1>15. RunIsSound(next)'
  <2>1. /\ next.from = run.from /\ next.until = run.until /\ next.page = run.page + 1
        /\ next.listing = listing /\ next.moved = moved
    BY <1>10
  <2>2. run.page + 1 # 1
    BY <1>4
  <2> QED
    BY <1>7, <1>13, <1>14, <2>1, <2>2 DEF RunIsSound
<1> QED
  BY <1>3, <1>6, <1>11, <1>12, <1>15

-----------------------------------------------------------------------------
LEMMA WindowsInitInvariant == SyncInit => WindowsInv
<1> SUFFICES ASSUME SyncInit PROVE WindowsInv
  OBVIOUS
<1>1. /\ syncTime = 0 /\ soldAt = [r \in Rows |-> Never] /\ rowStamp = [r \in Rows |-> Never]
      /\ due = [r \in Rows |-> Never] /\ ingested = [r \in Rows |-> Never]
      /\ cursorEnd = Never /\ slipped = {} /\ syncRun = [n \in SyncRuns |-> NoRun]
  BY DEF SyncInit
<1>2. 0 \in Stamps /\ Never <= 0 /\ Never <= Never
  BY RowsArePaged, TimesAreNumbers DEF Stamps, Never
<1> QED
  BY <1>1, <1>2 DEF WindowsInv, SyncTypes, CursorIsSound

\* What a step that reads and reports nothing does.
LEMMA NothingReported ==
  ASSUME SyncTypes, UNCHANGED <<feed, soldAt, rowStamp, due, ingested, slipped>>, syncTime' >= syncTime
  PROVE  GoesOn /\ Shown' = Shown
<1>1. Shown' = Shown /\ Shown \subseteq Rows /\ \A r : Settled(r)' = Settled(r)
  BY DEF Shown, Settled
<1>2. \A r \in Rows : rowStamp[r] \in Int /\ ingested[r] \in Int
  BY SyncForms
<1>3. \A r \in Shown : StaysAsItWas(r)
  BY <1>1, <1>2 DEF StaysAsItWas
<1> QED
  BY <1>1, <1>2, <1>3 DEF GoesOn

\* A row is sold: within the lag before the time it is shown.
LEMMA ShowingStaysSound ==
  ASSUME SyncTypes, NEW r \in Rows, ShowRow(r)
  PROVE  SyncTypes' /\ GoesOn
<1>1. PICK s \in Recent : /\ soldAt' = [soldAt EXCEPT ![r] = s] /\ rowStamp' = [rowStamp EXCEPT ![r] = s]
                          /\ due' = [due EXCEPT ![r] = s]
  BY DEF ShowRow
<1>2. /\ rowStamp[r] = Never
      /\ UNCHANGED <<feed, syncTime, ingested, cursorEnd, slipped>>
  BY DEF ShowRow, runVars
<1>3. s \in Stamps /\ s \in Nat /\ s # Never /\ s >= syncTime - Lag
  BY StampsAreNumbers DEF Recent
<1>4. /\ soldAt'[r] = s /\ due'[r] = s /\ rowStamp'[r] = s
      /\ \A q \in Rows : q # r => soldAt'[q] = soldAt[q] /\ due'[q] = due[q] /\ rowStamp'[q] = rowStamp[q]
      /\ soldAt' \in [Rows -> Stamps \cup {Never}] /\ due' \in [Rows -> Stamps \cup {Never}]
      /\ rowStamp' \in [Rows -> Stamps \cup {Never}]
  BY <1>1, <1>3 DEF SyncTypes
<1>5. Shown' = Shown \cup {r} /\ Shown \subseteq Rows
  BY <1>3, <1>4 DEF Shown
<1>6. /\ syncTime \in Nat
      /\ \A q \in Rows : /\ soldAt[q] <= due[q] /\ due[q] <= rowStamp[q] /\ ingested[q] <= rowStamp[q]
                         /\ ingested[q] \in Int /\ rowStamp[q] \in Int
  BY SyncForms
<1>7. \A q \in Rows : soldAt'[q] <= due'[q] /\ due'[q] <= rowStamp'[q] /\ ingested'[q] <= rowStamp'[q]
  BY <1>2, <1>3, <1>4, <1>6 DEF Never
<1>8. SyncTypes'
  BY <1>2, <1>4, <1>5, <1>7 DEF SyncTypes
<1>9. \A q \in Shown' : q # r => StaysAsItWas(q)
  BY <1>2, <1>4, <1>5, <1>6 DEF StaysAsItWas, Settled
<1>10. soldAt'[r] >= syncTime - Overlap
  BY <1>3, <1>4, <1>6, StampsAreNumbers
<1> QED
  BY <1>2, <1>6, <1>8, <1>9, <1>10 DEF GoesOn

\* A change makes something more due only when the row was sold within the overlap.
LEMMA ChangingStaysSound ==
  ASSUME SyncTypes, NEW r \in Rows, ChangeRow(r)
  PROVE  SyncTypes' /\ GoesOn
<1>1. PICK s \in Recent : /\ s > rowStamp[r] /\ rowStamp' = [rowStamp EXCEPT ![r] = s]
                          /\ due' = [due EXCEPT ![r] = IF InTime(r, s) THEN s ELSE @]
  BY DEF ChangeRow
<1>2. /\ rowStamp[r] # Never
      /\ UNCHANGED <<feed, syncTime, soldAt, ingested, cursorEnd, slipped>>
  BY DEF ChangeRow, runVars
<1>3. s \in Stamps /\ s \in Nat /\ s # Never /\ s >= syncTime - Lag
  BY StampsAreNumbers DEF Recent
<1>4. /\ rowStamp'[r] = s /\ due'[r] = IF InTime(r, s) THEN s ELSE due[r]
      /\ \A q \in Rows : q # r => due'[q] = due[q] /\ rowStamp'[q] = rowStamp[q]
      /\ due' \in [Rows -> Stamps \cup {Never}] /\ rowStamp' \in [Rows -> Stamps \cup {Never}]
  BY <1>1, <1>3 DEF SyncTypes
<1>5. Shown' = Shown /\ Shown \subseteq Rows /\ r \in Shown
  BY <1>2, <1>3, <1>4 DEF Shown
<1>6. /\ syncTime \in Nat
      /\ \A q \in Rows : /\ soldAt[q] <= due[q] /\ due[q] <= rowStamp[q] /\ ingested[q] <= rowStamp[q]
                         /\ soldAt[q] \in Int /\ due[q] \in Int /\ ingested[q] \in Int /\ rowStamp[q] \in Int
  BY SyncForms
<1>7. \A q \in Rows : soldAt[q] <= due'[q] /\ due'[q] <= rowStamp'[q] /\ ingested[q] <= rowStamp'[q]
  BY <1>1, <1>3, <1>4, <1>6
<1>8. SyncTypes'
  BY <1>2, <1>4, <1>5, <1>7 DEF SyncTypes
<1>9. \A q \in Shown' : q # r => StaysAsItWas(q)
  BY <1>2, <1>4, <1>5, <1>6 DEF StaysAsItWas, Settled
<1>10. StaysAsItWas(r) \/ soldAt'[r] >= syncTime - Overlap
  <2>1. CASE InTime(r, s)
    BY <1>2, <1>3, <1>6, <2>1, StampsAreNumbers DEF InTime
  <2>2. CASE ~InTime(r, s)
    <3>1. due'[r] = due[r] /\ rowStamp'[r] >= rowStamp[r]
      BY <1>1, <1>3, <1>4, <1>6, <2>2
    <3> QED
      BY <1>2, <1>5, <3>1 DEF StaysAsItWas, Settled
  <2> QED
    BY <2>1, <2>2
<1> QED
  BY <1>2, <1>5, <1>6, <1>8, <1>9, <1>10 DEF GoesOn

\* A step of the network or of the order list.
Otherwise ==
  \/ NetworkNext
  \/ \E n \in SyncRuns : StartOrders(n) \/ ReadOrders(n) \/ NextOrders(n) \/ FailOrders(n)
  \/ UNCHANGED syncVars

LEMMA OthersStaySound ==
  ASSUME WindowsInv, Otherwise
  PROVE  SyncTypes' /\ GoesOn /\ cursorEnd' = cursorEnd /\ syncRun' = syncRun
<1>0. SyncTypes
  BY DEF WindowsInv
<1>1. CASE PassTime
  <2>1. /\ syncTime' = syncTime + 1 /\ syncTime < MaxSyncTime
        /\ UNCHANGED <<feed, soldAt, rowStamp, due, ingested, cursorEnd, syncRun, slipped>>
    BY <1>1 DEF PassTime, reportVars, runVars
  <2>2. syncTime' \in Stamps /\ cursorEnd <= syncTime' /\ syncTime' >= syncTime
    BY <1>0, <2>1, SyncForms, TimesAreNumbers DEF SyncTypes, Stamps
  <2>3. GoesOn /\ Shown' = Shown
    BY <1>0, <2>1, <2>2, NothingReported
  <2> QED
    BY <1>0, <2>1, <2>2, <2>3 DEF SyncTypes
<1>2. ASSUME NEW r \in Rows, ShowRow(r) \/ ChangeRow(r)
      PROVE  SyncTypes' /\ GoesOn /\ cursorEnd' = cursorEnd /\ syncRun' = syncRun
  <2>1. cursorEnd' = cursorEnd /\ syncRun' = syncRun
    BY <1>2 DEF ShowRow, ChangeRow, runVars
  <2> QED
    BY <1>0, <1>2, <2>1, ShowingStaysSound, ChangingStaysSound
<1>3. ASSUME UNCHANGED <<feed, syncTime, reportVars, runVars>>
      PROVE  SyncTypes' /\ GoesOn /\ cursorEnd' = cursorEnd /\ syncRun' = syncRun
  <2>1. UNCHANGED <<feed, syncTime, soldAt, rowStamp, due, ingested, cursorEnd, syncRun, slipped>>
    BY <1>3 DEF reportVars, runVars
  <2>2. GoesOn /\ Shown' = Shown
    BY <1>0, <2>1, NothingReported, SyncForms
  <2> QED
    BY <1>0, <2>1, <2>2 DEF SyncTypes
<1>4. ASSUME NEW n \in SyncRuns, StartOrders(n) \/ ReadOrders(n) \/ NextOrders(n) \/ FailOrders(n)
      PROVE  UNCHANGED <<feed, syncTime, reportVars, runVars>>
  BY <1>4 DEF StartOrders, ReadOrders, NextOrders, FailOrders
<1>5. UNCHANGED syncVars => UNCHANGED <<feed, syncTime, reportVars, runVars>>
  BY DEF syncVars
<1> QED
  BY <1>1, <1>2, <1>3, <1>4, <1>5 DEF Otherwise, NetworkNext

\* A run that begins: its window reaches back to what the cursor vouches for.
LEMMA BeginningIsSound ==
  ASSUME WindowsInv, NEW n \in SyncRuns, NEW backfill \in BOOLEAN, Begins(n, WindowStart(backfill))
  PROVE  SyncTypes' /\ GoesOn /\ cursorEnd' = cursorEnd
         /\ \E run \in Run : syncRun' = [syncRun EXCEPT ![n] = run] /\ RunIsSound(run)'
<1>0. SyncTypes /\ CursorIsSound
  BY DEF WindowsInv
<1>1. PICK from : from = WindowStart(backfill)
  OBVIOUS
<1>2. PICK run : run = [at |-> "READ", from |-> from, until |-> syncTime,
                        page |-> 1, got |-> 0, listing |-> {}, moved |-> FALSE]
  OBVIOUS
<1>3. /\ syncRun' = [syncRun EXCEPT ![n] = run]
      /\ UNCHANGED <<feed, syncTime, soldAt, rowStamp, due, ingested, cursorEnd, slipped>>
  BY <1>1, <1>2 DEF Begins, reportVars
<1>4. GoesOn /\ Shown' = Shown
  BY <1>0, <1>3, NothingReported, SyncForms
<1>5. SyncTypes'
  BY <1>0, <1>3, <1>4 DEF SyncTypes
<1>6. from = syncTime - Reach \/ (from = cursorEnd - Overlap /\ cursorEnd # Never)
  BY <1>1 DEF WindowStart
<1>7. /\ from \in Int /\ syncTime \in Nat /\ syncTime \in Stamps
      /\ from <= syncTime - Overlap \/ from = syncTime - Reach
  BY <1>0, <1>6, SyncForms, StampsAreNumbers DEF SyncTypes
<1>8. run \in Run
  BY <1>2, <1>7 DEF Run
<1>9. ASSUME NEW r \in Shown
      PROVE  soldAt[r] >= from \/ Settled(r) \/ soldAt[r] < syncTime - Reach
  <2>1. soldAt[r] \in Int
    BY <1>0, SyncForms
  <2>2. CASE from = syncTime - Reach
    BY <1>7, <2>1, <2>2
  <2>3. CASE from = cursorEnd - Overlap /\ cursorEnd # Never
    BY <1>0, <2>3 DEF CursorIsSound
  <2> QED
    BY <1>6, <2>2, <2>3
<1>10. RunIsSound(run)'
  <2>1. /\ run.at = "READ" /\ run.from = from /\ run.until = syncTime /\ run.page = 1
        /\ run.got = 0 /\ run.moved = FALSE
    BY <1>2
  <2>2. syncTime <= syncTime' /\ ~(1 > 1)
    BY <1>3, <1>7
  <2>3. \A r \in Shown' : soldAt'[r] >= from \/ Settled(r)' \/ soldAt'[r] < syncTime - Reach
    BY <1>3, <1>4, <1>9 DEF Settled
  <2> QED
    BY <1>7, <2>1, <2>2, <2>3 DEF RunIsSound
<1> QED
  BY <1>3, <1>4, <1>5, <1>8, <1>10

\* A run that fails.
LEMMA FailingStaysSound ==
  ASSUME WindowsInv, NEW n \in SyncRuns, Fails(n)
  PROVE  SyncTypes' /\ GoesOn /\ cursorEnd' = cursorEnd /\ syncRun' = [syncRun EXCEPT ![n] = NoRun]
<1>0. SyncTypes
  BY DEF WindowsInv
<1>1. PICK part \in SUBSET PageOf(Window(syncRun[n].from, syncRun[n].until), syncRun[n].page) :
         /\ Ingest(part) /\ slipped' = slipped \ part
         /\ UNCHANGED <<feed, syncTime, soldAt, rowStamp, due, cursorEnd>>
         /\ syncRun' = [syncRun EXCEPT ![n] = NoRun]
  BY DEF Fails, reportVars
<1>2. part \subseteq Shown
  BY <1>1 DEF PageOf, Window, Sold
<1> QED
  BY <1>0, <1>1, <1>2, IngestingSettles

\* A run that commits: what was due of the rows sold an overlap before its end was on its
\* list, so it has been read, or it slipped.
LEMMA CommittingStaysSound ==
  ASSUME WindowsInv, NEW n \in SyncRuns, Commits(n)
  PROVE  SyncTypes' /\ GoesOn /\ CursorIsSound' /\ syncRun' = [syncRun EXCEPT ![n] = NoRun]
<1>0. SyncTypes /\ syncRun \in [SyncRuns -> {NoRun} \cup Run]
  BY DEF WindowsInv
<1>1. PICK run \in Run : run = syncRun[n] /\ run.at = "COMMIT" /\ RunIsSound(run)
  <2>1. syncRun[n].at = "COMMIT"
    BY DEF Commits
  <2>2. syncRun[n] # NoRun
    BY <2>1 DEF NoRun
  <2> QED
    BY <1>0, <2>1, <2>2 DEF WindowsInv
<1>2. /\ cursorEnd' = run.until /\ UNCHANGED <<feed, syncTime, soldAt, rowStamp, due, ingested>>
      /\ slipped' = slipped \cup PassedOver(run)
      /\ syncRun' = [syncRun EXCEPT ![n] = NoRun]
  BY <1>1 DEF Commits, reportVars
<1>3. /\ Shown' = Shown /\ Shown \subseteq Rows /\ PassedOver(run) \subseteq Shown
      /\ \A r : Settled(r) => Settled(r)'
  BY <1>2 DEF Shown, Settled, PassedOver, Sold
<1>4. /\ run.from \in Int /\ run.until \in Stamps /\ run.until \in Nat /\ run.until <= syncTime
      /\ run.page > 1 /\ run.moved \in BOOLEAN /\ run.listing \in SUBSET Entries
  <2>1. run.page \in Nat \ {0} /\ run.page # 1
    BY <1>1, RunForms DEF RunIsSound
  <2>2. run.page > 1
    BY <2>1
  <2> QED
    BY <1>1, <2>2, RunForms DEF RunIsSound
<1>5. SyncTypes'
  BY <1>0, <1>2, <1>3, <1>4 DEF SyncTypes
<1>6. GoesOn
  <2>1. syncTime' >= syncTime /\ \A r \in Rows : ingested'[r] >= ingested[r] /\ rowStamp'[r] >= rowStamp[r]
    BY <1>0, <1>2, SyncForms
  <2> QED
    BY <1>2, <1>3, <2>1 DEF GoesOn, StaysAsItWas
<1>7. ASSUME NEW r \in Shown
      PROVE  soldAt[r] >= run.until - Overlap \/ Settled(r)' \/ soldAt[r] < syncTime - Reach
  <2>1. soldAt[r] \in Int /\ ingested[r] \in Int /\ due[r] \in Int /\ syncTime \in Nat /\ r \in Rows
    BY <1>0, SyncForms
  <2>2. CASE ~(soldAt[r] >= run.from)
    <3>1. Settled(r) \/ soldAt[r] < run.until - Reach
      BY <1>1, <2>2 DEF RunIsSound
    <3> QED
      BY <1>3, <1>4, <2>1, <3>1, StampsAreNumbers
  <2>3. CASE soldAt[r] >= run.from /\ soldAt[r] < run.until - Overlap
    <3>1. r \in Sold(run.from, run.until)
      BY <1>4, <2>1, <2>3, StampsAreNumbers DEF Sold
    <3>2. CASE run.moved \/ ChangedAway(r, run.until)
      BY <1>2, <2>1, <3>1, <3>2 DEF Settled, PassedOver, ChangedAway
    <3>3. CASE ~run.moved /\ ~ChangedAway(r, run.until)
      <4>1. PICK e \in run.listing : e[1] = r /\ e[2] >= due[r]
        BY <1>1, <1>4, <2>3, <3>3 DEF RunIsSound
      <4>2. ingested[e[1]] >= e[2]
        BY <1>1, <1>4, <3>3 DEF RunIsSound, ReadsItsList
      <4>3. e[2] \in Nat
        BY <1>4, StampsAreNumbers DEF Entries
      <4>4. ingested[r] >= due[r]
        BY <2>1, <4>1, <4>2, <4>3
      <4> QED
        BY <1>2, <4>4 DEF Settled
    <3> QED
      BY <3>2, <3>3
  <2> QED
    BY <1>4, <2>1, <2>2, <2>3, StampsAreNumbers
<1>8. CursorIsSound'
  BY <1>2, <1>3, <1>7 DEF CursorIsSound
<1> QED
  BY <1>2, <1>5, <1>6, <1>8

\* What follows from a step that goes on, for the runs and the cursor.
LEMMA WindowsStepInvariant ==
  WindowsInv /\ [SyncNext \/ OrdersNext]_syncVars => WindowsInv'
<1> SUFFICES ASSUME WindowsInv, [SyncNext \/ OrdersNext]_syncVars PROVE WindowsInv'
  OBVIOUS
<1>0. SyncTypes /\ syncRun \in [SyncRuns -> {NoRun} \cup Run] /\ CursorIsSound
  BY DEF WindowsInv
<1>1. ASSUME NEW n \in SyncRuns, NEW next \in {NoRun} \cup Run, syncRun' = [syncRun EXCEPT ![n] = next],
             next # NoRun => RunIsSound(next)', SyncTypes', GoesOn
      PROVE  /\ syncRun' \in [SyncRuns -> {NoRun} \cup Run]
             /\ \A m \in SyncRuns : syncRun'[m] # NoRun => RunIsSound(syncRun[m])'
  <2>1. syncRun' \in [SyncRuns -> {NoRun} \cup Run]
    BY <1>0, <1>1
  <2>2. ASSUME NEW m \in SyncRuns, syncRun'[m] # NoRun PROVE RunIsSound(syncRun[m])'
    <3>1. CASE m = n
      <4>1. syncRun'[m] = next
        BY <1>0, <1>1, <3>1
      <4> QED
        BY <1>1, <2>2, <4>1
    <3>2. CASE m # n
      <4>1. PICK run \in Run : run = syncRun[m] /\ run = syncRun'[m]
        BY <1>0, <1>1, <2>2, <3>2
      <4>2. RunIsSound(run)
        BY <2>2, <4>1 DEF WindowsInv
      <4>3. RunIsSound(run)'
        BY <1>0, <1>1, <4>2, SoundRunsStaySound
      <4> QED
        BY <4>1, <4>3
    <3> QED
      BY <3>1, <3>2
  <2> QED
    BY <2>1, <2>2
<1>2. CASE Otherwise
  <2>1. SyncTypes' /\ GoesOn /\ cursorEnd' = cursorEnd /\ syncRun' = syncRun
    BY <1>2, OthersStaySound
  <2>2. ASSUME NEW m \in SyncRuns, syncRun'[m] # NoRun PROVE RunIsSound(syncRun[m])'
    <3>1. PICK run \in Run : run = syncRun[m] /\ run = syncRun'[m]
      BY <1>0, <2>1, <2>2
    <3>2. RunIsSound(run)
      BY <2>2, <3>1 DEF WindowsInv
    <3>3. RunIsSound(run)'
      BY <1>0, <2>1, <3>2, SoundRunsStaySound
    <3> QED
      BY <3>1, <3>3
  <2>3. CursorIsSound'
    BY <1>0, <2>1, SoundCursorStaysSound
  <2> QED
    BY <1>0, <2>1, <2>2, <2>3 DEF WindowsInv
<1>3. ASSUME NEW n \in SyncRuns, NEW backfill \in BOOLEAN, Begins(n, WindowStart(backfill)) PROVE WindowsInv'
  <2>1. /\ SyncTypes' /\ GoesOn /\ cursorEnd' = cursorEnd
        /\ \E run \in Run : syncRun' = [syncRun EXCEPT ![n] = run] /\ RunIsSound(run)'
    BY <1>3, BeginningIsSound
  <2>2. CursorIsSound'
    BY <1>0, <2>1, SoundCursorStaysSound
  <2> QED
    BY <1>1, <2>1, <2>2 DEF WindowsInv
<1>4. ASSUME NEW n \in SyncRuns, ReadPage(n) PROVE WindowsInv'
  <2>1. /\ SyncTypes' /\ GoesOn /\ cursorEnd' = cursorEnd
        /\ \E run \in Run : syncRun' = [syncRun EXCEPT ![n] = run] /\ RunIsSound(run)'
    BY <1>4, ReadingStaysSound
  <2>2. CursorIsSound'
    BY <1>0, <2>1, SoundCursorStaysSound
  <2> QED
    BY <1>1, <2>1, <2>2 DEF WindowsInv
<1>5. ASSUME NEW n \in SyncRuns, Fails(n) PROVE WindowsInv'
  <2>1. SyncTypes' /\ GoesOn /\ cursorEnd' = cursorEnd /\ syncRun' = [syncRun EXCEPT ![n] = NoRun]
    BY <1>5, FailingStaysSound
  <2>2. CursorIsSound'
    BY <1>0, <2>1, SoundCursorStaysSound
  <2> QED
    BY <1>1, <2>1, <2>2 DEF WindowsInv
<1>6. ASSUME NEW n \in SyncRuns, Commits(n) PROVE WindowsInv'
  <2>1. SyncTypes' /\ GoesOn /\ CursorIsSound' /\ syncRun' = [syncRun EXCEPT ![n] = NoRun]
    BY <1>6, CommittingStaysSound
  <2> QED
    BY <1>1, <2>1 DEF WindowsInv
<1>7. SyncNext => \/ NetworkNext
                  \/ \E n \in SyncRuns : \/ \E backfill \in BOOLEAN : Begins(n, WindowStart(backfill))
                                         \/ ReadPage(n) \/ Fails(n) \/ Commits(n)
  BY DEF SyncNext, StartRun, StartClicks, CommitRun, CommitClicks, FailRun, FailClicks
<1>8. CASE SyncNext
  BY <1>2, <1>3, <1>4, <1>5, <1>6, <1>7, <1>8 DEF Otherwise
<1>9. CASE OrdersNext \/ UNCHANGED syncVars
  BY <1>2, <1>9 DEF OrdersNext, Otherwise
<1> QED
  BY <1>8, <1>9

\* No row that was sold an overlap before the cursor misses what was due of it, unless it
\* slipped when its window changed under a run, or is older than any window reaches
\* (runner.ts:70-205, accesstrade.ts:307-375, lazada.ts:197-280).
THEOREM NothingStaysMissed == SyncSpec => []NothingMissedBehindTheCursor
<1>1. WindowsInv => NothingMissedBehindTheCursor
  BY DEF WindowsInv, CursorIsSound, Settled, NothingMissedBehindTheCursor
<1> QED
  BY <1>1, WindowsInitInvariant, WindowsStepInvariant, PTL DEF SyncSpec
=============================================================================
