------------------------------- MODULE Links -------------------------------
(***************************************************************************)
(* Tracking links (modules/links/service.ts, links/tenant-policy.ts, the   *)
(* rates, the shop's settings).  A request reads the shop's terms, finds   *)
(* or makes the provider account they name, asks the provider for a link   *)
(* and only then writes the click, in a transaction that looks at the      *)
(* shop's subscription again.  Meanwhile the owner changes the settings,   *)
(* the subscription ends, another shop takes the same affiliate id, and    *)
(* the same request arrives a second time.  A buyer without a shop gets    *)
(* the platform's account and a share from the commission rules.           *)
(***************************************************************************)
EXTENDS Integers, FiniteSets

CONSTANTS
    LinkShops,     \* tenants that make links
    AffiliateIds,  \* affiliate ids of the Shopee network
    Shares,        \* shares a shop or a rule can set
    LinkCalls,     \* requests for a link
    LinkKeys,      \* idempotency keys, each of one buyer
    Contents,      \* request hashes
    BuyersShop,    \* the shop of each key's buyer, or NoTenant
    OwnersKeys,    \* keys of owners, who ask for their shop's chat channel
    MaxSettings    \* bound on the changes of settings and rules

ASSUME LinksAssumption ==
    /\ BuyersShop \in [LinkKeys -> LinkShops \cup {"NO_TENANT"}]
    /\ "NO_TENANT" \notin LinkShops
    /\ \A k \in OwnersKeys : BuyersShop[k] \in LinkShops
    /\ MaxSettings \in Nat

VARIABLES
    terms,         \* shop: affiliate id and share, or Unset
    inService,     \* shop: its subscription is in effect, with the connector
    merchantShare, \* Merchant.defaultShareBps, or NoShare before there is a merchant
    accountOwner,  \* AffiliateAccount: the shop of each affiliate id, or NoTenant
    ruleShare,     \* newest version of each commission rule, or NoShare
    linkCall,      \* the requests
    click,         \* AffiliateClick by idempotency key, or NoClick
    linkAnswers,   \* what was answered: key, request, click
    changes        \* changes of settings and rules so far

linkVars == <<terms, inService, merchantShare, accountOwner, ruleShare, linkCall, click,
              linkAnswers, changes>>

NoTenant == "NO_TENANT"
NoShare == 0
Unset == [affiliate |-> NoTenant, share |-> NoShare]
NoClick == [token |-> NoTenant]
Asleep == [at |-> "ASLEEP"]
House == "PLATFORM_ACCOUNT"

LinkInit ==
    /\ terms = [s \in LinkShops |-> Unset]
    /\ inService = [s \in LinkShops |-> TRUE]
    /\ merchantShare = NoShare
    /\ accountOwner = [a \in AffiliateIds |-> NoTenant]
    /\ ruleShare = [scope \in {"USER", "MERCHANT_DEFAULT", "SYSTEM_DEFAULT"} |-> NoShare]
    /\ linkCall = [c \in LinkCalls |-> Asleep]
    /\ click = [k \in LinkKeys |-> NoClick]
    /\ linkAnswers = {}
    /\ changes = 0

-----------------------------------------------------------------------------
(* What changes under a request. *)

NameTerms(s) ==
    /\ changes < MaxSettings
    /\ \E a \in AffiliateIds, p \in Shares :
          /\ terms[s] # [affiliate |-> a, share |-> p]
          /\ terms' = [terms EXCEPT ![s] = [affiliate |-> a, share |-> p]]
    /\ changes' = changes + 1
    /\ UNCHANGED <<inService, merchantShare, accountOwner, ruleShare, linkCall, click, linkAnswers>>

\* updateTenantSettingsAction: the owner names another affiliate id or share.
UpdateSettings(s) == NameTerms(s)

\* updateTenantAdminAction: an administrator does, whatever accounts the shop
\* has made, and whether it is in service or not.
AdminUpdatesShop(s) == NameTerms(s)

\* upsertMerchantAction: before it there is no partner to make links for.
UpsertMerchant(p) ==
    /\ merchantShare # p
    /\ merchantShare = NoShare \/ changes < MaxSettings
    /\ merchantShare' = p
    /\ changes' = IF merchantShare = NoShare THEN changes ELSE changes + 1
    /\ UNCHANGED <<terms, inService, accountOwner, ruleShare, linkCall, click, linkAnswers>>

\* The shop is suspended, expires, or loses the connector with its plan; or the
\* opposite.
ChangeSubscription(s) ==
    /\ changes < MaxSettings
    /\ inService' = [inService EXCEPT ![s] = ~@]
    /\ changes' = changes + 1
    /\ UNCHANGED <<terms, merchantShare, accountOwner, ruleShare, linkCall, click, linkAnswers>>

\* createRuleVersion: the newest version of a rule is the one in force.  The
\* three scopes that name a user are one here.
CreateRuleVersion(scope, p) ==
    /\ changes < MaxSettings
    /\ ruleShare[scope] # p
    /\ ruleShare' = [ruleShare EXCEPT ![scope] = p]
    /\ changes' = changes + 1
    /\ UNCHANGED <<terms, inService, merchantShare, accountOwner, linkCall, click, linkAnswers>>

-----------------------------------------------------------------------------
(* createAffiliateLink. *)

\* The caller ends with an answer about the key's click, or is refused.
Answer(c, k, q, made) ==
    /\ linkAnswers' = linkAnswers \cup
          {[key |-> k, content |-> q, token |-> made.token, share |-> made.share]}
    /\ linkCall' = [linkCall EXCEPT ![c] = Asleep]

RefuseLink(c) ==
    /\ linkCall' = [linkCall EXCEPT ![c] = Asleep]
    /\ UNCHANGED linkAnswers

\* Mutant: the key alone decides.
AnswerAnyExisting(c, k, q) == Answer(c, k, q, click[k])

\* existingClickResult: the click the key made, for the same request only.
AnswerExisting(c, k, q) ==
    IF click[k].content = q THEN Answer(c, k, q, click[k]) ELSE RefuseLink(c)

\* The key is known: its click is the answer, with the share it was made for.
RepeatRequest(c, k, q) ==
    /\ linkCall[c] = Asleep
    /\ click[k] # NoClick
    /\ AnswerExisting(c, k, q)
    /\ UNCHANGED <<terms, inService, merchantShare, accountOwner, ruleShare, click, changes>>

\* The key is new, and there is an active merchant for it.
NewRequest(c, k) == linkCall[c] = Asleep /\ click[k] = NoClick /\ merchantShare # NoShare

\* resolveTenantLinkPolicy: subscription, share and affiliate id of the shop, as
\* they are when the request starts.  The click token is drawn here.
StartShopLink(c, k, q) ==
    LET s == BuyersShop[k]
    IN  /\ NewRequest(c, k)
        /\ s # NoTenant /\ k \notin OwnersKeys
        /\ inService[s]
        /\ terms[s] # Unset
        /\ linkCall' = [linkCall EXCEPT ![c] =
              [at |-> "ACCOUNT", key |-> k, content |-> q, shop |-> s,
               affiliate |-> terms[s].affiliate, share |-> terms[s].share,
               account |-> House]]
        /\ UNCHANGED <<terms, inService, merchantShare, accountOwner, ruleShare, click, linkAnswers, changes>>

\* The owner asks for a link of the shop's own channel: nothing is shared.
StartChannelLink(c, k, q) ==
    LET s == BuyersShop[k]
    IN  /\ NewRequest(c, k)
        /\ k \in OwnersKeys
        /\ inService[s]
        /\ terms[s] # Unset
        /\ linkCall' = [linkCall EXCEPT ![c] =
              [at |-> "ACCOUNT", key |-> k, content |-> q, shop |-> s,
               affiliate |-> terms[s].affiliate, share |-> NoShare, account |-> House]]
        /\ UNCHANGED <<terms, inService, merchantShare, accountOwner, ruleShare, click, linkAnswers, changes>>

\* resolveCommissionRate and chooseRate: a rule for the user, else the system's
\* default, else the merchant's own share; rules of scope MERCHANT_DEFAULT are
\* not among those looked up.
RateInForce ==
    IF ruleShare["USER"] # NoShare THEN ruleShare["USER"]
    ELSE IF ruleShare["SYSTEM_DEFAULT"] # NoShare THEN ruleShare["SYSTEM_DEFAULT"]
    ELSE merchantShare

StartPlatformLink(c, k, q) ==
    /\ NewRequest(c, k)
    /\ BuyersShop[k] = NoTenant
    /\ linkCall' = [linkCall EXCEPT ![c] =
          [at |-> "WRITE", key |-> k, content |-> q, shop |-> NoTenant,
           affiliate |-> House, share |-> RateInForce, account |-> House]]
    /\ UNCHANGED <<terms, inService, merchantShare, accountOwner, ruleShare, click, linkAnswers, changes>>

\* The account of the shop's affiliate id, if it is this shop's; a request that
\* finds none goes on to create it, one that finds another shop's is refused.
FindAccount(c) ==
    LET call == linkCall[c]
    IN  /\ call.at = "ACCOUNT"
        /\ IF accountOwner[call.affiliate] \in {NoTenant, call.shop}
           THEN /\ linkCall' = [linkCall EXCEPT
                      ![c].at = IF accountOwner[call.affiliate] = NoTenant
                                THEN "CREATE" ELSE "WRITE",
                      ![c].account = call.affiliate]
                /\ UNCHANGED linkAnswers
           ELSE RefuseLink(c)
        /\ UNCHANGED <<terms, inService, merchantShare, accountOwner, ruleShare, click, changes>>

\* Mutant: an upsert on the affiliate id instead of a create.
UpsertAccount(c) ==
    LET call == linkCall[c]
    IN  /\ call.at = "CREATE"
        /\ accountOwner' = [accountOwner EXCEPT ![call.affiliate] =
              IF @ = NoTenant THEN call.shop ELSE @]
        /\ linkCall' = [linkCall EXCEPT ![c].at = "WRITE"]
        /\ UNCHANGED <<terms, inService, merchantShare, ruleShare, click, linkAnswers, changes>>

\* affiliateAccount.create: the affiliate id is unique, so the second of two
\* requests fails.
CreateAccount(c) ==
    LET call == linkCall[c]
    IN  /\ call.at = "CREATE"
        /\ IF accountOwner[call.affiliate] = NoTenant
           THEN /\ accountOwner' = [accountOwner EXCEPT ![call.affiliate] = call.shop]
                /\ linkCall' = [linkCall EXCEPT ![c].at = "WRITE"]
                /\ UNCHANGED linkAnswers
           ELSE RefuseLink(c) /\ UNCHANGED accountOwner
        /\ UNCHANGED <<terms, inService, merchantShare, ruleShare, click, changes>>

\* What the last transaction asks of the shop under its row lock.
StillServed(call) == call.shop # NoTenant => inService[call.shop]

\* The click and its attribution, once the provider's link is there.  When the
\* key has been used meanwhile, the unique index sends the request to the click
\* that was made with it.
WriteClick(c) ==
    LET call == linkCall[c]
        made == [token |-> c, content |-> call.content, shop |-> call.shop,
                 account |-> call.account, share |-> call.share]
    IN  /\ call.at = "WRITE"
        /\ StillServed(call)
        /\ IF click[call.key] = NoClick
           THEN /\ click' = [click EXCEPT ![call.key] = made]
                /\ Answer(c, call.key, call.content, made)
           ELSE /\ AnswerExisting(c, call.key, call.content)
                /\ UNCHANGED click
        /\ UNCHANGED <<terms, inService, merchantShare, accountOwner, ruleShare, changes>>

\* The provider, the database or the shop's subscription ends the request.
FailLink(c) ==
    /\ linkCall[c] # Asleep
    /\ RefuseLink(c)
    /\ UNCHANGED <<terms, inService, merchantShare, accountOwner, ruleShare, click, changes>>

LinkNext ==
    \/ \E s \in LinkShops :
          UpdateSettings(s) \/ AdminUpdatesShop(s) \/ ChangeSubscription(s)
    \/ \E p \in Shares : UpsertMerchant(p)
    \/ \E scope \in DOMAIN ruleShare, p \in Shares : CreateRuleVersion(scope, p)
    \/ \E c \in LinkCalls :
          \/ \E k \in LinkKeys, q \in Contents :
                \/ RepeatRequest(c, k, q)
                \/ StartShopLink(c, k, q)
                \/ StartChannelLink(c, k, q)
                \/ StartPlatformLink(c, k, q)
          \/ FindAccount(c)
          \/ CreateAccount(c)
          \/ WriteClick(c)
          \/ FailLink(c)

LinkSpec == LinkInit /\ [][LinkNext]_linkVars

-----------------------------------------------------------------------------
(* Properties. *)

LinkTypeOK ==
    /\ \A s \in LinkShops : terms[s] = Unset \/ terms[s].share \in Shares
    /\ inService \in [LinkShops -> BOOLEAN]
    /\ merchantShare \in Shares \union {NoShare}
    /\ accountOwner \in [AffiliateIds -> LinkShops \cup {NoTenant}]
    /\ \A c \in LinkCalls :
          linkCall[c].at \in {"ASLEEP", "ACCOUNT", "CREATE", "WRITE"}
    /\ \A k \in LinkKeys : click[k] = NoClick \/ click[k].content \in Contents
    /\ changes \in 0..MaxSettings

\* A key stands for one link: whatever is answered under it, at once or later,
\* by one server or two, is the same link with the same share for the same
\* request, also when the shop has changed its terms in between.
LinksAreIdempotent ==
    \A a, b \in linkAnswers : a.key = b.key => a = b

\* A shop's link pays an account of that shop: never one that another shop, that
\* named the same affiliate id, made its own first.
LinksPayTheirShop ==
    \A k \in LinkKeys :
       click[k] # NoClick /\ click[k].shop # NoTenant =>
          accountOwner[click[k].account] = click[k].shop
=============================================================================
