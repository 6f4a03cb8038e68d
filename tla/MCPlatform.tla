----------------------------- MODULE MCPlatform -------------------------------
(***************************************************************************)
(* A small instance of Platform, for TLC.                                  *)
(***************************************************************************)
EXTENDS Platform, TLC

CONSTANTS
  own, house, counter, odd, twice,   \* files
  r1, r2, r3, r4, r5,                \* and their rows
  koc, sale, k1, k2, k3, k4,         \* shops with links, keys of three buyers and an owner
  mia, noa, zoe, sh1, sh2,           \* chat members and their shops
  m1, m2, g1, g2, z1, b1, b2,       \* messages, groups, a sender, invoices
  dr1, dr2,                          \* requests for deletion
  pa1, pa2,                          \* accounts at the two networks
  c1, c2,                            \* what offers say
  boss,                              \* who owns the master tenant
  p1, p2                             \* processes of every kind

RowNumbers == 1..2

RowsOfFile == own :> {r1, r2} @@ house :> {r1, r3} @@ counter :> {r2, r3}
              @@ odd :> {r1, r4} @@ twice :> {r2, r5}
KindOfFile == own :> "TENANT" @@ house :> "PLATFORM" @@ counter :> "DESK"
              @@ odd :> "TENANT" @@ twice :> "PLATFORM"
KeyOfRow == [r \in {r1, r2, r3, r4, r5} |-> IF r = r5 THEN r2 ELSE r]

ShopOfKey == k1 :> koc @@ k2 :> sale @@ k3 :> NoTenant @@ k4 :> koc

NetworkOfAccount == pa1 :> "ACCESSTRADE" @@ pa2 :> "LAZADA"

DealNumbers == 1..2

Homes == mia :> sh1 @@ noa :> sh1 @@ zoe :> sh2

SeatsOfPlan == [plan \in PlanCodes |-> IF plan = "PRO" THEN 2 ELSE 1]

\* Two processes: two requests, jobs, webhooks or people, whoever moves.
ProcessSymmetry == Permutations({p1, p2})

\* The invitation is dealt with before the person's profile changes again.  The
\* profile changes a last time only when no change of status ended half way, and
\* then sign-ins do not meet webhooks.  Two of a webhook, a sign-in and the
\* administrators meet at once.
InvitesFirst ==
  focus = "IDENTITY" =>
    /\ \/ \A p \in People : clerkUser[p].version <= 1
       \/ /\ \A i \in InviteIds : invite[i].at = "ACCEPTED"
          /\ \A a \in Admins : desk[a].at \notin {"INVITE", "SEND"}
    /\ (\E p \in People : clerkUser[p].version = MaxVersion) =>
         /\ cutShort = {}
         /\ \/ \A p \in People : signIn[p] = Idle
            \/ \A h \in Handlers : handler[h] = Idle
    /\ Cardinality({h \in Handlers : handler[h] # Idle})
         + Cardinality({p \in People : signIn[p] # Idle})
         + Cardinality({a \in Admins : desk[a] # Idle}) <= 2

\* Notices are not sent while replies are, as they share only the dispatchers.
OneKindAtATime ==
  focus = "OUTBOX" =>
    \/ \A e \in Notices : event[e].attempts = 0 /\ event[e].status = "PENDING"
    \/ \A e \in Replies : event[e].attempts = 0 /\ event[e].status = "PENDING"

\* One report is read, and the second row does not change: two runs read
\* AccessTrade's, at the same time only while it has one row and is young, one run
\* reads each of the others, whose rows do not leave the longest window.
OneReader ==
  /\ focus = "SYNC" =>
       /\ rowStamp[2] = soldAt[2]
       /\ rowStamp[2] # Never => syncTime < Reach
       /\ (\A n \in SyncRuns : syncRun[n] # NoRun) =>
            feed = "ACCESSTRADE" /\ rowStamp[2] = Never /\ syncTime < Reach - 1
       /\ feed # "ACCESSTRADE" =>
            syncTime < Reach /\ (rowStamp[2] # Never => syncTime < Reach - 1)
  /\ focus \notin {"SYNC", "ORDERS"} => feed = "CLICKS"

\* The order list is AccessTrade's, does not tell of changes, and is read when its
\* first rows begin to leave it.
LateRounds ==
  focus = "ORDERS" =>
    /\ feed = "ACCESSTRADE" /\ rowStamp = soldAt
    /\ syncTime < Reach => \A n \in SyncRuns : orderRun[n] = NoRun

\* A second invoice, days an administrator gives, or members.
JoinsOrBills ==
  focus = "TENANCY" =>
    \/ Cardinality({b \in Bills : bill[b] # NoBill}) <= 1
    \/ /\ \A u \in Joiners : memberOf[u] = Unattached
       /\ \A t \in Shops : adjusted[t] = 0

\* One message binds a group or a sender, by one call at a time; the other one asks
\* for something, and may be handled by two calls, one of which has not yet served;
\* a locked command meets no other call.
BindAndAsk ==
  /\ focus = "ZALO" /\ (\A d \in Deliveries : call[d] # NoCall) =>
       /\ \E d \in Deliveries : call[d].at \in {"READ", "SERVE"}
       /\ \A d \in Deliveries : call[d].at # "LOCKED"
  /\ \A d, e \in Deliveries :
       d # e /\ call[d] # NoCall /\ call[e] # NoCall => m2 \in {call[d].message, call[e].message}
  /\ \A message \in said[m1] : message.text.kind \in {"LINK", "BIND"}
  /\ \A message \in said[m2] : message.text.kind \in {"MONEY", "URL"} /\ message.sender = z1

\* Of rows, invoices and requests, which are alike, the first
\* comes first.
FirstComesFirst ==
  /\ rowStamp[1] = Never => rowStamp[2] = Never
  /\ bill[b1] = NoBill => bill[b2] = NoBill
  /\ request[dr1] = "NONE" => request[dr2] = "NONE"

\* The second group is the second shop's from the start, the first one may be the
\* first shop's; a group is bound by a code, or members of the shop of a bound one
\* by tokens; a binding expires when something was asked.
GroupsOrMembers ==
  focus = "ZALO" =>
    /\ groupOf[g1] \subseteq {sh1} /\ groupOf[g2] = {sh2}
    /\ \/ \A c \in GroupCodes : groupCode[c] = Unused
       \/ \A t \in UserTokens : userToken[t] = Unused
    /\ groupOf[g1] = {} => \A t \in UserTokens : userToken[t] = Unused
    /\ identified[z1] = {} => said[m2] # {}

\* One account is in use, the second only at first; it is set up before its connector
\* is, or is the platform's; the owner is done when time begins to pass; jobs of two
\* kinds meet at first, and one of them meets a hold job, which sends an order to
\* review at first and to validation at any time; the order is judged once.
SetUpFirst ==
  focus = "CONNECTORS" =>
    /\ \/ providerAccount[pa2] = NoAccount
       \/ providerAccount[pa1] = NoAccount /\ connectorClock <= 1
    /\ \A a \in ProviderAccounts :
         /\ heldOrder[a] = "HELD"
         /\ connector[a].enabled \/ connector[a].mode = "DISABLED"
         /\ activeAt[a] # NeverYet => providerAccount[a].holdDays \/ providerAccount[a].scope = "PLATFORM"
         /\ connectorClock > 0 /\ newestCredential[a] > 0 => a \notin saving /\ providerAccount[a].holdDays
         /\ connectorClock > 0 /\ newestCredential[a] = 0 => providerAccount[a].scope # "TENANT"
    /\ \A i, j \in ConnectorJobs : i # j =>
         /\ connectorJob[i] # NoJob /\ connectorJob[j] # NoJob =>
              /\ connectorJob[i].kind # connectorJob[j].kind
              /\ pa1 \in {connectorJob[i].account, connectorJob[j].account}
              /\ connectorClock = 0 /\ holdJob[i] = NoJob
         /\ holdJob[i] # NoJob =>
              /\ holdJob[j] = NoJob /\ connectorJob[i] = NoJob
              /\ holdJob[i].verdict = "VALIDATED" \/ connectorClock = 0
         /\ holdJob[i] # NoJob /\ connectorJob[j] # NoJob =>
              connectorJob[j].kind = "HEALTH" /\ holdJob[i].verdict = "VALIDATED"
         /\ connectorClock = MaxConnectorClock => connectorJob[i] = NoJob

\* The merchant's share is one value; the buyer without a shop and the owner do
\* not ask for links in one run.
PlainMerchant ==
  focus = "LINKS" =>
    /\ merchantShare # 7
    /\ LET busy == {linkCall[c].key : c \in {d \in LinkCalls : linkCall[d] # Asleep}}
                     \union {answer.key : answer \in linkAnswers} IN
       ~({k3, k4} \subseteq busy)

\* Two runs meet over one offer, and one run reads two, the second of which always
\* says the same; where there are no pages, or none is read, less happens.
PlainOffers ==
  focus = "OFFERS" =>
    LET asking == {n \in OfferRuns : offerRun[n] # NoOfferRun}
        listed == {d \in Deals : lastSaid[d] # [c \in DealTexts |-> NeverSaid]} IN
    /\ Cardinality(asking) + Cardinality(listed) <= 3
    /\ lastSaid[2][c2] = NeverSaid
    /\ lastSaid[2][c1] # NeverSaid => offerClock < MaxOfferClock
    /\ \A n \in asking : offerRun[n].at = "ASKS" /\ offerRun[n].tries > 1 =>
         asking = {n} /\ lastSaid[2][c1] = NeverSaid
    /\ shelf = "ADDLIVETAG" => Cardinality(asking) <= 1 /\ lastSaid[1][c2] = NeverSaid
    /\ shelf = "LAZADA" => Cardinality(asking) <= 1 /\ listed \subseteq {1} /\ lastSaid[1][c2] = NeverSaid

\* The session is revoked or the account barred.
RevokedOrBarred == focus = "ACCESS" /\ session = "REVOKED" => ~barredAtClerk

\* The owner of the master tenant is nothing else, but may be an administrator,
\* and stays the owner without: nobody takes that role from them.
PlainBoss ==
  focus = "ACTORS" =>
    /\ person[boss].tenant = Nowhere /\ "FINANCE_APPROVER" \notin person[boss].roles
    /\ boss \notin counted

\* While one part moves, the others start in one state.
MCInit ==
  /\ PlatformInit
  /\ focus # "DELETION" => owed = {}
  /\ focus # "OFFERS" => shelf = "LAZADA"
  /\ focus # "ZALO" =>
       groupOf = [g \in Chats |-> {}] /\ identified = [z \in Senders |-> {}]
  /\ focus = "ZALO" => \A z \in Senders : identified[z] = IF z = z1 THEN {mia} ELSE {}

MCSpec == MCInit /\ [][PlatformNext]_platformVars
=============================================================================
