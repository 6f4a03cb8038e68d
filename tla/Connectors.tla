------------------------------ MODULE Connectors ------------------------------
(***************************************************************************)
(* Provider accounts of Lazada and AccessTrade: the account, its verified  *)
(* credentials, the connector's mode, and the health that jobs write and   *)
(* the hold job trusts (modules/connectors/provider-credentials.ts,        *)
(* modules/jobs/runner.ts, modules/conversions/service.ts, the shop's      *)
(* settings, the administrator's catalog).                                 *)
(*                                                                         *)
(* A job lists the connectors, takes the credential of one, calls the      *)
(* network for as long as the platform lets it run, and writes the mode it *)
(* had listed as the connector's health; the administrator may have        *)
(* changed the mode, and the owner the credential, in between.  The hold   *)
(* job reads mode and health, and writes what it made of them later.       *)
(***************************************************************************)
EXTENDS Integers

CONSTANTS
  ProviderAccounts,   \* AffiliateAccount rows, each with its connector
  NetworkOf,          \* the network of each: "ACCESSTRADE" or "LAZADA"
  Environment,        \* networks the platform has keys of its own for
  ConnectorJobs,      \* concurrent runs of the jobs
  Freshness,          \* freshnessMs
  JobTime,            \* maxDuration of the jobs' route
  MaxCredential,      \* bound: rotations of a credential
  MaxConnectorClock   \* bound: the clock

Networks == {"ACCESSTRADE", "LAZADA"}

ASSUME ConnectorsAssumption ==
  /\ NetworkOf \in [ProviderAccounts -> Networks]
  /\ Environment \subseteq Networks
  /\ \A t \in {Freshness, JobTime, MaxCredential, MaxConnectorClock} : t \in Nat

VARIABLES
  connectorClock,
  providerAccount,    \* AffiliateAccount rows
  newestCredential,   \* ProviderCredential: the newest version, the only one ACTIVE
  saving,             \* accounts whose owner has saved a credential and now sets the days
  connector,          \* ConnectorConfig rows
  connectorHealth,    \* ConnectorHealth rows
  connectorJob,
  holdJob,            \* runs of releaseDueSafetyHolds
  heldOrder,          \* an order under a hold, reported by the connector
  activeAt            \* when the connector was last enabled and in mode ACTIVE

connectorsVars == <<connectorClock, providerAccount, newestCredential, saving, connector,
                    connectorHealth, connectorJob, holdJob, heldOrder, activeAt>>
accountVars == <<providerAccount, newestCredential, saving>>
holdVars == <<holdJob, heldOrder>>

NeverYet == -1
Modes == {"ACTIVE", "SHADOW", "DISABLED"}
NoAccount == [scope |-> "NONE", holdDays |-> FALSE]
NoConnector == [mode |-> "DISABLED", enabled |-> FALSE]
NoHealth == [status |-> "NONE", success |-> NeverYet]
NoJob == [at |-> "NO_JOB"]

ConnectorsInit ==
  /\ connectorClock = 0
  /\ providerAccount = [a \in ProviderAccounts |-> NoAccount]
  /\ newestCredential = [a \in ProviderAccounts |-> 0]
  /\ saving = {}
  /\ connector = [a \in ProviderAccounts |-> NoConnector]
  /\ connectorHealth = [a \in ProviderAccounts |-> NoHealth]
  /\ connectorJob = [j \in ConnectorJobs |-> NoJob]
  /\ holdJob = [j \in ConnectorJobs |-> NoJob]
  /\ heldOrder = [a \in ProviderAccounts |-> "HELD"]
  /\ activeAt = [a \in ProviderAccounts |-> NeverYet]

InActiveMode(row) == row.enabled /\ row.mode = "ACTIVE"

\* Time passes, but no job runs for longer than it may.
ConnectorsTick ==
  /\ connectorClock < MaxConnectorClock
  /\ \A j \in ConnectorJobs :
       /\ connectorJob[j] # NoJob => connectorClock < connectorJob[j].since + JobTime
       /\ holdJob[j] # NoJob => connectorClock < holdJob[j].since + JobTime
  /\ connectorClock' = connectorClock + 1
  /\ activeAt' = [a \in ProviderAccounts |->
       IF InActiveMode(connector[a]) THEN connectorClock + 1 ELSE activeAt[a]]
  /\ UNCHANGED <<accountVars, connector, connectorHealth, connectorJob, holdVars>>

-----------------------------------------------------------------------------
(* The owner and the administrator.                                        *)

\* createProviderAccountAction: switched off until an administrator looks at it.
OpenAccount(a) ==
  /\ providerAccount[a] = NoAccount
  /\ providerAccount' = [providerAccount EXCEPT ![a].scope = "TENANT"]
  /\ UNCHANGED <<connectorClock, newestCredential, saving, connector, connectorHealth,
                 connectorJob, holdVars, activeAt>>

\* saveVerifiedProviderCredential: the next version replaces the one before, under
\* the account's lock.  The days of the hold are optional and come after it.
SaveCredential(a) ==
  /\ providerAccount[a].scope = "TENANT"
  /\ newestCredential[a] < MaxCredential
  /\ newestCredential' = [newestCredential EXCEPT ![a] = @ + 1]
  /\ saving' = saving \union {a} \/ UNCHANGED saving
  /\ UNCHANGED <<connectorClock, providerAccount, connector, connectorHealth, connectorJob,
                 holdVars, activeAt>>

\* updateProviderCredentialAction, after the credential.
SetHoldDays(a) ==
  /\ a \in saving
  /\ providerAccount' = [providerAccount EXCEPT ![a].holdDays = TRUE]
  /\ saving' = saving \ {a}
  /\ UNCHANGED <<connectorClock, newestCredential, connector, connectorHealth, connectorJob,
                 holdVars, activeAt>>

\* upsertAffiliateAccountAction: an account the shop has not opened becomes the
\* platform's.
SetConnector(a, mode, on) ==
  LET row == [mode |-> mode, enabled |-> on] IN
  /\ connector[a] # row
  /\ connector' = [connector EXCEPT ![a] = row]
  /\ providerAccount' = [providerAccount EXCEPT
       ![a].scope = IF @ = "NONE" THEN "PLATFORM" ELSE @]
  /\ activeAt' = IF InActiveMode(row) THEN [activeAt EXCEPT ![a] = connectorClock] ELSE activeAt
  /\ UNCHANGED <<connectorClock, newestCredential, saving, connectorHealth, connectorJob, holdVars>>

-----------------------------------------------------------------------------
(* Jobs.                                                                   *)

\* The accounts a provider is called for: its connector enabled and, for orders,
\* neither disabled nor without the days of a hold.
Listed(kind, a) ==
  /\ connector[a].enabled
  /\ kind = "SYNC" => connector[a].mode \in {"ACTIVE", "SHADOW"} /\ providerAccount[a].holdDays

StartJob(j, kind, a) ==
  /\ connectorJob[j] = NoJob
  /\ Listed(kind, a)
  /\ connectorJob' = [connectorJob EXCEPT ![j] =
       [at |-> "LISTED", kind |-> kind, account |-> a, mode |-> connector[a].mode,
        credential |-> 0, since |-> connectorClock]]
  /\ UNCHANGED <<connectorClock, accountVars, connector, connectorHealth, holdVars, activeAt>>

\* activeProviderCredential; version 0 is the platform's own, from its
\* environment.
TakeCredential(j) ==
  /\ connectorJob[j].at = "LISTED"
  /\ connectorJob' = [connectorJob EXCEPT
       ![j].at = "CALLS", ![j].credential = newestCredential[connectorJob[j].account]]
  /\ UNCHANGED <<connectorClock, accountVars, connector, connectorHealth, holdVars, activeAt>>

JobEnds(j) == connectorJob' = [connectorJob EXCEPT ![j] = NoJob]

\* Each connector takes the keys of the credential it was given, or the platform's,
\* and throws before the call where there are none.
AccessTradeRequest(job) == job.credential > 0 \/ "ACCESSTRADE" \in Environment
LazadaCall(job) == job.credential > 0 \/ "LAZADA" \in Environment

CanCall(job) ==
  IF NetworkOf[job.account] = "LAZADA" THEN LazadaCall(job) ELSE AccessTradeRequest(job)

\* The network was read, or it answered the ping.
CallSucceeds(j) ==
  LET job == connectorJob[j] IN
  /\ job.at = "CALLS"
  /\ CanCall(job)
  /\ connectorHealth' = [connectorHealth EXCEPT ![job.account] =
       [status |-> job.mode, success |-> connectorClock]]
  /\ JobEnds(j)
  /\ UNCHANGED <<connectorClock, accountVars, connector, holdVars, activeAt>>

CallFails(j) ==
  LET job == connectorJob[j] IN
  /\ job.at = "CALLS"
  /\ connectorHealth' = [connectorHealth EXCEPT ![job.account].status = "DEGRADED"]
  /\ JobEnds(j)
  /\ UNCHANGED <<connectorClock, accountVars, connector, holdVars, activeAt>>

\* The function is killed.
JobDies(j) ==
  /\ connectorJob[j] # NoJob
  /\ JobEnds(j)
  /\ UNCHANGED <<connectorClock, accountVars, connector, connectorHealth, holdVars, activeAt>>

-----------------------------------------------------------------------------
(* releaseDueSafetyHolds, what it asks of the connector.  Whether the       *)
(* order itself may be validated is in CoreConversion, and open here.      *)

AlwaysFresh(row) == row.success # NeverYet        \* mutant: any success will do
Fresh(row) == row.success # NeverYet /\ row.success >= connectorClock - Freshness

Healthy(a) ==
  /\ connector[a].enabled /\ connector[a].mode \in {"ACTIVE", "SHADOW"}
  /\ connectorHealth[a].status = "ACTIVE"
  /\ Fresh(connectorHealth[a])

\* A run reads the connector and its health and makes up its mind: without them it does
\* not validate.
JudgeHold(j, a) ==
  /\ holdJob[j] = NoJob
  /\ heldOrder[a] = "HELD"
  /\ \E verdict \in {"VALIDATED", "REVIEW"} :
       /\ verdict = "VALIDATED" => Healthy(a)
       /\ holdJob' = [holdJob EXCEPT ![j] =
            [at |-> "JUDGED", account |-> a, verdict |-> verdict, since |-> connectorClock]]
  /\ UNCHANGED <<connectorClock, accountVars, connector, connectorHealth, connectorJob,
                 heldOrder, activeAt>>

\* Later, after the count of open cases, it writes what it had decided.  It looks at the
\* order again, but not at the connector, and only before it validates.
WriteHold(j) ==
  LET job == holdJob[j] IN
  /\ job # NoJob
  /\ holdJob' = [holdJob EXCEPT ![j] = NoJob]
  /\ heldOrder' = [heldOrder EXCEPT ![job.account] =
       IF job.verdict = "REVIEW" \/ @ = "HELD" THEN job.verdict ELSE @]
  /\ UNCHANGED <<connectorClock, accountVars, connector, connectorHealth, connectorJob, activeAt>>

\* It leaves the order for a later run, or the function is killed.
LeaveHold(j) ==
  /\ holdJob[j] # NoJob
  /\ holdJob' = [holdJob EXCEPT ![j] = NoJob]
  /\ UNCHANGED <<connectorClock, accountVars, connector, connectorHealth, connectorJob,
                 heldOrder, activeAt>>

ConnectorsNext ==
  \/ ConnectorsTick
  \/ \E a \in ProviderAccounts :
       \/ OpenAccount(a) \/ SaveCredential(a) \/ SetHoldDays(a)
       \/ \E mode \in Modes, on \in BOOLEAN : SetConnector(a, mode, on)
       \/ \E j \in ConnectorJobs :
            JudgeHold(j, a) \/ \E kind \in {"HEALTH", "SYNC"} : StartJob(j, kind, a)
  \/ \E j \in ConnectorJobs :
       \/ TakeCredential(j) \/ CallSucceeds(j) \/ CallFails(j) \/ JobDies(j)
       \/ WriteHold(j) \/ LeaveHold(j)

ConnectorsSpec == ConnectorsInit /\ [][ConnectorsNext]_connectorsVars

-----------------------------------------------------------------------------
\* Every variable holds a value of its kind.
ConnectorsTypeOK ==
  /\ connectorClock \in 0..MaxConnectorClock
  /\ providerAccount \in [ProviderAccounts ->
       [scope: {"NONE", "PLATFORM", "TENANT"}, holdDays: BOOLEAN]]
  /\ newestCredential \in [ProviderAccounts -> 0..MaxCredential]
  /\ saving \subseteq ProviderAccounts
  /\ connector \in [ProviderAccounts -> [mode: Modes, enabled: BOOLEAN]]
  /\ connectorHealth \in [ProviderAccounts ->
       [status: Modes \union {"NONE", "DEGRADED"}, success: Nat \union {NeverYet}]]
  /\ connectorJob \in [ConnectorJobs -> {NoJob} \union
       [at: {"LISTED", "CALLS"}, kind: {"HEALTH", "SYNC"}, account: ProviderAccounts,
        mode: Modes, credential: 0..MaxCredential, since: Nat]]
  /\ holdJob \in [ConnectorJobs -> {NoJob} \union
       [at: {"JUDGED"}, account: ProviderAccounts, verdict: {"VALIDATED", "REVIEW"}, since: Nat]]
  /\ heldOrder \in [ProviderAccounts -> {"HELD", "VALIDATED", "REVIEW"}]
  /\ activeAt \in [ProviderAccounts -> Nat \union {NeverYet}]

\* Orders come in with the account's own credential, never with the platform's:
\* a run that reads the network for an account has one of its versions
\* (runner.ts:92-106, settings/actions.ts:236-248).
SyncsUseTheirCredential ==
  \A j \in ConnectorJobs :
    connectorJob[j] # NoJob /\ connectorJob[j].kind = "SYNC" /\ connectorJob[j].at = "CALLS" =>
      connectorJob[j].credential > 0

WasActiveWithin(a, time) == activeAt[a] # NeverYet /\ connectorClock - activeAt[a] <= time

\* What an administrator takes out of mode ACTIVE, to shadow it or to switch it
\* off, stops counting in time: a hold is validated on its word for no longer than
\* a report stays fresh after the last run that had seen the old mode, and a hold
\* job lasts that had seen the report (conversions/service.ts:733-811,
\* runner.ts:169-187, 485-501).
TrustFollowsTheMode ==
  [][\A a \in ProviderAccounts :
       heldOrder[a] = "HELD" /\ heldOrder'[a] = "VALIDATED" =>
         WasActiveWithin(a, Freshness + 2 * JobTime)]_connectorsVars

\* Both together.
ConnectorsAreTrustedInTime == []SyncsUseTheirCredential /\ TrustFollowsTheMode
=============================================================================
