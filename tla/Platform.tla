------------------------------ MODULE Platform -------------------------------
(***************************************************************************)
(* The modules around the money, side by side: what brings orders in       *)
(* (reports of the networks, imported files, links, connectors, offers),   *)
(* who may come in (identity, shops and their subscriptions, top-ups,      *)
(* deletion, administrators, financial actors) and what goes out (notices  *)
(* and replies, the chat assistant).                                       *)
(*                                                                         *)
(* The modules share no variable, so that each of them beside the others   *)
(* at rest shows all there is to see: `focus' says which one moves.        *)
(***************************************************************************)
EXTENDS ProviderSync, OrderImport, Links, Connectors, Offers, Identity, Tenancy,
        TenantFunding, AccountDeletion, AdminAccess, FinancialActors, Outbox, ZaloAssistant

VARIABLE focus

Parts == {"SYNC", "ORDERS", "IMPORT", "LINKS", "CONNECTORS", "OFFERS", "IDENTITY", "TENANCY",
          "FUNDING", "DELETION", "ACCESS", "ACTORS", "OUTBOX", "ZALO"}

PlatformInit ==
  /\ SyncInit /\ ImportInit /\ LinkInit /\ ConnectorsInit /\ OffersInit
  /\ IdentityInit /\ TenancyInit /\ FundingInit /\ DeletionInit /\ AccessInit /\ ActorsInit
  /\ OutboxInit /\ ZaloInit
  /\ focus \in Parts

intakeVars == <<syncVars, importVars, linkVars, connectorsVars, offersVars>>
doorVars == <<identityVars, tenancyVars, fundingVars, deletionVars, accessVars, actorsVars>>
outgoingVars == <<outboxVars, zaloVars>>
platformVars == <<focus, intakeVars, doorVars, outgoingVars>>

IntakeNext ==
  \/ /\ focus = "SYNC"
     /\ SyncNext
     /\ UNCHANGED <<importVars, linkVars, connectorsVars, offersVars>>
  \/ /\ focus = "ORDERS"
     /\ OrdersNext
     /\ UNCHANGED <<importVars, linkVars, connectorsVars, offersVars>>
  \/ /\ focus = "IMPORT"
     /\ ImportNext
     /\ UNCHANGED <<syncVars, linkVars, connectorsVars, offersVars>>
  \/ /\ focus = "LINKS"
     /\ LinkNext
     /\ UNCHANGED <<syncVars, importVars, connectorsVars, offersVars>>
  \/ /\ focus = "CONNECTORS"
     /\ ConnectorsNext
     /\ UNCHANGED <<syncVars, importVars, linkVars, offersVars>>
  \/ /\ focus = "OFFERS"
     /\ OffersNext
     /\ UNCHANGED <<syncVars, importVars, linkVars, connectorsVars>>

DoorNext ==
  \/ /\ focus = "IDENTITY"
     /\ IdentityNext
     /\ UNCHANGED <<tenancyVars, fundingVars, deletionVars, accessVars, actorsVars>>
  \/ /\ focus = "TENANCY"
     /\ TenancyNext
     /\ UNCHANGED <<identityVars, fundingVars, deletionVars, accessVars, actorsVars>>
  \/ /\ focus = "FUNDING"
     /\ FundingNext
     /\ UNCHANGED <<identityVars, tenancyVars, deletionVars, accessVars, actorsVars>>
  \/ /\ focus = "DELETION"
     /\ DeletionNext
     /\ UNCHANGED <<identityVars, tenancyVars, fundingVars, accessVars, actorsVars>>
  \/ /\ focus = "ACCESS"
     /\ AccessNext
     /\ UNCHANGED <<identityVars, tenancyVars, fundingVars, deletionVars, actorsVars>>
  \/ /\ focus = "ACTORS"
     /\ ActorsNext
     /\ UNCHANGED <<identityVars, tenancyVars, fundingVars, deletionVars, accessVars>>

OutgoingNext ==
  \/ /\ focus = "OUTBOX"
     /\ OutboxNext
     /\ UNCHANGED zaloVars
  \/ /\ focus = "ZALO"
     /\ ZaloNext
     /\ UNCHANGED outboxVars

PlatformNext ==
  /\ UNCHANGED focus
  /\ \/ IntakeNext /\ UNCHANGED <<doorVars, outgoingVars>>
     \/ DoorNext /\ UNCHANGED <<intakeVars, outgoingVars>>
     \/ OutgoingNext /\ UNCHANGED <<intakeVars, doorVars>>

PlatformSpec == PlatformInit /\ [][PlatformNext]_platformVars

\* The variables of the part that moves have their types.
PlatformTypeOK ==
  /\ focus \in {"SYNC", "ORDERS"} => SyncTypeOK
  /\ focus = "IMPORT" => ImportTypeOK
  /\ focus = "LINKS" => LinkTypeOK
  /\ focus = "CONNECTORS" => ConnectorsTypeOK
  /\ focus = "OFFERS" => OffersTypeOK
  /\ focus = "IDENTITY" => IdentityTypeOK
  /\ focus = "TENANCY" => TenancyTypeOK
  /\ focus = "FUNDING" => FundingTypeOK
  /\ focus = "DELETION" => DeletionTypeOK
  /\ focus = "ACCESS" => AccessTypeOK
  /\ focus = "ACTORS" => ActorsTypeOK
  /\ focus = "OUTBOX" => OutboxTypeOK
  /\ focus = "ZALO" => ZaloTypeOK

\* Accounts here follow the ones at Clerk: nobody is let in by an old event, and
\* nobody's profile is set back by one (clerk-identity.ts:98-138).
AccountsFollowClerk == NobodySlipsIn /\ IdentityNeverOlder

\* Whoever is let in, and whoever acts on a payout, may do so now or could until
\* the answer was due (authz.ts:38-57, persona.ts:168-201).
AuthorityIsCurrent == AdmissionIsCurrent /\ ActorsAreCurrent

\* Connectors are trusted, and their offers shown, no longer than they are fresh
\* (conversions/service.ts:733-755, runner.ts:541-580).
ProvidersAreTrustedInTime == ConnectorsAreTrustedInTime /\ []DealsAreCurrent
=============================================================================
