------------------------------ MODULE Identity -------------------------------
(***************************************************************************)
(* Accounts and the identity provider: Clerk holds who may sign in, the    *)
(* database holds who may use the application, and they are kept together  *)
(* by webhooks, by sign-ins and by the administrators                      *)
(* (src/lib/clerk-identity.ts, src/modules/identity, src/app/admin/users). *)
(*                                                                         *)
(* Clerk delivers its events in any order and again until one is answered  *)
(* with success; a handler may die at any step.  No call to Clerk is in a  *)
(* transaction, so administrators interleave between their own writes.     *)
(***************************************************************************)
EXTENDS Integers, FiniteSets

CONSTANTS
  People,          \* persons, each with one mail address and one Clerk user
  Handlers,        \* concurrent deliveries of Clerk's webhook
  Admins,          \* the SUPER_ADMINs
  InviteIds,       \* rows of IdentityInvitation
  NewStatuses,     \* the statuses administrators give
  PublicEntry,     \* REGISTRATION_MODE is "public"
  MaxVersion       \* bound: changes to a Clerk user

ASSUME IdentityAssumption ==
  /\ PublicEntry \in BOOLEAN
  /\ NewStatuses \subseteq {"ACTIVE", "INVITED", "SUSPENDED", "CLOSED"}
  /\ MaxVersion \in Nat \ {0}

VARIABLES
  clerkUser,      \* Clerk's user: none yet, living or gone; version; barred
  clerkEvents,    \* events Clerk may deliver, any number of times
  clerkClaims,    \* events that have an IdempotencyRecord
  handler,        \* a delivery being handled
  account,        \* User rows
  signIn,         \* resolveAppUser, per person
  invite,         \* IdentityInvitation rows
  desk,           \* what an administrator's call is doing
  cutShort        \* people about whom a change of status ended half way: the
                  \* ban failed, the call died, or it had read them unlinked

clerkSide == <<clerkUser, clerkEvents>>
hookSide == <<clerkClaims, handler>>
adminSide == <<desk, cutShort>>
identityVars ==
  <<clerkUser, clerkEvents, clerkClaims, handler, account, signIn, invite,
    desk, cutShort>>

Idle == [at |-> "IDLE"]
Uninvited == [at |-> "NONE"]
OpenInvites == {"PENDING", "SENT"}
Blocked == {"SUSPENDED", "CLOSED"}
Stranger == [status |-> "NONE", identity |-> "UNLINKED", seen |-> 0, linked |-> FALSE]

IdentityInit ==
  /\ clerkUser = [p \in People |-> [at |-> "NONE", version |-> 0, barred |-> FALSE]]
  /\ clerkEvents = {}
  /\ clerkClaims = {}
  /\ handler = [h \in Handlers |-> Idle]
  /\ account = [p \in People |-> Stranger]
  /\ signIn = [p \in People |-> Idle]
  /\ invite = [i \in InviteIds |-> Uninvited]
  /\ desk = [a \in Admins |-> Idle]
  /\ cutShort = {}

-----------------------------------------------------------------------------
(* Clerk: every change is an event.                                        *)

ClerkEvent(type, p, user) ==
  [type |-> type, of |-> p, version |-> user.version, barred |-> user.barred]

\* The user of p becomes `user', and the webhook will tell.
ClerkTells(type, p, user) ==
  /\ clerkUser' = [clerkUser EXCEPT ![p] = user]
  /\ clerkEvents' = clerkEvents \union {ClerkEvent(type, p, user)}

Newer(p) == [clerkUser[p] EXCEPT !.version = @ + 1]
ClerkHas(p) == clerkUser[p].at = "ALIVE" /\ clerkUser[p].version < MaxVersion

SignUp(p) ==
  /\ clerkUser[p].at = "NONE"
  /\ ClerkTells("user.created", p, [at |-> "ALIVE", version |-> 1, barred |-> FALSE])
  /\ UNCHANGED <<hookSide, account, signIn, invite, adminSide>>

\* A person edits the profile.
EditProfile(p) ==
  /\ ClerkHas(p)
  /\ ClerkTells("user.updated", p, Newer(p))
  /\ UNCHANGED <<hookSide, account, signIn, invite, adminSide>>

\* Clerk deletes the user: the call that executes an approved deletion
\* request, or the person.
LeaveClerk(p) ==
  /\ clerkUser[p].at = "ALIVE"
  /\ ClerkTells("user.deleted", p, [clerkUser[p] EXCEPT !.at = "GONE"])
  /\ UNCHANGED <<hookSide, account, signIn, invite, adminSide>>

-----------------------------------------------------------------------------
(* reconcileClerkUser: the row of p after Clerk's profile f of p, in one   *)
(* serializable transaction.                                               *)

LetIn(row) == row.status = "ACTIVE" /\ row.identity = "ACTIVE"
NeverStale(row, f) == FALSE             \* mutant: the last to arrive wins
StaleProfile(row, f) == row.seen > f.version /\ LetIn(row)
Invited(p) == \E i \in InviteIds : invite[i].at \in OpenInvites /\ invite[i].of = p
MayLink(p) ==
  \/ PublicEntry
  \/ account[p].linked
  \/ account[p].status = "INVITED" /\ Invited(p)

RefusedWithoutStatus(p, f) ==           \* mutant: the row's status is not looked at
  \/ f.barred
  \/ ~StaleProfile(account[p], f) /\ ~MayLink(p)
Refused(p, f) ==
  \/ f.barred
  \/ /\ ~StaleProfile(account[p], f)
     /\ account[p].status \in Blocked \/ ~MayLink(p)

Reconcile(p, f) ==
  /\ ~Refused(p, f)
  /\ IF StaleProfile(account[p], f) THEN UNCHANGED <<account, invite>>
     ELSE /\ account' = [account EXCEPT ![p] =
                [status |-> "ACTIVE", identity |-> "ACTIVE",
                 seen |-> f.version, linked |-> TRUE]]
          /\ invite' = [i \in InviteIds |->
                IF invite[i].at \in OpenInvites /\ invite[i].of = p
                THEN [invite[i] EXCEPT !.at = "ACCEPTED"] ELSE invite[i]]

\* resolveAppUser: nothing to do for who is let in; else ask Clerk, and
\* later reconcile with what Clerk said.
EnterUnknown(p) ==
  /\ signIn[p] = Idle /\ clerkUser[p].at = "ALIVE" /\ ~LetIn(account[p])
  /\ signIn' = [signIn EXCEPT ![p] =
       [at |-> "TOLD", version |-> clerkUser[p].version, barred |-> clerkUser[p].barred]]
  /\ UNCHANGED <<clerkSide, hookSide, account, invite, adminSide>>

EnterReconciled(p) ==
  /\ signIn[p].at = "TOLD"
  /\ Reconcile(p, signIn[p]) \/ UNCHANGED <<account, invite>>
  /\ signIn' = [signIn EXCEPT ![p] = Idle]
  /\ UNCHANGED <<clerkSide, hookSide, adminSide>>

-----------------------------------------------------------------------------
(* The webhook.                                                            *)

Busy(h) == handler[h] # Idle
Step(h, at) == handler' = [handler EXCEPT ![h].at = at]
Claimed(e) == e \in clerkClaims

\* claimWebhookEvent creates the record; when there is one the delivery is
\* answered as a duplicate and changes nothing.
ClaimEvent(h, e) ==
  /\ ~Busy(h) /\ ~Claimed(e)
  /\ clerkClaims' = clerkClaims \union {e}
  /\ handler' = [handler EXCEPT ![h] = [at |-> "HANDLE", event |-> e]]
  /\ UNCHANGED <<clerkSide, account, signIn, invite, adminSide>>

\* completeWebhookEvent, which may fail and then gives the claim back.
Handled(h) == Step(h, "RELEASE") \/ handler' = [handler EXCEPT ![h] = Idle]

\* handleClerkWebhook; a reconciliation may also fail for a conflict.
HandleUser(h) ==
  /\ handler[h].at = "HANDLE" /\ handler[h].event.type # "user.deleted"
  /\ \/ Reconcile(handler[h].event.of, handler[h].event) /\ Handled(h)
     \/ Step(h, "SYNC_ERROR") /\ UNCHANGED <<account, invite>>
  /\ UNCHANGED <<clerkSide, clerkClaims, signIn, adminSide>>

\* The failure is written to the row that has the Clerk id.
MarkSyncError(h) ==
  /\ handler[h].at = "SYNC_ERROR"
  /\ LET p == handler[h].event.of IN
     account' = IF account[p].linked THEN [account EXCEPT ![p].identity = "SYNC_ERROR"]
                ELSE account
  /\ Step(h, "RELEASE")
  /\ UNCHANGED <<clerkSide, clerkClaims, signIn, invite, adminSide>>

\* anonymizeDeletedUser.
HandleDeleted(h) ==
  /\ handler[h].at = "HANDLE" /\ handler[h].event.type = "user.deleted"
  /\ LET p == handler[h].event.of IN
     IF account[p].linked
     THEN account' = [account EXCEPT ![p] =
            [@ EXCEPT !.status = "CLOSED", !.identity = "DELETED", !.seen = MaxVersion + 1]]
     ELSE UNCHANGED account
  /\ Handled(h)
  /\ UNCHANGED <<clerkSide, clerkClaims, signIn, invite, adminSide>>

\* releaseWebhookClaim, so that the next delivery is handled.
ReleaseEvent(h) ==
  /\ handler[h].at = "RELEASE"
  /\ clerkClaims' = clerkClaims \ {handler[h].event}
  /\ handler' = [handler EXCEPT ![h] = Idle]
  /\ UNCHANGED <<clerkSide, account, signIn, invite, adminSide>>

HandlerDies(h) ==
  /\ Busy(h)
  /\ handler' = [handler EXCEPT ![h] = Idle]
  /\ UNCHANGED <<clerkSide, clerkClaims, account, signIn, invite, adminSide>>

-----------------------------------------------------------------------------
(* Administrators.                                                         *)

Starts(a, call) == desk[a] = Idle /\ desk' = [desk EXCEPT ![a] = call]
Goes(a, at) == desk' = [desk EXCEPT ![a].at = at]
Ends(a) == desk' = [desk EXCEPT ![a] = Idle]

\* updateUserStatusAction reads whether the account has a Clerk user, and
\* first unbans it if the new status is ACTIVE.  Clerk answers an error for a
\* user that is gone.
ChangeStatus(a, p, status) ==
  /\ account[p].status # "NONE"
  /\ Starts(a, [at |-> "STATUS", of |-> p, status |-> status, linked |-> account[p].linked])
  /\ status = "ACTIVE" /\ account[p].linked =>
       clerkUser[p].at = "ALIVE" /\ clerkUser[p].version < MaxVersion
  /\ IF status = "ACTIVE" /\ account[p].linked
     THEN ClerkTells("user.updated", p, [Newer(p) EXCEPT !.barred = FALSE])
     ELSE UNCHANGED clerkSide
  /\ UNCHANGED <<hookSide, account, signIn, invite, cutShort>>

IdentityFor(status) ==
  IF status = "ACTIVE" THEN "ACTIVE" ELSE IF status = "INVITED" THEN "UNLINKED" ELSE "BANNED"

\* Mutant: only a suspension is carried to Clerk.
BannedAtClerkIfSuspended(status) == status = "SUSPENDED"
BannedAtClerk(status) == status \in Blocked

\* Whoever was not linked when the call read the account is not banned, even
\* if a webhook has linked the account since.
WriteStatus(a) ==
  /\ desk[a].at = "STATUS"
  /\ LET p == desk[a].of  status == desk[a].status IN
     /\ account' = [account EXCEPT
          ![p] = [@ EXCEPT !.status = status, !.identity = IdentityFor(status)]]
     /\ IF desk[a].linked /\ BannedAtClerk(status)
        THEN Goes(a, "BAN") ELSE Ends(a)
     /\ cutShort' = cutShort \union
          {q \in {p} : BannedAtClerk(status) /\ account[p].linked /\ ~desk[a].linked}
  /\ UNCHANGED <<clerkSide, hookSide, signIn, invite>>

BanAtClerk(a) ==
  /\ desk[a].at = "BAN" /\ ClerkHas(desk[a].of)
  /\ ClerkTells("user.updated", desk[a].of, [Newer(desk[a].of) EXCEPT !.barred = TRUE])
  /\ Ends(a)
  /\ UNCHANGED <<hookSide, account, signIn, invite, cutShort>>

BanFails(a) ==
  /\ desk[a].at = "BAN"
  /\ account' = [account EXCEPT ![desk[a].of].identity = "SYNC_ERROR"]
  /\ cutShort' = cutShort \union {desk[a].of}
  /\ Ends(a)
  /\ UNCHANGED <<clerkSide, hookSide, signIn, invite>>

\* A call may die between two of its steps.
CallDies(a) ==
  /\ desk[a] # Idle
  /\ cutShort' = cutShort \union {p \in People :
                    desk[a].at \in {"STATUS", "BAN"} /\ desk[a].of = p}
  /\ Ends(a)
  /\ UNCHANGED <<clerkSide, hookSide, account, signIn, invite>>

\* inviteUserAction: look for an open invitation; create; send by Clerk.
InviteUser(a, p) ==
  /\ ~Invited(p)
  /\ Starts(a, [at |-> "INVITE", of |-> p])
  /\ UNCHANGED <<clerkSide, hookSide, account, signIn, invite, cutShort>>

CreateInvitation(a, i) ==
  /\ desk[a].at = "INVITE" /\ invite[i] = Uninvited
  /\ LET p == desk[a].of IN
     IF account[p].status \in {"NONE", "INVITED"}
     THEN /\ account' = [account EXCEPT ![p].status = "INVITED"]
          /\ invite' = [invite EXCEPT ![i] = [at |-> "PENDING", of |-> p]]
          /\ desk' = [desk EXCEPT ![a] = [at |-> "SEND", invitation |-> i]]
     ELSE Ends(a) /\ UNCHANGED <<account, invite>>
  /\ UNCHANGED <<clerkSide, hookSide, signIn, cutShort>>

SendInvitation(a) ==
  /\ desk[a].at = "SEND"
  /\ \E at \in {"SENT", "FAILED"} : invite' = [invite EXCEPT ![desk[a].invitation].at = at]
  /\ Ends(a)
  /\ UNCHANGED <<clerkSide, hookSide, account, signIn, cutShort>>

\* revokeInvitationAction and resendInvitationAction write whatever the
\* invitation has become; Clerk's failure leaves it alone.
RewriteInvitation(a, i, at) ==
  /\ desk[a] = Idle /\ invite[i] # Uninvited
  /\ invite' = [invite EXCEPT ![i].at = at]
  /\ UNCHANGED <<clerkSide, hookSide, account, signIn, adminSide>>

-----------------------------------------------------------------------------
Webhook(h) ==
  \/ \E e \in clerkEvents : ClaimEvent(h, e)
  \/ HandleUser(h) \/ MarkSyncError(h) \/ HandleDeleted(h)
  \/ ReleaseEvent(h) \/ HandlerDies(h)

Person(p) ==
  SignUp(p) \/ EditProfile(p) \/ LeaveClerk(p) \/ EnterUnknown(p) \/ EnterReconciled(p)

Administrator(a) ==
  \/ \E p \in People : InviteUser(a, p)
  \/ \E p \in People, s \in NewStatuses : ChangeStatus(a, p, s)
  \/ \E i \in InviteIds : CreateInvitation(a, i)
  \/ \E i \in InviteIds, at \in {"REVOKED", "SENT"} : RewriteInvitation(a, i, at)
  \/ WriteStatus(a) \/ BanAtClerk(a) \/ BanFails(a) \/ CallDies(a)
  \/ SendInvitation(a)

IdentityNext ==
  \/ \E h \in Handlers : Webhook(h)
  \/ \E p \in People : Person(p)
  \/ \E a \in Admins : Administrator(a)

IdentitySpec == IdentityInit /\ [][IdentityNext]_identityVars

-----------------------------------------------------------------------------
IdentityStatuses == {"UNLINKED", "ACTIVE", "SYNC_ERROR", "BANNED", "DELETED"}
UserStatuses == {"NONE", "INVITED", "ACTIVE", "SUSPENDED", "CLOSED"}

\* Every variable holds a value of its kind.
IdentityTypeOK ==
  /\ clerkUser \in [People -> [at : {"NONE", "ALIVE", "GONE"}, version : 0..MaxVersion,
                               barred : BOOLEAN]]
  /\ clerkEvents \subseteq
       [type : {"user.created", "user.updated", "user.deleted"}, of : People,
        version : 0..MaxVersion, barred : BOOLEAN]
  /\ clerkClaims \subseteq clerkEvents
  /\ account \in [People -> [status : UserStatuses, identity : IdentityStatuses,
                             seen : 0..(MaxVersion + 1), linked : BOOLEAN]]
  /\ cutShort \subseteq People

\* Nobody slips in.  An account that was suspended or closed is let in again by
\* an administrator and by nothing else: not by a late or repeated webhook, a
\* sign-in that began before, an invitation or an unban at Clerk
\* (clerk-identity.ts:116-121).  And without public registration a Clerk user is
\* linked to an account only while an invitation to it is open: a revoked or
\* failed one lets nobody in, whatever was under way when it was revoked
\* (clerk-identity.ts:122-138).
NobodySlipsIn ==
  [][\A p \in People :
       /\ account[p].status \in Blocked /\ account'[p].status \notin Blocked =>
            \E a \in Admins : desk[a].at = "STATUS" /\ desk[a].of = p /\ desk'[a] # desk[a]
       /\ account'[p].linked /\ ~account[p].linked => PublicEntry \/ Invited(p)
    ]_identityVars

\* While a person is let in, the profile on file never goes back to an older
\* one, in whatever order the webhooks and sign-ins arrive
\* (clerk-identity.ts:106-115).
IdentityNeverOlder ==
  [][\A p \in People :
       LetIn(account[p]) => account'[p].seen >= account[p].seen]_identityVars

\* Once no administrator is at work on a person, and no change of status was
\* cut short, an account that is blocked here is barred at Clerk too, however
\* two administrators' unbans, writes and bans interleaved
\* (users/actions.ts:200-244).
BlockedIsBarred ==
  \A p \in People \ cutShort :
    /\ account[p].linked /\ account[p].status \in Blocked /\ account[p].identity = "BANNED"
    /\ \A a \in Admins : desk[a].at \in {"STATUS", "BAN"} => desk[a].of # p
    => clerkUser[p].barred \/ clerkUser[p].at = "GONE"
=============================================================================
