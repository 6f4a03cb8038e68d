---------------------------- MODULE FinancialActors ----------------------------
(***************************************************************************)
(* Who may move money (modules/tenants/persona.ts, persona-policy.ts,      *)
(* payout-policy.ts, and the pages that call the payout's operations).          *)
(*                                                                         *)
(* A page lets a person in, resolves whom they act as for one tenant, and  *)
(* hands that context to the operation, which resolves it again before it  *)
(* acts.  Roles and memberships change in between.                         *)
(***************************************************************************)
EXTENDS Integers

CONSTANTS
  Persons,          \* User rows
  ShopTenants,      \* STANDARD tenants
  Master,           \* the master tenant
  MasterOwner       \* who owns it

ASSUME ActorsAssumption == Master \notin ShopTenants /\ MasterOwner \in Persons

VARIABLES
  person,           \* tenant, shop owned, roles
  counted,          \* SUPER_ADMINs another one takes the role from, as more were counted
  masterOpen,       \* the master tenant is TRIAL or ACTIVE
  actorCall,        \* one call of an operation
  held              \* roles the caller has had at the target since the operation began

actorsVars == <<person, counted, masterOpen, actorCall, held>>

Nowhere == "NOWHERE"
Tenants == ShopTenants \union {Master}
GlobalRoles == {"SUPER_ADMIN", "FINANCE_APPROVER"}
Kinds == {"WITHDRAW", "WITHDRAW_TREASURY", "APPROVE", "APPROVE_TREASURY", "CANCEL",
          "RECONCILE", "EXECUTE"}
Doors == {"MEMBER_PAGE", "SHOP_PAGE", "ADMIN_PAGE", "WORKER"}
NotCalled == [at |-> "NOT_CALLED"]
Worker == "WORKER"

ActorsInit ==
  /\ person = [u \in Persons |-> [tenant |-> Nowhere, shop |-> Nowhere, roles |-> {}]]
  /\ counted = {}
  /\ masterOpen = TRUE
  /\ actorCall = NotCalled
  /\ held = {}

-----------------------------------------------------------------------------
\* resolveTenantContext and deriveTenantPersona.
Persona(u, row) ==
  IF u = MasterOwner \/ "SUPER_ADMIN" \in row.roles THEN "OWNER"
  ELSE IF row.shop # Nowhere THEN "TENANT_MASTER"
  ELSE IF row.tenant \in ShopTenants THEN "TENANT_USER"
  ELSE "MASTER_MEMBER"

\* The tenant a person counts as a member of; of the master when of no shop.
MemberTenant(u, row) == IF Persona(u, row) = "TENANT_USER" THEN row.tenant ELSE Master

\* resolveFinancialActorContext: the role at a tenant, or none.
RoleAt(u, row, t) ==
  CASE Persona(u, row) = "OWNER" -> "OWNER"
    [] Persona(u, row) = "TENANT_MASTER" /\ t \in {row.shop, Master} -> "TENANT_MASTER"
    [] Persona(u, row) \notin {"OWNER", "TENANT_MASTER"} /\ t = MemberTenant(u, row) -> "TENANT_USER"
    [] OTHER -> "NONE"

RoleNow(u, t) == IF masterOpen THEN RoleAt(u, person[u], t) ELSE "NONE"

\* payout-policy.ts.  Only the requester of a payout and the operators of its
\* tenant may cancel it; only the system executes one.
Permitted(kind, role, own) ==
  \/ kind = "WITHDRAW" /\ own /\ role \notin {"SYSTEM_WORKER", "NONE"}
  \/ kind \in {"WITHDRAW_TREASURY", "APPROVE", "RECONCILE"} /\ role \in {"OWNER", "TENANT_MASTER"}
  \/ kind = "APPROVE_TREASURY" /\ role = "OWNER"
  \/ kind = "CANCEL" /\ role # "NONE" /\ (own \/ role \in {"OWNER", "TENANT_MASTER"})
  \/ kind = "EXECUTE" /\ role = "SYSTEM_WORKER"

-----------------------------------------------------------------------------
(* People's rows change under a call.                                      *)

PersonBecomes(u, row) ==
  /\ person' = [person EXCEPT ![u] = row]
  /\ held' = IF actorCall.at = "VALID" /\ actorCall.by = u
             THEN held \union {IF masterOpen THEN RoleAt(u, row, actorCall.target) ELSE "NONE"}
             ELSE held
  /\ UNCHANGED <<masterOpen, actorCall>>

\* joinTenantBySlug and the sign-in: nobody changes tenant afterwards.
Joins(u, t) ==
  /\ person[u].tenant = Nowhere
  /\ PersonBecomes(u, [person[u] EXCEPT !.tenant = t])
  /\ UNCHANGED counted

\* createTenantAdminAction: a member of the master who has no shop is given one.
IsGivenShop(u, s) ==
  /\ person[u].tenant = Master /\ person[u].shop = Nowhere
  /\ \A other \in Persons : person[other].shop # s
  /\ PersonBecomes(u, [person[u] EXCEPT !.shop = s])
  /\ UNCHANGED counted

\* setUserRoleAction.
RoleAssigned(u, role) ==
  /\ role \notin person[u].roles
  /\ PersonBecomes(u, [person[u] EXCEPT !.roles = @ \union {role}])
  /\ UNCHANGED counted

\* A SUPER_ADMIN may take the role from another one; that more than one has it is
\* read before the transaction.
AdminsCounted(u) ==
  /\ "SUPER_ADMIN" \in person[u].roles /\ u \notin counted
  /\ \E other \in Persons \ {u} : "SUPER_ADMIN" \in person[other].roles
  /\ counted' = counted \union {u}
  /\ UNCHANGED <<person, masterOpen, actorCall, held>>

RoleTaken(u, role) ==
  /\ role \in person[u].roles
  /\ role = "SUPER_ADMIN" => u \in counted
  /\ PersonBecomes(u, [person[u] EXCEPT !.roles = @ \ {role}])
  /\ counted' = IF role = "SUPER_ADMIN" THEN counted \ {u} ELSE counted

\* The master tenant is suspended or comes back: nobody acts without it.
MasterOpens(open) ==
  /\ masterOpen # open
  /\ masterOpen' = open
  /\ UNCHANGED <<person, counted, actorCall, held>>

-----------------------------------------------------------------------------
(* One call.                                                               *)

\* What the page asks before it resolves the context: requireTenantMasterContext,
\* requireRole, or membership of the target.
LetInBy(door, u, t) ==
  /\ masterOpen \/ door = "ADMIN_PAGE"
  /\ door = "MEMBER_PAGE" => t = MemberTenant(u, person[u])
  /\ door = "SHOP_PAGE" =>
       \/ Persona(u, person[u]) = "OWNER"
       \/ Persona(u, person[u]) = "TENANT_MASTER" /\ t = person[u].shop
  /\ door = "ADMIN_PAGE" => person[u].roles # {}

PageLetsIn(door, u, t, kind, own) ==
  /\ actorCall.at = "NOT_CALLED"
  /\ door # "WORKER" /\ kind # "EXECUTE"
  /\ door = "MEMBER_PAGE" <=> kind = "WITHDRAW"
  /\ kind = "WITHDRAW" => own
  /\ LetInBy(door, u, t)
  /\ actorCall' = [at |-> "LET_IN", by |-> u, target |-> t, kind |-> kind, own |-> own, role |-> "NONE"]
  /\ UNCHANGED <<person, counted, masterOpen, held>>

\* QStash's and the cron's routes: the tenant is the payout's.
JobCalls(t) ==
  /\ actorCall.at = "NOT_CALLED"
  /\ actorCall' = [at |-> "LET_IN", by |-> Worker, target |-> t, kind |-> "EXECUTE", own |-> FALSE,
              role |-> "NONE"]
  /\ UNCHANGED <<person, counted, masterOpen, held>>

ContextResolved ==
  LET role == IF actorCall.by # Worker THEN RoleNow(actorCall.by, actorCall.target)
              ELSE IF masterOpen THEN "SYSTEM_WORKER" ELSE "NONE" IN
  /\ actorCall.at = "LET_IN"
  /\ actorCall' = IF role = "NONE" THEN NotCalled
             ELSE [actorCall EXCEPT !.at = "RESOLVED", !.role = role]
  /\ UNCHANGED <<person, counted, masterOpen, held>>

\* revalidateFinancialActorContext.  A worker's context stands; a person's is
\* resolved again and must come out the same.
Unquestioned(context) == TRUE                   \* mutant: the page's word is enough
StillHeld(context) ==
  context.by # Worker => RoleNow(context.by, context.target) = context.role

ContextRevalidated ==
  /\ actorCall.at = "RESOLVED"
  /\ actorCall' = IF StillHeld(actorCall) THEN [actorCall EXCEPT !.at = "VALID"] ELSE NotCalled
  /\ held' = IF actorCall.by = Worker THEN {"SYSTEM_WORKER"} ELSE {RoleNow(actorCall.by, actorCall.target)}
  /\ UNCHANGED <<person, counted, masterOpen>>

OperationActs ==
  /\ actorCall.at = "VALID"
  /\ Permitted(actorCall.kind, actorCall.role, actorCall.own)
  /\ actorCall' = [actorCall EXCEPT !.at = "ACTED"]
  /\ UNCHANGED <<person, counted, masterOpen, held>>

\* The call is answered, is refused or dies.
OperationEnds ==
  /\ actorCall.at # "NOT_CALLED"
  /\ actorCall' = NotCalled
  /\ held' = {}
  /\ UNCHANGED <<person, counted, masterOpen>>

ActorsNext ==
  \/ \E u \in Persons :
       \/ \E t \in Tenants : Joins(u, t)
       \/ \E s \in ShopTenants : IsGivenShop(u, s)
       \/ \E role \in GlobalRoles : RoleAssigned(u, role) \/ RoleTaken(u, role)
       \/ AdminsCounted(u)
       \/ \E door \in Doors, t \in Tenants, kind \in Kinds, own \in BOOLEAN :
            PageLetsIn(door, u, t, kind, own)
  \/ \E open \in BOOLEAN : MasterOpens(open)
  \/ \E t \in Tenants : JobCalls(t)
  \/ ContextResolved \/ ContextRevalidated \/ OperationActs \/ OperationEnds

ActorsSpec == ActorsInit /\ [][ActorsNext]_actorsVars

-----------------------------------------------------------------------------
\* Every variable holds a value of its kind.
ActorsTypeOK ==
  LET Roles == {"NONE", "OWNER", "TENANT_MASTER", "TENANT_USER", "SYSTEM_WORKER"} IN
  /\ person \in [Persons -> [tenant: Tenants \union {Nowhere}, shop: ShopTenants \union {Nowhere},
                             roles: SUBSET GlobalRoles]]
  /\ counted \subseteq Persons
  /\ masterOpen \in BOOLEAN
  /\ actorCall \in {NotCalled} \union
       [at: {"LET_IN", "RESOLVED", "VALID", "ACTED"}, by: Persons \union {Worker},
        target: Tenants, kind: Kinds, own: BOOLEAN, role: Roles]
  /\ held \subseteq Roles

\* Whoever acts on a payout has had, at its tenant and at some moment since the
\* operation began, a role that allows it: neither one that was taken away
\* while the page was answering, nor one at another tenant, nor the system's
\* (persona.ts:168-201, payout-policy.ts).
ActorsAreCurrent ==
  [][actorCall.at = "VALID" /\ actorCall'.at = "ACTED" =>
       \E role \in held : Permitted(actorCall.kind, role, actorCall.own)]_actorsVars
=============================================================================
