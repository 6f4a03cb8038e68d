------------------------------ MODULE AdminAccess ------------------------------
(***************************************************************************)
(* What admits an administrator: the role in the database, a session at    *)
(* Clerk that is active and young, and an account there that is not barred *)
(* (src/lib/authz.ts, src/app/admin/users/actions.ts).                     *)
(*                                                                         *)
(* What Clerk says is cached in Redis for each session; requests ask and   *)
(* write the cache concurrently, each for itself, while other              *)
(* administrators take the role away, revoke the sessions or bar the       *)
(* account.  One administrator and one session are followed.               *)
(***************************************************************************)
EXTENDS Integers

CONSTANTS
  Checks,          \* concurrent requests of the administrator
  SessionTime,     \* ADMIN_SESSION_MAX_AGE_MS
  CacheTime,       \* ADMIN_CHECK_CACHE_SECONDS
  CallTime,        \* the longest a request may run
  MaxAccessClock   \* bound: the clock

ASSUME AccessAssumption ==
  \A t \in {SessionTime, CacheTime, CallTime, MaxAccessClock} :
    t \in Nat \ {0}

VARIABLES
  accessClock,
  hasRole,         \* RoleAssignment
  session,         \* at Clerk: active, since the clock was 0
  barredAtClerk,   \* banned or locked
  cached,          \* Redis: the answer and when it expires
  check,           \* the requests
  lastActive,      \* when the session was last active and young
  lastAllowed      \* when the account was last not barred

accessVars == <<accessClock, hasRole, session, barredAtClerk, cached, check,
                lastActive, lastAllowed>>
clerkSays == <<session, barredAtClerk, lastActive, lastAllowed>>

NotAsked == [at |-> "IDLE"]
NotCached == [valid |-> FALSE, until |-> 0]

AccessInit ==
  /\ accessClock = 0
  /\ hasRole = TRUE
  /\ session = "ACTIVE"
  /\ barredAtClerk = FALSE
  /\ cached = NotCached
  /\ check = [c \in Checks |-> NotAsked]
  /\ lastActive = 0
  /\ lastAllowed = 0

SessionIsGood(now) == session = "ACTIVE" /\ now <= SessionTime

\* Time passes, but a request ends within its time.
AccessTick ==
  /\ accessClock < MaxAccessClock
  /\ \A c \in Checks : check[c] # NotAsked => accessClock - check[c].since < CallTime
  /\ accessClock' = accessClock + 1
  /\ lastActive' = IF SessionIsGood(accessClock + 1) THEN accessClock + 1 ELSE lastActive
  /\ lastAllowed' = IF barredAtClerk THEN lastAllowed ELSE accessClock + 1
  /\ UNCHANGED <<hasRole, session, barredAtClerk, cached, check>>

-----------------------------------------------------------------------------
(* Other administrators.                                                   *)

\* setUserRoleAction writes the role and then revokes the sessions, which may
\* not happen; revokeUserSessionsAction revokes alone.
SetRole(assigned) ==
  /\ hasRole # assigned
  /\ hasRole' = assigned
  /\ UNCHANGED <<accessClock, clerkSays, cached, check>>

RevokeSessions ==
  /\ session = "ACTIVE"
  /\ session' = "REVOKED"
  /\ UNCHANGED <<accessClock, hasRole, barredAtClerk, cached, check, lastActive,
                 lastAllowed>>

SetBarred(barred) ==
  /\ barredAtClerk # barred
  /\ barredAtClerk' = barred
  /\ lastAllowed' = accessClock
  /\ UNCHANGED <<accessClock, hasRole, session, cached, check, lastActive>>

-----------------------------------------------------------------------------
(* requireRole and hasFreshAdminIdentity.                                  *)

Reaches(c, at) == check' = [check EXCEPT ![c].at = at]
Leaves(c) == check' = [check EXCEPT ![c] = NotAsked]

\* The account and its roles are read.
BeginCheck(c) ==
  /\ check[c] = NotAsked /\ hasRole
  /\ check' = [check EXCEPT ![c] =
       [at |-> "CACHE", since |-> accessClock, unasked |-> {"SESSION", "ACCOUNT"},
        session |-> FALSE, account |-> FALSE]]
  /\ UNCHANGED <<accessClock, hasRole, clerkSays, cached>>

Unexpired == accessClock < cached.until
ReadCache(c) ==
  /\ check[c].at = "CACHE"
  /\ IF ~Unexpired THEN Reaches(c, "ASK")
     ELSE IF cached.valid THEN Reaches(c, "IN") ELSE Leaves(c)
  /\ UNCHANGED <<accessClock, hasRole, clerkSays, cached>>

\* getSession and getUser are two requests to Clerk, answered in any order.
AskSession(c) ==
  /\ check[c].at = "ASK" /\ "SESSION" \in check[c].unasked
  /\ check' = [check EXCEPT
       ![c].unasked = @ \ {"SESSION"}, ![c].session = SessionIsGood(accessClock)]
  /\ UNCHANGED <<accessClock, hasRole, clerkSays, cached>>

AskAccount(c) ==
  /\ check[c].at = "ASK" /\ "ACCOUNT" \in check[c].unasked
  /\ check' = [check EXCEPT
       ![c].unasked = @ \ {"ACCOUNT"}, ![c].account = ~barredAtClerk]
  /\ UNCHANGED <<accessClock, hasRole, clerkSays, cached>>

\* Mutant: the answer is kept as long as the session may last.
CachedForTheSession(valid) == [valid |-> valid, until |-> accessClock + SessionTime]
Cached(valid) == [valid |-> valid, until |-> accessClock + CacheTime]

\* The answer is written over whatever another request has written.
WriteCache(c) ==
  /\ check[c].at = "ASK" /\ check[c].unasked = {}
  /\ LET valid == check[c].session /\ check[c].account IN
     /\ cached' = Cached(valid)
     /\ IF valid THEN Reaches(c, "IN") ELSE Leaves(c)
  /\ UNCHANGED <<accessClock, hasRole, clerkSays>>

\* No Redis, no answer from Clerk, or the request dies: nobody is admitted.
\* Or the administrator's action is done.
CheckEnds(c) ==
  /\ check[c] # NotAsked
  /\ Leaves(c)
  /\ UNCHANGED <<accessClock, hasRole, clerkSays, cached>>

AccessNext ==
  \/ AccessTick
  \/ \E b \in BOOLEAN : SetRole(b) \/ SetBarred(b)
  \/ RevokeSessions
  \/ \E c \in Checks :
       \/ BeginCheck(c) \/ ReadCache(c) \/ AskSession(c) \/ AskAccount(c) \/ WriteCache(c)
       \/ CheckEnds(c)

AccessSpec == AccessInit /\ [][AccessNext]_accessVars

-----------------------------------------------------------------------------
\* Every variable holds a value of its kind.
AccessTypeOK ==
  /\ {accessClock, lastActive, lastAllowed} \subseteq 0..MaxAccessClock
  /\ {hasRole, barredAtClerk, cached.valid} \subseteq BOOLEAN
  /\ session \in {"ACTIVE", "REVOKED"}
  /\ check \in [Checks -> {NotAsked} \union
       [at : {"CACHE", "ASK", "IN"}, since : 0..MaxAccessClock,
        unasked : SUBSET {"SESSION", "ACCOUNT"}, session : BOOLEAN, account : BOOLEAN]]

\* However many requests ask Clerk and write the cache at the same time, whoever
\* is admitted had an active session and an account that was not barred less
\* than a request and the life of a cached answer ago (authz.ts:38-57).
AdmissionIsCurrent ==
  [][\A c \in Checks :
       check[c].at # "IN" /\ check'[c].at = "IN" =>
         /\ accessClock - lastActive < CacheTime + CallTime
         /\ accessClock - lastAllowed < CacheTime + CallTime]_accessVars
=============================================================================
