---------------------------- MODULE AccountDeletion ----------------------------
(***************************************************************************)
(* A person asks for the account to be deleted, an administrator approves, *)
(* Clerk deletes the user and its webhook anonymizes the account           *)
(* (src/modules/identity/deletion.ts, webhook.ts).                         *)
(*                                                                         *)
(* Both the request and the approval look whether anything is still owed.  *)
(* A look reads one place after another, outside any transaction, while    *)
(* money arrives and moves; and what is decided by it is written later.    *)
(***************************************************************************)
EXTENDS FiniteSets

CONSTANTS
  Requests,        \* rows of AccountDeletionRequest, all of one person
  DeletionCalls,   \* calls: of the person, or of administrators
  Places           \* where money of the person, or owed by the person, can be:
                   \* wallets, payouts, holds, conversions, the own treasury

VARIABLES
  owed,            \* the places with money or an obligation
  request,         \* status of the rows
  deletionCall,    \* the calls
  atClerk,         \* the user exists at Clerk
  anonymized       \* the account is anonymized

deletionVars == <<owed, request, deletionCall, atClerk, anonymized>>

OpenRequests == {"REQUESTED", "BLOCKED", "APPROVED", "EXECUTING"}
NoDeletion == [at |-> "IDLE"]

DeletionInit ==
  /\ owed \in SUBSET Places
  /\ request = [r \in Requests |-> "NONE"]
  /\ deletionCall = [c \in DeletionCalls |-> NoDeletion]
  /\ atClerk = TRUE
  /\ anonymized = FALSE

-----------------------------------------------------------------------------
(* The money, meanwhile.  A call knows nothing of what it is told here:    *)
(* `moved' is there for the property.                                      *)

Stirred ==
  deletionCall' = [c \in DeletionCalls |->
    IF deletionCall[c] = NoDeletion THEN NoDeletion ELSE [deletionCall[c] EXCEPT !.moved = TRUE]]

MoneyArrives(x) ==
  /\ x \notin owed
  /\ owed' = owed \union {x}
  /\ Stirred
  /\ UNCHANGED <<request, atClerk, anonymized>>

\* A failed payout returns to the wallet, a wallet pays the own treasury.
MoneyMoves(x, y) ==
  /\ x \in owed /\ y \notin owed
  /\ owed' = (owed \ {x}) \union {y}
  /\ Stirred
  /\ UNCHANGED <<request, atClerk, anonymized>>

MoneyIsPaid(x) ==
  /\ x \in owed
  /\ owed' = owed \ {x}
  /\ UNCHANGED <<request, deletionCall, atClerk, anonymized>>

-----------------------------------------------------------------------------
(* deletionBlockers: the places are read together but not at one instant.  *)

Looks(c, for) ==
  /\ deletionCall[c] = NoDeletion
  /\ deletionCall' = [deletionCall EXCEPT ![c] =
       [at |-> "LOOK", for |-> for, unread |-> Places, found |-> FALSE, moved |-> FALSE]]
  /\ UNCHANGED <<owed, request, atClerk, anonymized>>

LookAt(c, x) ==
  /\ deletionCall[c].at = "LOOK" /\ x \in deletionCall[c].unread
  /\ deletionCall' = [deletionCall EXCEPT
       ![c].unread = @ \ {x}, ![c].found = @ \/ x \in owed]
  /\ UNCHANGED <<owed, request, atClerk, anonymized>>

Looked(c) == deletionCall[c].at = "LOOK" /\ deletionCall[c].unread = {}
Done(c) == deletionCall' = [deletionCall EXCEPT ![c] = NoDeletion]

\* requestAccountDeletion: nothing new while a request is open.
AskForDeletion(c) ==
  /\ ~anonymized
  /\ \A r \in Requests : request[r] \notin OpenRequests
  /\ Looks(c, {})

FileRequest(c, r) ==
  /\ Looked(c) /\ deletionCall[c].for = {} /\ request[r] = "NONE"
  /\ request' = [request EXCEPT ![r] =
       IF deletionCall[c].found THEN "BLOCKED" ELSE "REQUESTED"]
  /\ Done(c)
  /\ UNCHANGED <<owed, atClerk, anonymized>>

\* approveAccountDeletion: looks again, whatever the request says.
ApproveDeletion(c, r) ==
  /\ request[r] \in {"REQUESTED", "BLOCKED"}
  /\ Looks(c, {r})

\* Mutant: the look taken when the deletion was asked for is trusted.
ClearWhenAsked(c, r) == request[r] # "BLOCKED"
Clear(c, r) == ~deletionCall[c].found

\* The request is overwritten whatever it has become.
DecideDeletion(c, r) ==
  /\ Looked(c) /\ deletionCall[c].for = {r}
  /\ IF Clear(c, r)
     THEN /\ request' = [request EXCEPT ![r] = "EXECUTING"]
          /\ deletionCall' = [deletionCall EXCEPT ![c].at = "DELETE"]
     ELSE /\ request' = [request EXCEPT ![r] = "BLOCKED"]
          /\ Done(c)
  /\ UNCHANGED <<owed, atClerk, anonymized>>

DeleteAtClerk(c) ==
  /\ deletionCall[c].at = "DELETE" /\ atClerk
  /\ atClerk' = FALSE
  /\ Done(c)
  /\ UNCHANGED <<owed, request, anonymized>>

\* Clerk refuses, has no such user, or its answer is lost.
DeletionFails(c, r) ==
  /\ deletionCall[c].at = "DELETE" /\ deletionCall[c].for = {r}
  /\ atClerk' \in {atClerk, FALSE}
  /\ request' = [request EXCEPT ![r] = "FAILED"]
  /\ Done(c)
  /\ UNCHANGED <<owed, anonymized>>

DeletionDies(c) ==
  /\ deletionCall[c] # NoDeletion
  /\ Done(c)
  /\ UNCHANGED <<owed, request, atClerk, anonymized>>

\* The person deletes the user at Clerk.
PersonLeaves ==
  /\ atClerk
  /\ atClerk' = FALSE
  /\ UNCHANGED <<owed, request, deletionCall, anonymized>>

\* anonymizeDeletedUser, when the webhook comes.
Anonymize ==
  /\ ~atClerk /\ ~anonymized
  /\ anonymized' = TRUE
  /\ request' = [r \in Requests |->
       IF request[r] \in {"APPROVED", "EXECUTING"} THEN "COMPLETED" ELSE request[r]]
  /\ UNCHANGED <<owed, deletionCall, atClerk>>

DeletionNext ==
  \/ \E x \in Places : MoneyArrives(x) \/ MoneyIsPaid(x)
  \/ \E x, y \in Places : MoneyMoves(x, y)
  \/ \E c \in DeletionCalls :
       \/ \E x \in Places : LookAt(c, x)
       \/ \E r \in Requests :
            FileRequest(c, r) \/ ApproveDeletion(c, r) \/ DecideDeletion(c, r)
            \/ DeletionFails(c, r)
       \/ AskForDeletion(c) \/ DeleteAtClerk(c) \/ DeletionDies(c)
  \/ PersonLeaves \/ Anonymize

DeletionSpec == DeletionInit /\ [][DeletionNext]_deletionVars

-----------------------------------------------------------------------------
\* Every variable holds a value of its kind.
DeletionTypeOK ==
  /\ owed \subseteq Places
  /\ request \in [Requests -> OpenRequests \union {"NONE", "COMPLETED", "FAILED"}]
  /\ deletionCall \in [DeletionCalls -> {NoDeletion} \union
       [at : {"LOOK", "DELETE"}, for : SUBSET Requests, unread : SUBSET Places,
        found : BOOLEAN, moved : BOOLEAN]]
  /\ {atClerk, anonymized} \subseteq BOOLEAN

\* Whatever the request said, and however many calls approve it, a user is
\* deleted at Clerk while something is owed only if money arrived or moved after
\* that approval had begun to look (deletion.ts:216-256); and an account on whose
\* request Clerk answered is gone there before the request is COMPLETED.
DeletionsWereClear ==
  /\ \A c \in DeletionCalls :
       deletionCall[c].at = "DELETE" => owed = {} \/ deletionCall[c].moved
  /\ \A r \in Requests : request[r] = "COMPLETED" => anonymized /\ ~atClerk
=============================================================================
