----------------------------- MODULE DoorProofs ------------------------------
(***************************************************************************)
(* Proofs about who may come in and what they may do, each for every value *)
(* of its constants: AccountDeletion, TenantFunding, Tenancy, AdminAccess, *)
(* FinancialActors, Identity. Each has its own inductive invariant.        *)
(***************************************************************************)
EXTENDS Platform, FiniteSetTheorems, TLAPS

-----------------------------------------------------------------------------
(* AccountDeletion, for every set of requests, calls and places of money.  *)

\* A call that has begun.
Looking == [at : {"LOOK", "DELETE"}, for : SUBSET Requests, unread : SUBSET Places,
            found : BOOLEAN, moved : BOOLEAN]

\* What a call knows while nothing arrives or moves: what it has read and found
\* empty is empty; and it deletes only when it has read everything.
LooksAreHonest ==
  \A c \in DeletionCalls : deletionCall[c] # NoDeletion =>
    /\ deletionCall[c].moved \/ deletionCall[c].found \/ owed \subseteq deletionCall[c].unread
    /\ deletionCall[c].at = "DELETE" => deletionCall[c].unread = {} /\ ~deletionCall[c].found

CompletedIsGone ==
  \A r \in Requests : request[r] = "COMPLETED" => anonymized /\ ~atClerk

DeletionInv == DeletionTypeOK /\ LooksAreHonest /\ CompletedIsGone

-----------------------------------------------------------------------------
\* An idle call is no call that has begun.
LEMMA IdleIsNotLooking ==
  \A k \in Looking : k # NoDeletion
BY DEF Looking, NoDeletion

LEMMA DeletionCallKinds ==
  ASSUME DeletionTypeOK, NEW c \in DeletionCalls
  PROVE  deletionCall[c] = NoDeletion \/ deletionCall[c] \in Looking
BY DEF DeletionTypeOK, Looking

\* The strengthened invariant holds at the start.
LEMMA DeletionInitInvariant == DeletionInit => DeletionInv
<1> SUFFICES ASSUME DeletionInit PROVE DeletionInv
  OBVIOUS
<1>1. DeletionTypeOK
  BY DEF DeletionInit, DeletionTypeOK, OpenRequests
<1>2. LooksAreHonest /\ CompletedIsGone
  BY DEF DeletionInit, LooksAreHonest, CompletedIsGone
<1> QED
  BY <1>1, <1>2 DEF DeletionInv

\* Money that arrives or moves is told to every call that has begun.
LEMMA StirredKeeps ==
  ASSUME DeletionInv, Stirred, owed' \in SUBSET Places, UNCHANGED <<request, atClerk, anonymized>>
  PROVE  DeletionInv'
<1>1. ASSUME NEW c \in DeletionCalls
      PROVE  \/ deletionCall'[c] = NoDeletion
             \/ /\ deletionCall[c] \in Looking
                /\ deletionCall'[c] \in Looking
                /\ deletionCall'[c].moved
                /\ deletionCall'[c].at = deletionCall[c].at
                /\ deletionCall'[c].unread = deletionCall[c].unread
                /\ deletionCall'[c].found = deletionCall[c].found
  <2>1. CASE deletionCall[c] = NoDeletion
    BY <2>1 DEF Stirred
  <2>2. CASE deletionCall[c] \in Looking
    <3>1. deletionCall'[c] = [deletionCall[c] EXCEPT !.moved = TRUE]
      BY <2>2, IdleIsNotLooking DEF Stirred
    <3> QED
      BY <2>2, <3>1 DEF Looking
  <2> QED
    BY <2>1, <2>2, DeletionCallKinds DEF DeletionInv
<1>2. DeletionTypeOK'
  <2>1. deletionCall' \in [DeletionCalls -> {NoDeletion} \union Looking]
    BY <1>1 DEF Stirred
  <2> QED
    BY <2>1 DEF DeletionInv, DeletionTypeOK, Looking
<1>3. LooksAreHonest'
  BY <1>1, IdleIsNotLooking DEF DeletionInv, LooksAreHonest
<1>4. CompletedIsGone'
  BY DEF DeletionInv, CompletedIsGone
<1> QED
  BY <1>2, <1>3, <1>4 DEF DeletionInv

\* A call that ends takes nothing from the others.
LEMMA CallEndKeeps ==
  ASSUME DeletionInv, NEW c \in DeletionCalls, Done(c), UNCHANGED owed,
         request' \in [Requests -> OpenRequests \union {"NONE", "COMPLETED", "FAILED"}],
         \A r \in Requests : request'[r] = "COMPLETED" => request[r] = "COMPLETED",
         atClerk' \in {atClerk, FALSE}, UNCHANGED anonymized
  PROVE  DeletionInv'
<1>1. \A d \in DeletionCalls : deletionCall'[d] = NoDeletion \/ deletionCall'[d] = deletionCall[d]
  BY DEF Done, DeletionInv, DeletionTypeOK
<1>2. deletionCall' \in [DeletionCalls -> {NoDeletion} \union Looking]
  BY DEF Done, DeletionInv, DeletionTypeOK, Looking
<1>3. DeletionTypeOK'
  BY <1>2 DEF DeletionInv, DeletionTypeOK, Looking
<1>4. LooksAreHonest'
  BY <1>1 DEF DeletionInv, LooksAreHonest
<1>5. atClerk' => atClerk
  BY DEF DeletionInv, DeletionTypeOK
<1>6. CompletedIsGone'
  BY <1>5 DEF DeletionInv, CompletedIsGone
<1> QED
  BY <1>3, <1>4, <1>6 DEF DeletionInv

\* A look begins with everything unread.
LEMMA LooksKeeps ==
  ASSUME DeletionInv, NEW c \in DeletionCalls, NEW for \in SUBSET Requests, Looks(c, for)
  PROVE  DeletionInv'
<1>1. deletionCall'[c] \in Looking /\ deletionCall'[c].unread = Places /\ deletionCall'[c].at = "LOOK"
  BY DEF Looks, DeletionInv, DeletionTypeOK, Looking
<1>2. \A d \in DeletionCalls : d # c => deletionCall'[d] = deletionCall[d]
  BY DEF Looks, DeletionInv, DeletionTypeOK
<1>3. deletionCall' \in [DeletionCalls -> {NoDeletion} \union Looking]
  BY <1>1 DEF Looks, DeletionInv, DeletionTypeOK, Looking
<1>4. DeletionTypeOK'
  BY <1>3 DEF Looks, DeletionInv, DeletionTypeOK, Looking
<1>5. LooksAreHonest' /\ CompletedIsGone'
  BY <1>1, <1>2 DEF Looks, DeletionInv, LooksAreHonest, CompletedIsGone, DeletionTypeOK
<1> QED
  BY <1>4, <1>5 DEF DeletionInv

\* One more place is read.
LEMMA LookAtKeeps ==
  ASSUME DeletionInv, NEW c \in DeletionCalls, NEW x \in Places, LookAt(c, x)
  PROVE  DeletionInv'
<1>1. deletionCall[c] \in Looking /\ deletionCall[c].at = "LOOK"
  BY DeletionCallKinds DEF LookAt, DeletionInv, NoDeletion
<1>2. deletionCall'[c] = [deletionCall[c] EXCEPT !.unread = @ \ {x}, !.found = @ \/ x \in owed]
  BY DEF LookAt, DeletionInv, DeletionTypeOK
<1>3. /\ deletionCall'[c] \in Looking
      /\ deletionCall'[c].unread = deletionCall[c].unread \ {x}
      /\ deletionCall'[c].found = (deletionCall[c].found \/ x \in owed)
      /\ deletionCall'[c].moved = deletionCall[c].moved
      /\ deletionCall'[c].at = "LOOK"
  <2>1. deletionCall'[c] =
          [at |-> "LOOK", for |-> deletionCall[c].for, unread |-> deletionCall[c].unread \ {x},
           found |-> deletionCall[c].found \/ x \in owed, moved |-> deletionCall[c].moved]
    BY <1>1, <1>2 DEF Looking
  <2>2. (deletionCall[c].found \/ x \in owed) \in BOOLEAN
    OBVIOUS
  <2>3. deletionCall[c].unread \ {x} \in SUBSET Places
    BY <1>1 DEF Looking
  <2>4. deletionCall'[c] \in Looking
    BY <1>1, <2>1, <2>2, <2>3 DEF Looking
  <2> QED
    BY <2>1, <2>4
<1>4. \A d \in DeletionCalls : d # c => deletionCall'[d] = deletionCall[d]
  BY DEF LookAt, DeletionInv, DeletionTypeOK
<1>5. deletionCall' \in [DeletionCalls -> {NoDeletion} \union Looking]
  BY <1>3 DEF LookAt, DeletionInv, DeletionTypeOK, Looking
<1>6. DeletionTypeOK'
  BY <1>5 DEF LookAt, DeletionInv, DeletionTypeOK, Looking
<1>7. deletionCall[c] # NoDeletion
  BY <1>1, IdleIsNotLooking
<1>8. LooksAreHonest'
  BY <1>3, <1>4, <1>7 DEF LookAt, DeletionInv, LooksAreHonest
<1>9. CompletedIsGone'
  BY DEF LookAt, DeletionInv, CompletedIsGone
<1> QED
  BY <1>6, <1>8, <1>9 DEF DeletionInv

\* The look is over and a request is decided.
LEMMA DecideKeeps ==
  ASSUME DeletionInv, NEW c \in DeletionCalls, NEW r \in Requests, DecideDeletion(c, r)
  PROVE  DeletionInv'
<1>1. CASE Clear(c, r)
  <2>1. deletionCall[c] \in Looking /\ deletionCall[c].at = "LOOK"
    BY DeletionCallKinds DEF DecideDeletion, Looked, DeletionInv, NoDeletion
  <2>2. deletionCall' = [deletionCall EXCEPT ![c].at = "DELETE"]
        /\ request' = [request EXCEPT ![r] = "EXECUTING"]
    BY <1>1 DEF DecideDeletion
  <2>3. deletionCall'[c] = [deletionCall[c] EXCEPT !.at = "DELETE"]
    BY <2>2 DEF DeletionInv, DeletionTypeOK
  <2>4. /\ deletionCall'[c] \in Looking
        /\ deletionCall'[c].unread = {} /\ ~deletionCall'[c].found
        /\ deletionCall'[c].unread = deletionCall[c].unread
        /\ deletionCall'[c].found = deletionCall[c].found
        /\ deletionCall'[c].moved = deletionCall[c].moved
    BY <1>1, <2>1, <2>3 DEF Looking, Clear, DecideDeletion, Looked
  <2>5. \A d \in DeletionCalls : d # c => deletionCall'[d] = deletionCall[d]
    BY <2>2 DEF DeletionInv, DeletionTypeOK
  <2>6. deletionCall' \in [DeletionCalls -> {NoDeletion} \union Looking]
    BY <2>2, <2>4 DEF DeletionInv, DeletionTypeOK, Looking
  <2>7. DeletionTypeOK'
    BY <2>2, <2>6 DEF DecideDeletion, DeletionInv, DeletionTypeOK, Looking, OpenRequests
  <2>8. LooksAreHonest'
    BY <2>1, <2>4, <2>5, IdleIsNotLooking DEF DecideDeletion, DeletionInv, LooksAreHonest
  <2>9. CompletedIsGone'
    BY <2>2 DEF DecideDeletion, DeletionInv, CompletedIsGone, DeletionTypeOK
  <2> QED
    BY <2>7, <2>8, <2>9 DEF DeletionInv
<1>2. CASE ~Clear(c, r)
  <2>1. Done(c) /\ request' = [request EXCEPT ![r] = "BLOCKED"]
        /\ UNCHANGED <<owed, atClerk, anonymized>>
    BY <1>2 DEF DecideDeletion
  <2>2. request' \in [Requests -> OpenRequests \union {"NONE", "COMPLETED", "FAILED"}]
    BY <2>1 DEF DeletionInv, DeletionTypeOK, OpenRequests
  <2>3. \A q \in Requests : request'[q] = "COMPLETED" => request[q] = "COMPLETED"
    BY <2>1 DEF DeletionInv, DeletionTypeOK
  <2> QED
    BY <2>1, <2>2, <2>3, CallEndKeeps
<1> QED
  BY <1>1, <1>2

\* Every step keeps the strengthened invariant.
LEMMA DeletionStepInvariant == DeletionInv /\ [DeletionNext]_deletionVars => DeletionInv'
<1> SUFFICES ASSUME DeletionInv, [DeletionNext]_deletionVars PROVE DeletionInv'
  OBVIOUS
<1>1. ASSUME NEW x \in Places, MoneyArrives(x) PROVE DeletionInv'
  BY <1>1, StirredKeeps DEF MoneyArrives, DeletionInv, DeletionTypeOK
<1>2. ASSUME NEW x \in Places, NEW y \in Places, MoneyMoves(x, y) PROVE DeletionInv'
  BY <1>2, StirredKeeps DEF MoneyMoves, DeletionInv, DeletionTypeOK
<1>3. ASSUME NEW x \in Places, MoneyIsPaid(x) PROVE DeletionInv'
  <2>1. DeletionTypeOK'
    BY <1>3 DEF MoneyIsPaid, DeletionInv, DeletionTypeOK
  <2>2. LooksAreHonest' /\ CompletedIsGone'
    BY <1>3 DEF MoneyIsPaid, DeletionInv, LooksAreHonest, CompletedIsGone
  <2> QED
    BY <2>1, <2>2 DEF DeletionInv
<1>4. ASSUME NEW c \in DeletionCalls, NEW x \in Places, LookAt(c, x) PROVE DeletionInv'
  BY <1>4, LookAtKeeps
<1>5. ASSUME NEW c \in DeletionCalls, AskForDeletion(c) PROVE DeletionInv'
  BY <1>5, LooksKeeps DEF AskForDeletion
<1>6. ASSUME NEW c \in DeletionCalls, NEW r \in Requests, ApproveDeletion(c, r) PROVE DeletionInv'
  BY <1>6, LooksKeeps DEF ApproveDeletion
<1>7. ASSUME NEW c \in DeletionCalls, NEW r \in Requests, FileRequest(c, r) PROVE DeletionInv'
  <2>1. request' \in [Requests -> OpenRequests \union {"NONE", "COMPLETED", "FAILED"}]
    BY <1>7 DEF FileRequest, DeletionInv, DeletionTypeOK, OpenRequests
  <2>2. \A q \in Requests : request'[q] = "COMPLETED" => request[q] = "COMPLETED"
    BY <1>7 DEF FileRequest, DeletionInv, DeletionTypeOK
  <2> QED
    BY <1>7, <2>1, <2>2, CallEndKeeps DEF FileRequest
<1>8. ASSUME NEW c \in DeletionCalls, NEW r \in Requests, DecideDeletion(c, r) PROVE DeletionInv'
  BY <1>8, DecideKeeps
<1>9. ASSUME NEW c \in DeletionCalls, NEW r \in Requests, DeletionFails(c, r) PROVE DeletionInv'
  <2>1. request' \in [Requests -> OpenRequests \union {"NONE", "COMPLETED", "FAILED"}]
    BY <1>9 DEF DeletionFails, DeletionInv, DeletionTypeOK
  <2>2. \A q \in Requests : request'[q] = "COMPLETED" => request[q] = "COMPLETED"
    BY <1>9 DEF DeletionFails, DeletionInv, DeletionTypeOK
  <2> QED
    BY <1>9, <2>1, <2>2, CallEndKeeps DEF DeletionFails
<1>10. ASSUME NEW c \in DeletionCalls, DeleteAtClerk(c) \/ DeletionDies(c) PROVE DeletionInv'
  BY <1>10, CallEndKeeps DEF DeleteAtClerk, DeletionDies, DeletionInv, DeletionTypeOK
<1>11. ASSUME PersonLeaves PROVE DeletionInv'
  <2>1. DeletionTypeOK'
    BY <1>11 DEF PersonLeaves, DeletionInv, DeletionTypeOK
  <2>2. LooksAreHonest' /\ CompletedIsGone'
    BY <1>11 DEF PersonLeaves, DeletionInv, LooksAreHonest, CompletedIsGone
  <2> QED
    BY <2>1, <2>2 DEF DeletionInv
<1>12. ASSUME Anonymize PROVE DeletionInv'
  <2>1. DeletionTypeOK'
    BY <1>12 DEF Anonymize, DeletionInv, DeletionTypeOK
  <2>2. LooksAreHonest' /\ CompletedIsGone'
    BY <1>12 DEF Anonymize, DeletionInv, LooksAreHonest, CompletedIsGone
  <2> QED
    BY <2>1, <2>2 DEF DeletionInv
<1>13. ASSUME UNCHANGED deletionVars PROVE DeletionInv'
  BY <1>13 DEF deletionVars, DeletionInv, DeletionTypeOK, LooksAreHonest, CompletedIsGone
<1> QED
  BY <1>1, <1>2, <1>3, <1>4, <1>5, <1>6, <1>7, <1>8, <1>9, <1>10, <1>11, <1>12, <1>13
  DEF DeletionNext

LEMMA DeletionInvariantIsEnough == DeletionInv => DeletionsWereClear
<1> SUFFICES ASSUME DeletionInv PROVE DeletionsWereClear
  OBVIOUS
<1>1. ASSUME NEW c \in DeletionCalls, deletionCall[c].at = "DELETE"
      PROVE  owed = {} \/ deletionCall[c].moved
  BY <1>1 DEF DeletionInv, LooksAreHonest, NoDeletion
<1> QED
  BY <1>1 DEF DeletionInv, CompletedIsGone, DeletionsWereClear

\* A user is deleted at Clerk while something is owed only if money arrived or
\* moved after that approval had begun to look, and no request is COMPLETED before
\* the account is gone (deletion.ts:202-267, webhook.ts:35-90).
THEOREM DeletesOnlyTheClear == DeletionSpec => []DeletionsWereClear
BY DeletionInitInvariant, DeletionStepInvariant, DeletionInvariantIsEnough, PTL DEF DeletionSpec

-----------------------------------------------------------------------------
(* TenantFunding, for every set of top-ups and every length of the         *)
(* reconciliation chain.                                                   *)

Topup == [status : {"NONE", "PENDING", "UNKNOWN", "PAID"}, link : BOOLEAN, review : BOOLEAN]
MakerSteps == {"NONE", "CALL", "WRITE", "CAUGHT", "SCHEDULE"}
Messages == [of : Topups, sequence : 1..Delays]
Querying == [at : {"QUERY"}, sequence : 1..Delays]

\* FundingTypeOK, with the shape of the two tables of records.
TopupTypes ==
  /\ topup \in [Topups -> Topup]
  /\ maker \in [Topups -> MakerSteps]
  /\ payosLink \subseteq Topups /\ customerPaid \subseteq Topups
  /\ fundingJournal \subseteq Topups /\ forgotten \subseteq Topups
  /\ credited \in [Topups -> Nat]
  /\ recheck \subseteq Messages
  /\ rechecker \in [Topups -> {AtRest} \union Querying]
  /\ tenantFlags \in [finance : BOOLEAN, topup : BOOLEAN, closed : BOOLEAN]
  /\ switchedOn \in BOOLEAN

\* The journal is the memory of what was credited, and is posted for paid orders.
JournalRemembers ==
  /\ \A o \in Topups : credited[o] = IF o \in fundingJournal THEN 1 ELSE 0
  /\ fundingJournal \subseteq customerPaid

\* Somebody is looking at the order, or will.
Watched(o) ==
  \/ topup[o].review
  \/ maker[o] = "SCHEDULE"
  \/ rechecker[o] # AtRest
  \/ \E m \in recheck : m.of = o

UnknownsAreWatched ==
  \A o \in Topups \ forgotten : topup[o].status = "UNKNOWN" => Watched(o)

FundingInv == TopupTypes /\ JournalRemembers /\ UnknownsAreWatched

-----------------------------------------------------------------------------
LEMMA FundingInitInvariant == FundingInit => FundingInv
<1> SUFFICES ASSUME FundingInit PROVE FundingInv
  OBVIOUS
<1>1. TopupTypes
  BY DEF FundingInit, TopupTypes, NoTopup, Topup, MakerSteps, Messages
<1>2. JournalRemembers
  BY DEF FundingInit, JournalRemembers
<1>3. UnknownsAreWatched
  BY DEF FundingInit, UnknownsAreWatched, NoTopup
<1> QED
  BY <1>1, <1>2, <1>3 DEF FundingInv

-----------------------------------------------------------------------------
(* Types.                                                                  *)

\* A scheduled reconciliation is a message of the chain or a flag.
LEMMA ScheduleTypes ==
  ASSUME TopupTypes, NEW o \in Topups, NEW n \in Nat \ {0}, Schedule(o, n)
  PROVE  topup' \in [Topups -> Topup] /\ recheck' \subseteq Messages
<1>1. CASE Refuse(o) /\ UNCHANGED recheck
  BY <1>1 DEF Refuse, TopupTypes, Topup
<1>2. CASE /\ n <= Delays
           /\ recheck' = recheck \union {[of |-> o, sequence |-> n]}
           /\ UNCHANGED topup
  <2>1. n \in 1..Delays
    BY <1>2, FundingAssumption
  <2>2. [of |-> o, sequence |-> n] \in Messages
    BY <2>1 DEF Messages
  <2> QED
    BY <1>2, <2>2 DEF TopupTypes
<1> QED
  BY <1>1, <1>2 DEF Schedule

LEMMA FundingStepTypes ==
  ASSUME TopupTypes, [FundingNext]_fundingVars
  PROVE  TopupTypes'
<1> USE DEF gateVars, MakerGoes
<1>1. ASSUME NEW o \in Topups, CreateTopup(o) PROVE TopupTypes'
  BY <1>1 DEF CreateTopup, TopupTypes, Topup, MakerSteps
<1>2. ASSUME NEW o \in Topups, AskForLink(o) PROVE TopupTypes'
  BY <1>2 DEF AskForLink, TopupTypes, MakerSteps
<1>3. ASSUME NEW o \in Topups, WriteLink(o) PROVE TopupTypes'
  <2>1. topup' \in [Topups -> Topup]
    <3>1. [topup[o] EXCEPT !.link = TRUE] \in Topup
      <4>1. topup[o] \in Topup
        BY DEF TopupTypes
      <4> QED
        BY <4>1 DEF Topup
    <3> QED
      BY <1>3, <3>1 DEF WriteLink, TopupTypes
  <2>2. maker' \in [Topups -> MakerSteps]
    BY <1>3 DEF WriteLink, TopupTypes, MakerSteps
  <2> QED
    BY <1>3, <2>1, <2>2 DEF WriteLink, TopupTypes
<1>4. ASSUME NEW o \in Topups, MarkUnknown(o) PROVE TopupTypes'
  <2>1. [topup[o] EXCEPT !.status = "UNKNOWN", !.review = FALSE] \in Topup
    <3>1. topup[o] \in Topup
      BY DEF TopupTypes
    <3> QED
      BY <3>1 DEF Topup
  <2>2. topup' \in [Topups -> Topup]
    BY <1>4, <2>1 DEF MarkUnknown, TopupTypes
  <2>3. maker' \in [Topups -> MakerSteps]
    BY <1>4 DEF MarkUnknown, TopupTypes, MakerSteps
  <2> QED
    BY <1>4, <2>2, <2>3 DEF MarkUnknown, TopupTypes
<1>5. ASSUME NEW o \in Topups, ScheduleFirst(o) PROVE TopupTypes'
  <2>1. topup' \in [Topups -> Topup] /\ recheck' \subseteq Messages
    BY <1>5, ScheduleTypes DEF ScheduleFirst
  <2> QED
    BY <1>5, <2>1 DEF ScheduleFirst, TopupTypes, MakerSteps
<1>6. ASSUME NEW o \in Topups, MakerDies(o) PROVE TopupTypes'
  BY <1>6 DEF MakerDies, TopupTypes, MakerSteps
<1>7. ASSUME NEW o \in Topups, RecheckFinds(o) PROVE TopupTypes'
  BY <1>7, ZenonT(40) DEF RecheckFinds, TopupTypes, Topup
<1>8. ASSUME NEW o \in Topups, RecheckFindsNothing(o) PROVE TopupTypes'
  <2>1. rechecker[o] \in Querying
    BY <1>8 DEF RecheckFindsNothing, TopupTypes, AtRest
  <2>2. rechecker[o].sequence + 1 \in Nat \ {0}
    BY <2>1, FundingAssumption DEF Querying
  <2>3. topup' \in [Topups -> Topup] /\ recheck' \subseteq Messages
    BY <1>8, <2>2, ScheduleTypes DEF RecheckFindsNothing
  <2> QED
    BY <1>8, <2>3 DEF RecheckFindsNothing, TopupTypes
<1>9. ASSUME NEW o \in Topups, RecheckLost(o) PROVE TopupTypes'
  BY <1>9 DEF RecheckLost, TopupTypes
<1>10. ASSUME NEW o \in Topups, PayTopup(o) PROVE TopupTypes'
  BY <1>10 DEF PayTopup, TopupTypes
<1>11. ASSUME NEW o \in Topups, FundingWebhook(o) PROVE TopupTypes'
  BY <1>11 DEF FundingWebhook, TopupTypes, Topup
<1>12. ASSUME NEW m \in recheck, RecheckReads(m) PROVE TopupTypes'
  <2>1. m.of \in Topups /\ m.sequence \in 1..Delays
    BY DEF TopupTypes, Messages
  <2>2. [at |-> "QUERY", sequence |-> m.sequence] \in Querying
    BY <2>1 DEF Querying
  <2>3. rechecker' \in [Topups -> {AtRest} \union Querying]
    BY <1>12, <2>1, <2>2 DEF RecheckReads, TopupTypes
  <2>4. recheck' \subseteq Messages
    BY <1>12 DEF RecheckReads, TopupTypes
  <2> QED
    BY <1>12, <2>3, <2>4 DEF RecheckReads, TopupTypes
<1>13. ASSUME NEW finance \in BOOLEAN, NEW mayTopup \in BOOLEAN,
              SetFinanceFlags(finance, mayTopup)
       PROVE  TopupTypes'
  BY <1>13 DEF SetFinanceFlags, topupVars, TopupTypes
<1>14. ASSUME CloseTenant \/ SwitchTopups PROVE TopupTypes'
  BY <1>14 DEF CloseTenant, SwitchTopups, topupVars, TopupTypes
<1>15. ASSUME UNCHANGED fundingVars PROVE TopupTypes'
  BY <1>15 DEF fundingVars, TopupTypes
<1> QED
  BY <1>1, <1>2, <1>3, <1>4, <1>5, <1>6, <1>7, <1>8, <1>9, <1>10, <1>11, <1>12, <1>13,
     <1>14, <1>15 DEF FundingNext

-----------------------------------------------------------------------------
(* Credit.  Only the webhook credits, and the journal stops the second one. *)

LEMMA FundingStepJournal ==
  ASSUME TopupTypes, JournalRemembers, [FundingNext]_fundingVars
  PROVE  JournalRemembers'
<1>1. ASSUME NEW o \in Topups, FundingWebhook(o) PROVE JournalRemembers'
  <2>1. fundingJournal' = fundingJournal \union {o} /\ UNCHANGED customerPaid
        /\ o \in customerPaid
        /\ credited' = IF o \notin fundingJournal THEN [credited EXCEPT ![o] = @ + 1]
                       ELSE credited
    BY <1>1 DEF FundingWebhook, Raises
  <2>2. \A q \in Topups : credited'[q] = IF q \in fundingJournal' THEN 1 ELSE 0
    BY <2>1 DEF TopupTypes, JournalRemembers
  <2> QED
    BY <2>1, <2>2 DEF JournalRemembers
<1>2. ASSUME NEW o \in Topups, PayTopup(o) PROVE JournalRemembers'
  BY <1>2 DEF PayTopup, JournalRemembers
<1>3. ASSUME UNCHANGED <<credited, fundingJournal, customerPaid>> PROVE JournalRemembers'
  BY <1>3 DEF JournalRemembers
<1>4. ASSUME NEW o \in Topups,
             \/ CreateTopup(o) \/ AskForLink(o) \/ WriteLink(o) \/ MarkUnknown(o)
             \/ ScheduleFirst(o) \/ MakerDies(o)
             \/ RecheckFinds(o) \/ RecheckFindsNothing(o) \/ RecheckLost(o)
      PROVE  UNCHANGED <<credited, fundingJournal, customerPaid>>
  BY <1>4 DEF CreateTopup, AskForLink, WriteLink, MarkUnknown, ScheduleFirst, MakerDies,
     RecheckFinds, RecheckFindsNothing, RecheckLost
<1>5. ASSUME \/ \E m \in recheck : RecheckReads(m)
             \/ \E finance, mayTopup \in BOOLEAN : SetFinanceFlags(finance, mayTopup)
             \/ CloseTenant \/ SwitchTopups
             \/ UNCHANGED fundingVars
      PROVE  UNCHANGED <<credited, fundingJournal, customerPaid>>
  BY <1>5 DEF RecheckReads, SetFinanceFlags, CloseTenant, SwitchTopups, topupVars, fundingVars
<1> QED
  BY <1>1, <1>2, <1>3, <1>4, <1>5 DEF FundingNext

-----------------------------------------------------------------------------
(* Watching.                                                               *)

\* A scheduled reconciliation is somebody looking.
LEMMA ScheduleWatches ==
  ASSUME TopupTypes, NEW o \in Topups, NEW n \in Nat \ {0}, Schedule(o, n)
  PROVE  Watched(o)'
<1>1. CASE Refuse(o) /\ UNCHANGED recheck
  BY <1>1 DEF Refuse, TopupTypes, Topup, Watched
<1>2. CASE recheck' = recheck \union {[of |-> o, sequence |-> n]}
  <2>1. [of |-> o, sequence |-> n] \in recheck' /\ [of |-> o, sequence |-> n].of = o
    BY <1>2
  <2>2. \E m \in recheck' : m.of = o
    BY <2>1
  <2> QED
    BY <2>2 DEF Watched
<1> QED
  BY <1>1, <1>2 DEF Schedule

\* What a step does to one order leaves the other ones watched.
LEMMA OthersStayWatched ==
  ASSUME TopupTypes, UnknownsAreWatched, NEW o \in Topups,
         \A q \in Topups \ {o} : /\ topup'[q] = topup[q] /\ maker'[q] = maker[q]
                                 /\ rechecker'[q] = rechecker[q],
         \A m \in recheck : m.of # o => m \in recheck',
         forgotten \subseteq forgotten',
         o \in forgotten' \/ topup'[o].status # "UNKNOWN" \/ Watched(o)'
  PROVE  UnknownsAreWatched'
<1> SUFFICES ASSUME NEW q \in Topups, q \notin forgotten', topup'[q].status = "UNKNOWN"
             PROVE  Watched(q)'
  BY DEF UnknownsAreWatched
<1>1. CASE q = o
  BY <1>1
<1>2. CASE q # o
  <2>1. Watched(q)
    BY <1>2 DEF UnknownsAreWatched
  <2> QED
    BY <1>2, <2>1 DEF Watched
<1> QED
  BY <1>1, <1>2

LEMMA FundingStepWatches ==
  ASSUME TopupTypes, UnknownsAreWatched, [FundingNext]_fundingVars
  PROVE  UnknownsAreWatched'
<1> USE DEF MakerGoes
<1>1. ASSUME NEW o \in Topups, CreateTopup(o) PROVE UnknownsAreWatched'
  <2>1. topup'[o].status = "PENDING"
    BY <1>1 DEF CreateTopup, TopupTypes, Topup
  <2> QED
    BY <1>1, <2>1, OthersStayWatched DEF CreateTopup, TopupTypes
<1>2. ASSUME NEW o \in Topups, AskForLink(o) PROVE UnknownsAreWatched'
  <2>1. topup[o].status = "UNKNOWN" /\ o \notin forgotten => Watched(o)'
    BY <1>2 DEF AskForLink, TopupTypes, UnknownsAreWatched, Watched
  <2> QED
    BY <1>2, <2>1, OthersStayWatched DEF AskForLink, TopupTypes
<1>3. ASSUME NEW o \in Topups, WriteLink(o) PROVE UnknownsAreWatched'
  <2>1. /\ topup'[o].status = topup[o].status
        /\ topup'[o].review = topup[o].review
    BY <1>3 DEF WriteLink, TopupTypes, Topup
  <2>2. topup[o].status = "UNKNOWN" /\ o \notin forgotten => Watched(o)'
    BY <1>3, <2>1 DEF WriteLink, TopupTypes, UnknownsAreWatched, Watched
  <2> QED
    BY <1>3, <2>1, <2>2, OthersStayWatched DEF WriteLink, TopupTypes
<1>4. ASSUME NEW o \in Topups, MarkUnknown(o) PROVE UnknownsAreWatched'
  <2>1. Watched(o)'
    BY <1>4 DEF MarkUnknown, TopupTypes, Watched
  <2> QED
    BY <1>4, <2>1, OthersStayWatched DEF MarkUnknown, TopupTypes
<1>5. ASSUME NEW o \in Topups, ScheduleFirst(o) PROVE UnknownsAreWatched'
  <2>1. Watched(o)'
    BY <1>5, ScheduleWatches DEF ScheduleFirst
  <2> QED
    BY <1>5, <2>1, OthersStayWatched DEF ScheduleFirst, Schedule, Refuse, TopupTypes
<1>6. ASSUME NEW o \in Topups, MakerDies(o) PROVE UnknownsAreWatched'
  BY <1>6, OthersStayWatched DEF MakerDies, TopupTypes
<1>7. ASSUME NEW o \in Topups, RecheckFinds(o) PROVE UnknownsAreWatched'
  <2>1. Watched(o)'
    BY <1>7 DEF RecheckFinds, TopupTypes, Topup, Watched
  <2> QED
    BY <1>7, <2>1, OthersStayWatched DEF RecheckFinds, TopupTypes
<1>8. ASSUME NEW o \in Topups, RecheckFindsNothing(o) PROVE UnknownsAreWatched'
  <2>1. rechecker[o] \in Querying
    BY <1>8 DEF RecheckFindsNothing, TopupTypes, AtRest
  <2>2. rechecker[o].sequence + 1 \in Nat \ {0}
    BY <2>1, FundingAssumption DEF Querying
  <2>3. Watched(o)'
    BY <1>8, <2>2, ScheduleWatches DEF RecheckFindsNothing
  <2> QED
    BY <1>8, <2>3, OthersStayWatched DEF RecheckFindsNothing, Schedule, Refuse, TopupTypes
<1>9. ASSUME NEW o \in Topups, RecheckLost(o) PROVE UnknownsAreWatched'
  BY <1>9, OthersStayWatched DEF RecheckLost, TopupTypes
<1>10. ASSUME NEW o \in Topups, PayTopup(o) PROVE UnknownsAreWatched'
  BY <1>10 DEF PayTopup, UnknownsAreWatched, Watched
<1>11. ASSUME NEW o \in Topups, FundingWebhook(o) PROVE UnknownsAreWatched'
  <2>1. topup'[o].status = "PAID"
    BY <1>11 DEF FundingWebhook, TopupTypes
  <2> QED
    BY <1>11, <2>1, OthersStayWatched DEF FundingWebhook, TopupTypes
<1>12. ASSUME NEW m \in recheck, RecheckReads(m) PROVE UnknownsAreWatched'
  <2>1. m.of \in Topups
    BY DEF TopupTypes, Messages
  <2>2. topup'[m.of].status # "UNKNOWN" \/ Watched(m.of)'
    BY <1>12, <2>1 DEF RecheckReads, TopupTypes, Watched, AtRest
  <2> QED
    BY <1>12, <2>1, <2>2, OthersStayWatched DEF RecheckReads, TopupTypes
<1>13. ASSUME \/ \E finance, mayTopup \in BOOLEAN : SetFinanceFlags(finance, mayTopup)
              \/ CloseTenant \/ SwitchTopups
              \/ UNCHANGED fundingVars
       PROVE  UnknownsAreWatched'
  BY <1>13 DEF SetFinanceFlags, CloseTenant, SwitchTopups, topupVars, fundingVars,
     UnknownsAreWatched, Watched
<1> QED
  BY <1>1, <1>2, <1>3, <1>4, <1>5, <1>6, <1>7, <1>8, <1>9, <1>10, <1>11, <1>12, <1>13
  DEF FundingNext

-----------------------------------------------------------------------------
LEMMA FundingStepInvariant == FundingInv /\ [FundingNext]_fundingVars => FundingInv'
BY FundingStepTypes, FundingStepJournal, FundingStepWatches DEF FundingInv

LEMMA FundingInvariantIsEnough == FundingInv => TopupsAreSafe
<1> SUFFICES ASSUME FundingInv PROVE TopupsAreSafe
  OBVIOUS
<1>1. ToppedUpOnce
  BY DEF FundingInv, JournalRemembers, ToppedUpOnce
<1>2. UnknownTopupsAreWatched
  BY DEF FundingInv, UnknownsAreWatched, Watched, UnknownTopupsAreWatched
<1> QED
  BY <1>1, <1>2 DEF TopupsAreSafe

LEMMA FundingInvariantHasTypes == FundingInv => FundingTypeOK
BY DEF FundingInv, TopupTypes, FundingTypeOK, Topup, MakerSteps, Messages

\* Every variable keeps its type (finance.ts:595-774, recovery.ts:134-193).
THEOREM FundingTypeCorrect == FundingSpec => []FundingTypeOK
BY FundingInitInvariant, FundingStepInvariant, FundingInvariantHasTypes, PTL DEF FundingSpec

\* Whatever is lost, repeated, overwritten or answered late between the request,
\* payOS's webhook and the reconciliation job, a top-up raises the treasury at
\* most once and only when paid, and an unknown one is looked at
\* (finance.ts:674-766, recovery.ts:134-193).
THEOREM TopupsStaySafe == FundingSpec => []TopupsAreSafe
BY FundingInitInvariant, FundingStepInvariant, FundingInvariantIsEnough, PTL DEF FundingSpec

-----------------------------------------------------------------------------
(* Tenancy, for every set of shops, users and invoices, and all times.     *)

ShopRow == [status : ShopStatuses, plan : PlanCodes, until : Nat]
BillRow == [status : {"PENDING", "PAID", "EXPIRED", "FAILED"}, of : Shops, until : Nat,
            link : BOOLEAN, opening : BOOLEAN]
WebhookTx == [at : {"WEBHOOK"}, bill : Bills, saw : BillRow, shop : ShopRow, now : Nat]
JoinTx == [at : {"JOIN"}, user : Joiners, of : Shops, shop : ShopRow, members : SUBSET Joiners]

TenancyKinds ==
  /\ shop \in [Shops -> ShopRow]
  /\ adjusted \in [Shops -> Nat]
  /\ memberOf \in [Joiners -> Shops \union {Unattached}]
  /\ bill \in [Bills -> {NoBill} \union BillRow]
  /\ paidBill \subseteq Bills
  /\ transaction \in [Transactions -> {Quiet} \union WebhookTx \union JoinTx]
  /\ day \in Nat

\* An invoice is paid when it exists, and a shop has invoices and days when it does.
BillsHaveTheirShop ==
  /\ \A b \in paidBill : bill[b] \in BillRow
  /\ \A b \in Bills : bill[b] \in BillRow =>
       /\ shop[bill[b].of].status # "NONE"
       /\ bill[b].opening => ~bill[b].link
       /\ bill[b].status = "PAID" => bill[b].link
  /\ \A t \in Shops : ~Exists(t) => adjusted[t] = 0

\* A webhook looked at the clock before now; a join found a free seat.
ReadsWereTrue ==
  \A x \in Transactions :
    /\ transaction[x].at = "WEBHOOK" => transaction[x].now <= day
    /\ transaction[x].at = "JOIN" =>
         Cardinality(transaction[x].members) < Seats[transaction[x].shop.plan]

TenancyInv == TenancyKinds /\ BillsHaveTheirShop /\ ReadsWereTrue /\ PaidDaysAreServed

-----------------------------------------------------------------------------
LEMMA TransactionForms ==
  /\ \A tx \in WebhookTx : tx # Quiet /\ tx.at = "WEBHOOK"
  /\ \A tx \in JoinTx : tx # Quiet /\ tx.at = "JOIN"
  /\ Quiet.at = "QUIET"
BY DEF WebhookTx, JoinTx, Quiet

LEMMA NoBillIsNoRow == NoBill \notin BillRow /\ NoBill.status = "NONE"
BY DEF NoBill, BillRow

LEMMA PaidOf ==
  ASSUME NEW B \in [Bills -> {NoBill} \union BillRow], NEW t
  PROVE  LET S == {b \in Bills : B[b].status = "PAID" /\ B[b].of = t} IN
         IsFiniteSet(S) /\ Cardinality(S) \in Nat
BY TenancyAssumption, FS_Subset, FS_CardinalityType DEF TenancyAssumption

LEMMA DaysGivenType ==
  ASSUME TenancyKinds, NEW t \in Shops
  PROVE  DaysGiven(t) \in Nat
<1>1. Cardinality({b \in Bills : bill[b].status = "PAID" /\ bill[b].of = t}) \in Nat
  BY PaidOf DEF TenancyKinds
<1>2. TrialDays \in Nat /\ BillDays \in Nat /\ adjusted[t] \in Nat
  BY TenancyAssumption DEF TenancyAssumption, TenancyKinds
<1>3. ASSUME NEW n \in Nat, NEW k \in Nat, NEW a \in Nat, NEW c \in Nat
      PROVE  a + c + k * n \in Nat
  OBVIOUS
<1> QED
  BY <1>1, <1>2, <1>3 DEF DaysGiven

LEMMA MaxOfTwo ==
  ASSUME NEW a \in Nat, NEW b \in Nat
  PROVE  Max({a, b}) \in Nat /\ Max({a, b}) >= a /\ Max({a, b}) >= b /\ Max({a, b}) \in {a, b}
<1>1. \E m \in {a, b} : \A y \in {a, b} : m >= y
  <2>1. CASE a >= b
    BY <2>1
  <2>2. CASE ~(a >= b)
    BY <2>2
  <2> QED
    BY <2>1, <2>2
<1> QED
  BY <1>1 DEF Max

\* While no invoice is paid and no day added, a shop whose days do not change is
\* served as before.
LEMMA SameDaysGiven ==
  ASSUME TenancyKinds, TenancyKinds', NEW t \in Shops, adjusted'[t] = adjusted[t],
         \A b \in Bills : bill'[b].status = "PAID" /\ bill'[b].of = t
                            <=> bill[b].status = "PAID" /\ bill[b].of = t
  PROVE  DaysGiven(t)' = DaysGiven(t)
<1>1. {b \in Bills : bill'[b].status = "PAID" /\ bill'[b].of = t}
        = {b \in Bills : bill[b].status = "PAID" /\ bill[b].of = t}
  OBVIOUS
<1> QED
  BY <1>1 DEF DaysGiven

LEMMA TenancyInitInvariant == TenancyInit => TenancyInv
<1> SUFFICES ASSUME TenancyInit PROVE TenancyInv
  OBVIOUS
<1>1. TenancyKinds
  BY TenancyAssumption DEF TenancyInit, TenancyKinds, TenancyAssumption, NoShop, ShopRow, ShopStatuses, PlanCodes
<1>2. BillsHaveTheirShop /\ ReadsWereTrue /\ PaidDaysAreServed
  BY NoBillIsNoRow, TransactionForms DEF TenancyInit, BillsHaveTheirShop, ReadsWereTrue, PaidDaysAreServed, Exists, NoShop
<1> QED
  BY <1>1, <1>2 DEF TenancyInv

\* A step that pays nothing and gives no day: the days stay as they are.
LEMMA UnpaidKeeps ==
  ASSUME TenancyInv, TenancyKinds', UNCHANGED adjusted, day <= day',
         \A b \in Bills : bill'[b].status = "PAID" <=> bill[b].status = "PAID",
         \A b \in Bills : bill[b].status = "PAID" => bill'[b].of = bill[b].of,
         \A t \in Shops : Exists(t)' => Exists(t) /\ shop'[t].until = shop[t].until
  PROVE  PaidDaysAreServed'
<1> SUFFICES ASSUME NEW t \in Shops, Exists(t)'
             PROVE  shop'[t].until \in DaysGiven(t)'..(day' + DaysGiven(t)')
  BY DEF PaidDaysAreServed
<1>1. DaysGiven(t)' = DaysGiven(t)
  BY SameDaysGiven DEF TenancyInv
<1>2. shop[t].until \in DaysGiven(t)..(day + DaysGiven(t)) /\ shop'[t].until = shop[t].until
  BY DEF TenancyInv, PaidDaysAreServed
<1>3. DaysGiven(t) \in Nat /\ day \in Nat /\ day' \in Nat
  BY DaysGivenType DEF TenancyInv, TenancyKinds
<1> QED
  BY <1>1, <1>2, <1>3

LEMMA RegisterKeeps ==
  ASSUME TenancyInv, NEW t \in Shops, RegisterShop(t) PROVE TenancyInv'
<1> USE TenancyAssumption DEF TenancyAssumption
<1> DEFINE row == [status |-> "TRIAL", plan |-> "TRIAL_14D", until |-> day + TrialDays]
<1>1. row \in ShopRow /\ row.status = "TRIAL" /\ row.until = day + TrialDays
  BY DEF TenancyInv, TenancyKinds, ShopRow, ShopStatuses, PlanCodes
<1>2. /\ shop' = [shop EXCEPT ![t] = row]
      /\ UNCHANGED <<memberOf, bill, paidBill, transaction, adjusted, day>>
  BY DEF RegisterShop
<1> HIDE DEF row
<1>3. TenancyKinds'
  BY <1>1, <1>2 DEF TenancyInv, TenancyKinds
<1>4. ~Exists(t)
  BY DEF RegisterShop, NoShop, Exists
<1>5. \A s \in Shops : Exists(s) => shop'[s] = shop[s] /\ Exists(s)'
  BY <1>2, <1>4 DEF Exists
<1>6. BillsHaveTheirShop'
  <2>1. \A b \in Bills : bill[b] \in BillRow => shop'[bill'[b].of].status # "NONE"
    <3> SUFFICES ASSUME NEW b \in Bills, bill[b] \in BillRow PROVE shop'[bill'[b].of].status # "NONE"
      BY <1>2
    <3>1. bill[b].of \in Shops /\ shop[bill[b].of].status # "NONE" /\ bill'[b] = bill[b]
      BY <1>2 DEF TenancyInv, BillsHaveTheirShop, BillRow
    <3> QED
      BY <1>5, <3>1 DEF Exists
  <2>2. \A s \in Shops : ~Exists(s)' => ~Exists(s)
    BY <1>5
  <2> QED
    BY <1>2, <2>1, <2>2 DEF TenancyInv, BillsHaveTheirShop, Exists
<1>7. ReadsWereTrue'
  BY <1>2 DEF TenancyInv, ReadsWereTrue
<1>8. PaidDaysAreServed'
  <2> SUFFICES ASSUME NEW s \in Shops, Exists(s)'
               PROVE  shop'[s].until \in DaysGiven(s)'..(day' + DaysGiven(s)')
    BY DEF PaidDaysAreServed
  <2>1. DaysGiven(s)' = DaysGiven(s) /\ day' = day
    BY <1>2, <1>3, SameDaysGiven DEF TenancyInv
  <2>2. CASE s # t
    <3>1. shop'[s] = shop[s] /\ Exists(s)
      BY <1>2, <2>2 DEF Exists
    <3> QED
      BY <2>1, <3>1 DEF TenancyInv, PaidDaysAreServed
  <2>3. CASE s = t
    <3>1. shop'[t].until = day + TrialDays
      BY <1>1, <1>2 DEF TenancyInv, TenancyKinds
    <3>2. {b \in Bills : bill[b].status = "PAID" /\ bill[b].of = t} = {}
      <4>1. ASSUME NEW b \in Bills, bill[b].status = "PAID", bill[b].of = t PROVE FALSE
        <5>1. bill[b] \in BillRow
          BY <4>1, NoBillIsNoRow DEF TenancyInv, TenancyKinds
        <5> QED
          BY <1>4, <4>1, <5>1 DEF TenancyInv, BillsHaveTheirShop, Exists
      <4> QED
        BY <4>1
    <3>3. DaysGiven(t) = TrialDays
      <4>1. adjusted[t] = 0
        BY <1>4 DEF TenancyInv, BillsHaveTheirShop
      <4>2. BillDays * 0 = 0 /\ TrialDays + 0 + 0 = TrialDays
        OBVIOUS
      <4> QED
        BY <3>2, <4>1, <4>2, FS_EmptySet DEF DaysGiven
    <3>4. day \in Nat
      BY DEF TenancyInv, TenancyKinds
    <3> QED
      BY <2>1, <2>3, <3>1, <3>3, <3>4
  <2> QED
    BY <2>2, <2>3
<1> QED
  BY <1>3, <1>6, <1>7, <1>8 DEF TenancyInv

\* An invoice is opened or its link made or refused: it was not paid, and is not.
LEMMA OneBillKeeps ==
  ASSUME TenancyInv, NEW b \in Bills, NEW row \in BillRow, bill' = [bill EXCEPT ![b] = row],
         row.status # "PAID", bill[b].status # "PAID", shop[row.of].status # "NONE",
         row.opening = FALSE \/ row.link = FALSE,
         UNCHANGED <<shop, memberOf, paidBill, transaction, adjusted, day>>
  PROVE  TenancyInv'
<1>1. TenancyKinds'
  BY DEF TenancyInv, TenancyKinds
<1>2. \A c \in Bills : bill'[c] = IF c = b THEN row ELSE bill[c]
  BY DEF TenancyInv, TenancyKinds
<1>3. BillsHaveTheirShop'
  BY <1>2 DEF TenancyInv, TenancyKinds, BillsHaveTheirShop, Exists
<1>4. ReadsWereTrue'
  BY DEF TenancyInv, ReadsWereTrue
<1>5. \A c \in Bills : bill'[c].status = "PAID" <=> bill[c].status = "PAID"
  BY <1>2
<1>6. \A c \in Bills : bill[c].status = "PAID" => bill'[c].of = bill[c].of
  BY <1>2
<1>7. \A t \in Shops : Exists(t)' => Exists(t) /\ shop'[t].until = shop[t].until
  BY DEF Exists
<1>8. day <= day'
  BY DEF TenancyInv, TenancyKinds
<1> QED
  BY <1>1, <1>3, <1>4, <1>5, <1>6, <1>7, <1>8, UnpaidKeeps DEF TenancyInv

LEMMA CheckoutKeeps ==
  ASSUME TenancyInv, NEW t \in Shops, NEW b \in Bills, Checkout(t, b) PROVE TenancyInv'
<1> DEFINE row == [status |-> "PENDING", of |-> t, until |-> day + BillLife, link |-> FALSE, opening |-> TRUE]
<1>1. row \in BillRow /\ row.status = "PENDING" /\ row.of = t /\ row.link = FALSE
  BY TenancyAssumption DEF TenancyAssumption, TenancyInv, TenancyKinds, BillRow
<1>2. bill' = [bill EXCEPT ![b] = row] /\ shop[t].status # "NONE" /\ bill[b].status # "PAID"
  BY NoBillIsNoRow DEF Checkout, Exists
<1> HIDE DEF row
<1>3. UNCHANGED <<shop, memberOf, paidBill, transaction, adjusted, day>>
  BY DEF Checkout
<1>4. shop[row.of].status # "NONE" /\ row.status # "PAID"
  BY <1>1, <1>2
<1> QED
  BY <1>1, <1>2, <1>3, <1>4, OneBillKeeps

LEMMA LinkKeeps ==
  ASSUME TenancyInv, NEW b \in Bills, LinkCreated(b) \/ LinkRefused(b) PROVE TenancyInv'
<1>1. bill[b] \in BillRow /\ shop[bill[b].of].status # "NONE" /\ ~bill[b].link /\ bill[b].status # "PAID"
  BY DEF LinkCreated, LinkRefused, Opening, TenancyInv, TenancyKinds, BillsHaveTheirShop
<1>2. CASE LinkCreated(b)
  <2> DEFINE row == [bill[b] EXCEPT !.link = TRUE, !.opening = FALSE]
  <2>1. row \in BillRow /\ row.status # "PAID" /\ row.of = bill[b].of /\ row.opening = FALSE
    BY <1>1 DEF BillRow
  <2>2. bill' = [bill EXCEPT ![b] = row]
    BY <1>1, <1>2 DEF LinkCreated
  <2> HIDE DEF row
  <2>3. UNCHANGED <<shop, memberOf, paidBill, transaction, adjusted, day>>
    BY <1>2 DEF LinkCreated
  <2>4. shop[row.of].status # "NONE"
    BY <1>1, <2>1
  <2> QED
    BY <1>1, <2>1, <2>2, <2>3, <2>4, OneBillKeeps
<1>3. CASE LinkRefused(b)
  <2> DEFINE row == [bill[b] EXCEPT !.status = "FAILED", !.opening = FALSE]
  <2>1. row \in BillRow /\ row.status = "FAILED" /\ row.of = bill[b].of /\ row.opening = FALSE
    BY <1>1 DEF BillRow
  <2>2. bill' = [bill EXCEPT ![b] = row]
    BY <1>1, <1>3 DEF LinkRefused
  <2> HIDE DEF row
  <2>3. UNCHANGED <<shop, memberOf, paidBill, transaction, adjusted, day>>
    BY <1>3 DEF LinkRefused
  <2>4. shop[row.of].status # "NONE"
    BY <1>1, <2>1
  <2> QED
    BY <1>1, <2>1, <2>2, <2>3, <2>4, OneBillKeeps
<1> QED
  BY <1>2, <1>3

LEMMA PayKeeps ==
  ASSUME TenancyInv, NEW b \in Bills, CustomerPays(b) PROVE TenancyInv'
<1>1. bill[b] \in BillRow
  BY DEF CustomerPays, TenancyInv, TenancyKinds
<1>2. TenancyKinds' /\ BillsHaveTheirShop' /\ ReadsWereTrue'
  BY <1>1 DEF CustomerPays, TenancyInv, TenancyKinds, BillsHaveTheirShop, ReadsWereTrue, Exists
<1>3. PaidDaysAreServed'
  BY DEF CustomerPays, TenancyInv, PaidDaysAreServed, Exists, DaysGiven
<1> QED
  BY <1>2, <1>3 DEF TenancyInv

\* A transaction reads or ends, and what it wrote left kinds and days right.
LEMMA OneTransactionKeeps ==
  ASSUME TenancyInv, NEW x \in Transactions, NEW tx \in {Quiet} \union WebhookTx \union JoinTx,
         transaction' = [transaction EXCEPT ![x] = tx],
         tx.at = "WEBHOOK" => tx.now <= day,
         tx.at = "JOIN" => Cardinality(tx.members) < Seats[tx.shop.plan],
         UNCHANGED day
  PROVE  /\ transaction' \in [Transactions -> {Quiet} \union WebhookTx \union JoinTx]
         /\ ReadsWereTrue'
<1>1. /\ transaction' \in [Transactions -> {Quiet} \union WebhookTx \union JoinTx]
      /\ transaction'[x] = tx
      /\ \A y \in Transactions : y # x => transaction'[y] = transaction[y]
  BY DEF TenancyInv, TenancyKinds
<1>2. ASSUME NEW y \in Transactions
      PROVE  /\ transaction'[y].at = "WEBHOOK" => transaction'[y].now <= day'
             /\ transaction'[y].at = "JOIN" =>
                  Cardinality(transaction'[y].members) < Seats[transaction'[y].shop.plan]
  <2>1. CASE y = x
    BY <1>1, <2>1
  <2>2. CASE y # x
    BY <1>1, <2>2 DEF TenancyInv, ReadsWereTrue
  <2> QED
    BY <2>1, <2>2
<1> QED
  BY <1>1, <1>2 DEF ReadsWereTrue

LEMMA QuietTransactionKeeps ==
  ASSUME TenancyInv, UNCHANGED <<shop, bill, paidBill, adjusted, day>>,
         memberOf' \in [Joiners -> Shops \union {Unattached}],
         transaction' \in [Transactions -> {Quiet} \union WebhookTx \union JoinTx],
         ReadsWereTrue'
  PROVE  TenancyInv'
<1>1. TenancyKinds' /\ BillsHaveTheirShop'
  BY DEF TenancyInv, TenancyKinds, BillsHaveTheirShop, Exists
<1>2. PaidDaysAreServed'
  BY DEF TenancyInv, PaidDaysAreServed, Exists, DaysGiven
<1> QED
  BY <1>1, <1>2 DEF TenancyInv

LEMMA WebhookReadsKeeps ==
  ASSUME TenancyInv, NEW x \in Transactions, NEW b \in Bills, WebhookReads(x, b) PROVE TenancyInv'
<1> DEFINE row == shop[bill[b].of]
           tx == [at |-> "WEBHOOK", bill |-> b, saw |-> bill[b], shop |-> row, now |-> day]
<1>1. bill[b] \in BillRow /\ day \in Nat
  BY DEF WebhookReads, TenancyInv, TenancyKinds, BillsHaveTheirShop
<1>2. row \in ShopRow
  BY <1>1 DEF BillRow, TenancyInv, TenancyKinds
<1>3. tx \in WebhookTx /\ tx.at = "WEBHOOK" /\ tx.now = day
  BY <1>1, <1>2 DEF WebhookTx
<1>4. transaction' = [transaction EXCEPT ![x] = tx] /\ UNCHANGED <<shop, memberOf, bill, paidBill, adjusted, day>>
  BY DEF WebhookReads
<1> HIDE DEF tx
<1>5. tx.now <= day
  BY <1>1, <1>3
<1>6. /\ transaction' \in [Transactions -> {Quiet} \union WebhookTx \union JoinTx]
      /\ ReadsWereTrue'
  BY <1>3, <1>4, <1>5, OneTransactionKeeps
<1> QED
  BY <1>4, <1>6, QuietTransactionKeeps DEF TenancyInv, TenancyKinds

LEMMA JoinReadsKeeps ==
  ASSUME TenancyInv, NEW x \in Transactions, NEW u \in Joiners, NEW t \in Shops, JoinReads(x, u, t)
  PROVE  TenancyInv'
<1> DEFINE members == {v \in Joiners : memberOf[v] = t}
           tx == [at |-> "JOIN", user |-> u, of |-> t, shop |-> shop[t], members |-> members]
<1>1. shop[t] \in ShopRow /\ members \in SUBSET Joiners
  BY DEF TenancyInv, TenancyKinds
<1>2. Cardinality(members) < Seats[shop[t].plan]
  BY DEF JoinReads
<1>3. transaction' = [transaction EXCEPT ![x] = tx] /\ UNCHANGED <<shop, memberOf, bill, paidBill, adjusted, day>>
  BY DEF JoinReads
<1> HIDE DEF members
<1>4. tx \in JoinTx /\ tx.at = "JOIN" /\ tx.members = members /\ tx.shop = shop[t]
  BY <1>1 DEF JoinTx
<1> HIDE DEF tx
<1>5. /\ transaction' \in [Transactions -> {Quiet} \union WebhookTx \union JoinTx]
      /\ ReadsWereTrue'
  BY <1>2, <1>3, <1>4, OneTransactionKeeps
<1> QED
  BY <1>3, <1>5, QuietTransactionKeeps DEF TenancyInv, TenancyKinds

LEMMA JoinCommitsKeeps ==
  ASSUME TenancyInv, NEW x \in Transactions, JoinCommits(x) PROVE TenancyInv'
<1>1. transaction[x] \in JoinTx
  BY TransactionForms DEF JoinCommits, TenancyInv, TenancyKinds
<1>2. transaction[x].user \in Joiners /\ transaction[x].of \in Shops
  BY <1>1 DEF JoinTx
<1>3. memberOf' \in [Joiners -> Shops \union {Unattached}]
  BY <1>2 DEF JoinCommits, TenancyInv, TenancyKinds
<1>4. /\ transaction' \in [Transactions -> {Quiet} \union WebhookTx \union JoinTx]
      /\ ReadsWereTrue'
  BY OneTransactionKeeps, TransactionForms DEF JoinCommits
<1> QED
  BY <1>3, <1>4, QuietTransactionKeeps DEF JoinCommits

\* A pending invoice is paid: its shop is served longer.
LEMMA PaymentKeeps ==
  ASSUME TenancyInv, NEW t \in Shops, NEW b \in Bills, NEW until \in Nat,
         bill[b] \in BillRow, bill[b].status = "PENDING", bill[b].of = t, bill[b].link,
         bill' = [bill EXCEPT ![b].status = "PAID"],
         shop' = [shop EXCEPT ![t] = [status |-> "ACTIVE", plan |-> "PRO", until |-> until]],
         until >= shop[t].until + BillDays,
         until = shop[t].until + BillDays \/ until <= day + BillDays,
         transaction' \in [Transactions -> {Quiet} \union WebhookTx \union JoinTx],
         ReadsWereTrue',
         UNCHANGED <<memberOf, paidBill, adjusted, day>>
  PROVE  TenancyInv'
<1> USE TenancyAssumption DEF TenancyAssumption
<1> DEFINE row == [status |-> "ACTIVE", plan |-> "PRO", until |-> until]
           paid == [bill[b] EXCEPT !.status = "PAID"]
<1>1. paid \in BillRow /\ paid.status = "PAID" /\ paid.of = t /\ paid.link /\ paid.opening = bill[b].opening
  BY DEF BillRow
<1>2. row \in ShopRow /\ row.until = until /\ row.status = "ACTIVE"
  BY DEF ShopRow, ShopStatuses, PlanCodes
<1>3. bill' = [bill EXCEPT ![b] = paid]
  BY DEF TenancyInv, TenancyKinds
<1>4. shop' = [shop EXCEPT ![t] = row]
  OBVIOUS
<1> HIDE DEF row, paid
<1>5. /\ bill' \in [Bills -> {NoBill} \union BillRow] /\ shop' \in [Shops -> ShopRow]
      /\ bill'[b] = paid /\ shop'[t] = row
      /\ \A c \in Bills : c # b => bill'[c] = bill[c]
      /\ \A s \in Shops : s # t => shop'[s] = shop[s]
  BY <1>1, <1>2, <1>3, <1>4 DEF TenancyInv, TenancyKinds
<1>6. TenancyKinds'
  BY <1>5 DEF TenancyInv, TenancyKinds
<1>7. shop[t].status # "NONE"
  BY DEF TenancyInv, BillsHaveTheirShop
<1>8. BillsHaveTheirShop'
  <2>1. \A c \in paidBill' : bill'[c] \in BillRow
    BY <1>1, <1>5 DEF TenancyInv, TenancyKinds, BillsHaveTheirShop
  <2>2. \A s \in Shops : shop[s].status # "NONE" => shop'[s].status # "NONE"
    BY <1>2, <1>5
  <2>3. ASSUME NEW c \in Bills, bill'[c] \in BillRow
        PROVE  /\ shop'[bill'[c].of].status # "NONE"
               /\ bill'[c].opening => ~bill'[c].link
               /\ bill'[c].status = "PAID" => bill'[c].link
    <3>1. CASE c = b
      <4>1. ~bill[b].opening
        BY DEF TenancyInv, BillsHaveTheirShop
      <4> QED
        BY <1>1, <1>2, <1>5, <3>1, <4>1
    <3>2. CASE c # b
      <4>1. bill'[c] = bill[c] /\ bill[c].of \in Shops
        BY <1>5, <2>3, <3>2 DEF BillRow
      <4> QED
        BY <2>2, <2>3, <4>1 DEF TenancyInv, BillsHaveTheirShop
    <3> QED
      BY <3>1, <3>2
  <2>4. \A s \in Shops : ~Exists(s)' => adjusted'[s] = 0
    BY <1>2, <1>5 DEF TenancyInv, BillsHaveTheirShop, Exists
  <2> QED
    BY <2>1, <2>3, <2>4 DEF BillsHaveTheirShop
<1>9. DaysGiven(t)' = DaysGiven(t) + BillDays
  <2> DEFINE before == {c \in Bills : bill[c].status = "PAID" /\ bill[c].of = t}
  <2>1. {c \in Bills : bill'[c].status = "PAID" /\ bill'[c].of = t} = before \union {b}
    BY <1>1, <1>5
  <2>2. IsFiniteSet(before) /\ Cardinality(before) \in Nat /\ b \notin before
    BY FS_Subset, FS_CardinalityType
  <2>3. Cardinality(before \union {b}) = Cardinality(before) + 1
    BY <2>2, FS_AddElement
  <2>4. DaysGiven(t)' = TrialDays + adjusted[t] + BillDays * Cardinality(before \union {b})
    BY <2>1 DEF DaysGiven
  <2>5. DaysGiven(t) = TrialDays + adjusted[t] + BillDays * Cardinality(before)
    BY DEF DaysGiven
  <2>6. adjusted[t] \in Nat
    BY DEF TenancyInv, TenancyKinds
  <2> HIDE DEF before
  <2>7. ASSUME NEW k \in Nat, NEW n \in Nat, NEW c \in Nat, NEW a \in Nat
        PROVE  c + a + k * (n + 1) = (c + a + k * n) + k
    OBVIOUS
  <2> QED
    BY <2>2, <2>3, <2>4, <2>5, <2>6, <2>7
<1>10. PaidDaysAreServed'
  <2> SUFFICES ASSUME NEW s \in Shops, Exists(s)'
               PROVE  shop'[s].until \in DaysGiven(s)'..(day' + DaysGiven(s)')
    BY DEF PaidDaysAreServed
  <2>1. CASE s = t
    <3>1. shop[t].until \in DaysGiven(t)..(day + DaysGiven(t))
      BY <1>7 DEF TenancyInv, PaidDaysAreServed, Exists
    <3>2. DaysGiven(t) \in Nat /\ day \in Nat /\ BillDays \in Nat
      BY DaysGivenType DEF TenancyInv, TenancyKinds
    <3>3. shop'[t].until = until
      BY <1>2, <1>5
    <3> QED
      BY <1>9, <2>1, <3>1, <3>2, <3>3
  <2>2. CASE s # t
    <3>1. shop'[s] = shop[s] /\ Exists(s) /\ adjusted'[s] = adjusted[s]
      BY <1>5, <2>2 DEF Exists
    <3>2. \A c \in Bills : bill'[c].status = "PAID" /\ bill'[c].of = s
                             <=> bill[c].status = "PAID" /\ bill[c].of = s
      BY <1>1, <1>5, <2>2
    <3>3. DaysGiven(s)' = DaysGiven(s)
      BY <1>6, <3>1, <3>2, SameDaysGiven DEF TenancyInv
    <3> QED
      BY <3>1, <3>3 DEF TenancyInv, PaidDaysAreServed
  <2> QED
    BY <2>1, <2>2
<1> QED
  BY <1>6, <1>8, <1>10 DEF TenancyInv

LEMMA WebhookCommitsKeeps ==
  ASSUME TenancyInv, NEW x \in Transactions, WebhookCommits(x) PROVE TenancyInv'
<1> USE TenancyAssumption DEF TenancyAssumption
<1> DEFINE tx == transaction[x]
           t == tx.saw.of
           b == tx.bill
<1>1. /\ tx \in WebhookTx /\ tx.now <= day /\ tx.now \in Nat /\ b \in Bills /\ t \in Shops /\ tx.saw \in BillRow
      /\ tx.shop \in ShopRow /\ tx.shop.until \in Nat
  BY TransactionForms DEF WebhookCommits, TenancyInv, TenancyKinds, ReadsWereTrue, WebhookTx, BillRow, ShopRow
<1>2. /\ transaction' \in [Transactions -> {Quiet} \union WebhookTx \union JoinTx]
      /\ ReadsWereTrue'
      /\ UNCHANGED <<memberOf, paidBill, adjusted, day>>
  BY OneTransactionKeeps, TransactionForms DEF WebhookCommits
<1>3. CASE ~(Serializable(x) /\ Payable(tx.saw, tx.now))
  <2>1. UNCHANGED <<bill, shop>>
    BY <1>3 DEF WebhookCommits
  <2> QED
    BY <1>2, <2>1, QuietTransactionKeeps DEF TenancyInv, TenancyKinds
<1>4. CASE Serializable(x) /\ Payable(tx.saw, tx.now)
  <2> DEFINE until == Extended(tx.shop.until, BillDays, tx.now)
             row == [status |-> "ACTIVE", plan |-> "PRO", until |-> until]
  <2>1. bill[b] = tx.saw /\ shop[t] = tx.shop /\ tx.saw.status = "PENDING" /\ tx.saw.link
    BY <1>4 DEF WebhookCommits, Serializable, Payable
  <2>2. bill' = [bill EXCEPT ![b].status = "PAID"] /\ shop' = [shop EXCEPT ![t] = row]
    BY <1>4 DEF WebhookCommits
  <2>3. /\ until \in Nat /\ until >= shop[t].until + BillDays
        /\ until = shop[t].until + BillDays \/ until <= day + BillDays
    <3>1. until = Max({tx.shop.until, tx.now}) + BillDays
      BY DEF Extended
    <3>2. day \in Nat
      BY DEF TenancyInv, TenancyKinds
    <3> HIDE DEF until
    <3> QED
      BY <1>1, <2>1, <3>1, <3>2, MaxOfTwo
  <2>4. /\ bill[b] \in BillRow /\ bill[b].status = "PENDING" /\ bill[b].of = t /\ bill[b].link
    BY <1>1, <2>1
  <2> HIDE DEF tx, t, b, until
  <2> QED
    BY <1>1, <1>2, <2>2, <2>3, <2>4, PaymentKeeps DEF row
<1> QED
  BY <1>3, <1>4

\* A shop changes its status, its plan or, upwards, its days.
LEMMA ExpireKeeps ==
  ASSUME TenancyInv, ExpireAll PROVE TenancyInv'
<1>1. ASSUME NEW b \in Bills
      PROVE  /\ bill'[b] \in {NoBill} \union BillRow
             /\ bill'[b] \in BillRow => bill[b] \in BillRow /\ bill'[b].of = bill[b].of
                  /\ bill'[b].link = bill[b].link /\ bill'[b].opening = bill[b].opening
             /\ bill[b] \in BillRow => bill'[b] \in BillRow
             /\ bill'[b].status = "PAID" <=> bill[b].status = "PAID"
             /\ bill[b].status = "PAID" => bill'[b].of = bill[b].of
  <2>1. CASE bill[b].status = "PENDING" /\ bill[b].until <= day
    <3>1. bill[b] \in BillRow
      BY <2>1, NoBillIsNoRow DEF TenancyInv, TenancyKinds
    <3>2. bill'[b] = [bill[b] EXCEPT !.status = "EXPIRED"]
      BY <2>1 DEF ExpireAll
    <3> QED
      BY <2>1, <3>1, <3>2 DEF BillRow
  <2>2. CASE ~(bill[b].status = "PENDING" /\ bill[b].until <= day)
    <3>1. bill'[b] = bill[b]
      BY <2>2 DEF ExpireAll
    <3> QED
      BY <3>1 DEF TenancyInv, TenancyKinds
  <2> QED
    BY <2>1, <2>2
<1>2. ASSUME NEW t \in Shops
      PROVE  /\ shop'[t] \in ShopRow
             /\ shop'[t].status = "NONE" <=> shop[t].status = "NONE"
             /\ shop'[t].until = shop[t].until
  <2>1. shop[t] \in ShopRow
    BY DEF TenancyInv, TenancyKinds
  <2>2. CASE shop[t].status \in {"TRIAL", "ACTIVE"} /\ shop[t].until <= day
    <3>1. shop'[t] = [shop[t] EXCEPT !.status = "PAST_DUE"]
      BY <2>2 DEF ExpireAll
    <3> QED
      BY <2>1, <2>2, <3>1 DEF ShopRow, ShopStatuses
  <2>3. CASE ~(shop[t].status \in {"TRIAL", "ACTIVE"} /\ shop[t].until <= day)
    <3>1. shop'[t] = shop[t]
      BY <2>3 DEF ExpireAll
    <3> QED
      BY <2>1, <3>1
  <2> QED
    BY <2>2, <2>3
<1>3. TenancyKinds'
  BY <1>1, <1>2 DEF ExpireAll, TenancyInv, TenancyKinds
<1>4. BillsHaveTheirShop'
  <2>1. ASSUME NEW b \in Bills, bill'[b] \in BillRow
        PROVE  /\ shop'[bill'[b].of].status # "NONE"
               /\ bill'[b].opening => ~bill'[b].link
               /\ bill'[b].status = "PAID" => bill'[b].link
    <3>1. bill[b] \in BillRow /\ bill'[b].of = bill[b].of /\ bill[b].of \in Shops
      BY <1>1, <2>1 DEF BillRow
    <3> QED
      BY <1>1, <1>2, <2>1, <3>1 DEF TenancyInv, BillsHaveTheirShop
  <2>2. \A b \in paidBill' : bill'[b] \in BillRow
    BY <1>1 DEF ExpireAll, TenancyInv, TenancyKinds, BillsHaveTheirShop
  <2>3. \A t \in Shops : ~Exists(t)' => adjusted'[t] = 0
    BY <1>2 DEF ExpireAll, TenancyInv, BillsHaveTheirShop, Exists
  <2> QED
    BY <2>1, <2>2, <2>3 DEF BillsHaveTheirShop
<1>5. ReadsWereTrue'
  BY DEF ExpireAll, TenancyInv, ReadsWereTrue
<1>6. \A t \in Shops : Exists(t)' => Exists(t) /\ shop'[t].until = shop[t].until
  BY <1>2 DEF Exists
<1>7. day <= day' /\ UNCHANGED adjusted
  BY DEF ExpireAll, TenancyInv, TenancyKinds
<1>8. PaidDaysAreServed'
  BY <1>1, <1>3, <1>6, <1>7, UnpaidKeeps
<1> QED
  BY <1>3, <1>4, <1>5, <1>8 DEF TenancyInv

LEMMA SetShopStatusKeeps ==
  ASSUME TenancyInv, NEW t \in Shops, SetShopStatus(t) PROVE TenancyInv'
<1>1. PICK next \in ShopStatuses \ {"NONE"} : shop' = [shop EXCEPT ![t].status = next]
  BY DEF SetShopStatus, Restored, ShopStatuses
<1>2. UNCHANGED <<memberOf, bill, paidBill, transaction, adjusted, day>> /\ shop[t].status # "NONE"
  BY DEF SetShopStatus, Exists
<1>3. ASSUME NEW s \in Shops
      PROVE  /\ shop'[s] \in ShopRow
             /\ shop'[s].status = "NONE" <=> shop[s].status = "NONE"
             /\ shop'[s].until = shop[s].until
  <2>1. shop[s] \in ShopRow /\ shop'[s] = IF s = t THEN [shop[t] EXCEPT !.status = next] ELSE shop[s]
    BY <1>1 DEF TenancyInv, TenancyKinds
  <2> QED
    BY <1>2, <2>1 DEF ShopRow
<1>4. TenancyKinds'
  BY <1>1, <1>2, <1>3 DEF TenancyInv, TenancyKinds
<1>5. BillsHaveTheirShop'
  <2>1. ASSUME NEW b \in Bills, bill[b] \in BillRow
        PROVE  shop'[bill[b].of].status # "NONE"
    <3>1. bill[b].of \in Shops
      BY <2>1 DEF BillRow
    <3> QED
      BY <1>3, <2>1, <3>1 DEF TenancyInv, BillsHaveTheirShop
  <2>2. \A s \in Shops : ~Exists(s)' => ~Exists(s)
    BY <1>3 DEF Exists
  <2> QED
    BY <1>2, <2>1, <2>2 DEF TenancyInv, BillsHaveTheirShop
<1>6. ReadsWereTrue'
  BY <1>2 DEF TenancyInv, ReadsWereTrue
<1>7. \A s \in Shops : Exists(s)' => Exists(s) /\ shop'[s].until = shop[s].until
  BY <1>3 DEF Exists
<1>8. day <= day'
  BY <1>2 DEF TenancyInv, TenancyKinds
<1>9. PaidDaysAreServed'
  BY <1>2, <1>4, <1>7, <1>8, UnpaidKeeps
<1> QED
  BY <1>4, <1>5, <1>6, <1>9 DEF TenancyInv

LEMMA AdjustKeeps ==
  ASSUME TenancyInv, NEW t \in Shops, AdjustPlan(t) PROVE TenancyInv'
<1> USE TenancyAssumption DEF TenancyAssumption
<1> DEFINE until == Extended(shop[t].until, AdjustDays, day)
           row == [status |-> "ACTIVE", plan |-> "PRO", until |-> until]
<1>1. shop[t].until \in Nat /\ day \in Nat
  BY DEF TenancyInv, TenancyKinds, ShopRow
<1>2. /\ until \in Nat /\ until >= shop[t].until + AdjustDays
      /\ until = shop[t].until + AdjustDays \/ until = day + AdjustDays
  <2> DEFINE a == shop[t].until
             m == Max({a, day})
  <2>1. until = m + AdjustDays
    BY DEF Extended
  <2>2. a \in Nat
    BY <1>1
  <2> HIDE DEF until, a
  <2>3. m \in Nat /\ m >= a /\ (m = a \/ m = day)
    BY <1>1, <2>2, MaxOfTwo
  <2> HIDE DEF m
  <2>4. until \in Nat /\ until >= a + AdjustDays /\ (until = a + AdjustDays \/ until = day + AdjustDays)
    BY <1>1, <2>1, <2>2, <2>3
  <2> QED
    BY <2>4 DEF a
<1>3. /\ shop' = [shop EXCEPT ![t] = row] /\ adjusted' = [adjusted EXCEPT ![t] = @ + AdjustDays]
      /\ UNCHANGED <<memberOf, bill, paidBill, transaction, day>>
      /\ shop[t].status # "NONE"
  BY DEF AdjustPlan, Exists
<1> HIDE DEF until
<1>4. row \in ShopRow /\ row.until = until /\ row.status = "ACTIVE"
  BY <1>2 DEF ShopRow, ShopStatuses, PlanCodes
<1> HIDE DEF row
<1>5. /\ shop'[t] = row /\ \A s \in Shops : s # t => shop'[s] = shop[s] /\ adjusted'[s] = adjusted[s]
      /\ adjusted[t] \in Nat /\ adjusted'[t] = adjusted[t] + AdjustDays
  BY <1>3 DEF TenancyInv, TenancyKinds
<1>6. TenancyKinds'
  BY <1>3, <1>4, <1>5 DEF TenancyInv, TenancyKinds
<1>7. BillsHaveTheirShop'
  <2>1. ASSUME NEW b \in Bills, bill[b] \in BillRow
        PROVE  shop'[bill[b].of].status # "NONE"
    <3>1. bill[b].of \in Shops
      BY <2>1 DEF BillRow
    <3> QED
      BY <1>4, <1>5, <2>1, <3>1 DEF TenancyInv, BillsHaveTheirShop
  <2>2. \A s \in Shops : ~Exists(s)' => adjusted'[s] = 0
    BY <1>4, <1>5 DEF Exists, TenancyInv, BillsHaveTheirShop
  <2> QED
    BY <1>3, <2>1, <2>2 DEF TenancyInv, BillsHaveTheirShop
<1>8. ReadsWereTrue'
  BY <1>3 DEF TenancyInv, ReadsWereTrue
<1>9. PaidDaysAreServed'
  <2> SUFFICES ASSUME NEW s \in Shops, Exists(s)'
               PROVE  shop'[s].until \in DaysGiven(s)'..(day' + DaysGiven(s)')
    BY DEF PaidDaysAreServed
  <2>1. CASE s = t
    <3> DEFINE paid == BillDays * Cardinality({b \in Bills : bill[b].status = "PAID" /\ bill[b].of = t})
    <3>1. DaysGiven(t) = TrialDays + adjusted[t] + paid
      BY DEF DaysGiven
    <3>2. DaysGiven(t)' = TrialDays + (adjusted[t] + AdjustDays) + paid
      BY <1>3, <1>5 DEF DaysGiven
    <3>3. paid \in Nat
      <4>1. Cardinality({b \in Bills : bill[b].status = "PAID" /\ bill[b].of = t}) \in Nat
        BY FS_Subset, FS_CardinalityType
      <4>2. \A k, n \in Nat : k * n \in Nat
        OBVIOUS
      <4> QED
        BY <4>1, <4>2
    <3> HIDE DEF paid
    <3>4. DaysGiven(t)' = DaysGiven(t) + AdjustDays /\ DaysGiven(t) \in Nat
      BY <1>5, <3>1, <3>2, <3>3
    <3>5. shop[t].until \in DaysGiven(t)..(day + DaysGiven(t))
      BY <1>3 DEF TenancyInv, PaidDaysAreServed, Exists
    <3>6. shop'[t].until = until
      BY <1>4, <1>5
    <3> QED
      BY <1>1, <1>2, <1>3, <2>1, <3>4, <3>5, <3>6
  <2>2. CASE s # t
    <3>1. shop'[s] = shop[s] /\ adjusted'[s] = adjusted[s] /\ Exists(s)
      BY <1>5, <2>2 DEF Exists
    <3>2. DaysGiven(s)' = DaysGiven(s)
      BY <1>3, <3>1 DEF DaysGiven
    <3> QED
      BY <1>3, <3>1, <3>2 DEF TenancyInv, PaidDaysAreServed
  <2> QED
    BY <2>1, <2>2
<1> QED
  BY <1>6, <1>7, <1>8, <1>9 DEF TenancyInv

LEMMA NextDayKeeps ==
  ASSUME TenancyInv, NextDay PROVE TenancyInv'
<1>1. TenancyKinds' /\ day <= day'
  BY DEF NextDay, TenancyInv, TenancyKinds
<1>2. BillsHaveTheirShop'
  BY DEF NextDay, TenancyInv, BillsHaveTheirShop, Exists
<1>3. ReadsWereTrue'
  <2> SUFFICES ASSUME NEW x \in Transactions
               PROVE  transaction[x].at = "WEBHOOK" => transaction[x].now <= day'
    BY DEF NextDay, TenancyInv, ReadsWereTrue
  <2>1. transaction[x].at = "WEBHOOK" => transaction[x].now \in Nat /\ transaction[x].now <= day
    BY TransactionForms DEF TenancyInv, TenancyKinds, ReadsWereTrue, WebhookTx
  <2> QED
    BY <2>1 DEF NextDay, TenancyInv, TenancyKinds
<1>4. \A t \in Shops : Exists(t)' => Exists(t) /\ shop'[t].until = shop[t].until
  BY DEF NextDay, Exists
<1>5. UNCHANGED <<adjusted, bill>>
  BY DEF NextDay
<1>6. PaidDaysAreServed'
  BY <1>1, <1>4, <1>5, UnpaidKeeps
<1> QED
  BY <1>1, <1>2, <1>3, <1>6 DEF TenancyInv

LEMMA TenancyStepInvariant == TenancyInv /\ [TenancyNext]_tenancyVars => TenancyInv'
<1> SUFFICES ASSUME TenancyInv, [TenancyNext]_tenancyVars PROVE TenancyInv'
  OBVIOUS
<1>1. ASSUME NEW t \in Shops, RegisterShop(t) \/ SetShopStatus(t) \/ AdjustPlan(t) PROVE TenancyInv'
  BY <1>1, RegisterKeeps, SetShopStatusKeeps, AdjustKeeps
<1>2. ASSUME NEW t \in Shops, NEW b \in Bills, Checkout(t, b) PROVE TenancyInv'
  BY <1>2, CheckoutKeeps
<1>3. ASSUME NEW b \in Bills, LinkCreated(b) \/ LinkRefused(b) \/ CustomerPays(b) PROVE TenancyInv'
  BY <1>3, LinkKeeps, PayKeeps
<1>4. ASSUME NEW x \in Transactions, NEW b \in Bills, WebhookReads(x, b) PROVE TenancyInv'
  BY <1>4, WebhookReadsKeeps
<1>5. ASSUME NEW x \in Transactions, NEW u \in Joiners, NEW t \in Shops, JoinReads(x, u, t) PROVE TenancyInv'
  BY <1>5, JoinReadsKeeps
<1>6. ASSUME NEW x \in Transactions, WebhookCommits(x) \/ JoinCommits(x) PROVE TenancyInv'
  BY <1>6, WebhookCommitsKeeps, JoinCommitsKeeps
<1>7. CASE ExpireAll \/ NextDay
  BY <1>7, ExpireKeeps, NextDayKeeps
<1>8. CASE UNCHANGED tenancyVars
  <2>1. TenancyKinds' /\ BillsHaveTheirShop' /\ ReadsWereTrue'
    BY <1>8 DEF tenancyVars, TenancyInv, TenancyKinds, BillsHaveTheirShop, ReadsWereTrue, Exists
  <2>2. PaidDaysAreServed'
    BY <1>8 DEF tenancyVars, TenancyInv, PaidDaysAreServed, Exists, DaysGiven
  <2> QED
    BY <2>1, <2>2 DEF TenancyInv
<1> QED
  BY <1>1, <1>2, <1>3, <1>4, <1>5, <1>6, <1>7, <1>8 DEF TenancyNext

\* Only a join that commits adds a member, and it found a seat free.
LEMMA JoinsFindASeat ==
  TenancyInv /\ [TenancyNext]_tenancyVars =>
    [\A t \in Shops :
       LET now == {u \in Joiners : memberOf[u] = t}
           next == {u \in Joiners : memberOf'[u] = t} IN
       Cardinality(next) > Cardinality(now) =>
         Cardinality(next) <= Seats[shop[t].plan]]_tenancyVars
<1> SUFFICES ASSUME TenancyInv, TenancyNext, NEW t \in Shops,
                    Cardinality({u \in Joiners : memberOf'[u] = t}) > Cardinality({u \in Joiners : memberOf[u] = t})
             PROVE  Cardinality({u \in Joiners : memberOf'[u] = t}) <= Seats[shop[t].plan]
  OBVIOUS
<1> DEFINE now == {u \in Joiners : memberOf[u] = t}
           next == {u \in Joiners : memberOf'[u] = t}
<1>1. IsFiniteSet(now) /\ Cardinality(now) \in Nat
  BY TenancyAssumption, FS_Subset, FS_CardinalityType DEF TenancyAssumption
<1>2. memberOf' # memberOf
  BY <1>1
<1>3. PICK x \in Transactions : JoinCommits(x)
  BY <1>2 DEF TenancyNext, RegisterShop, SetShopStatus, AdjustPlan, Checkout, LinkCreated, LinkRefused,
     CustomerPays, WebhookReads, JoinReads, WebhookCommits, ExpireAll, NextDay
<1>4. Serializable(x) /\ memberOf' = [memberOf EXCEPT ![transaction[x].user] = transaction[x].of]
  BY <1>2, <1>3 DEF JoinCommits
<1>5. /\ transaction[x].at = "JOIN" /\ transaction[x].user \in Joiners /\ transaction[x].of \in Shops
      /\ Cardinality(transaction[x].members) < Seats[transaction[x].shop.plan]
  BY <1>3, TransactionForms DEF JoinCommits, TenancyInv, TenancyKinds, ReadsWereTrue, JoinTx
<1>6. PICK u \in Joiners : u = transaction[x].user
  BY <1>5
<1>7. PICK s \in Shops : s = transaction[x].of
  BY <1>5
<1>8. /\ memberOf[u] = Unattached /\ shop[s] = transaction[x].shop
      /\ {v \in Joiners : memberOf[v] = s} = transaction[x].members
  BY <1>4, <1>5, <1>6, <1>7 DEF Serializable
<1>9. memberOf' = [memberOf EXCEPT ![u] = s]
  BY <1>4, <1>6, <1>7
<1>10. s = t
  <2> SUFFICES ASSUME s # t PROVE FALSE
    OBVIOUS
  <2>1. next = now
    BY <1>8, <1>9, TenancyAssumption DEF TenancyInv, TenancyKinds, TenancyAssumption
  <2> QED
    BY <1>1, <2>1
<1>11. next = now \union {u} /\ u \notin now
  BY <1>8, <1>9, <1>10, TenancyAssumption DEF TenancyInv, TenancyKinds, TenancyAssumption
<1>12. Cardinality(next) = Cardinality(now) + 1
  BY <1>1, <1>11, FS_AddElement
<1>13. Cardinality(now) < Seats[shop[t].plan]
  BY <1>5, <1>8, <1>10
<1>14. Seats[shop[t].plan] \in Nat
  BY TenancyAssumption DEF TenancyAssumption, TenancyInv, TenancyKinds, ShopRow
<1> QED
  BY <1>1, <1>12, <1>13, <1>14

\* A shop has every day it paid for, was given or tried, and no other, whatever webhooks,
\* checkouts, expiries and adjustments race (webhooks/payos/route.ts:31-133).
THEOREM PaidDaysStayServed == TenancySpec => []PaidDaysAreServed
<1>1. TenancyInv => PaidDaysAreServed
  BY DEF TenancyInv
<1> QED
  BY <1>1, TenancyInitInvariant, TenancyStepInvariant, PTL DEF TenancySpec

\* Nobody joins a shop that is full, for any number of people who join at once and any
\* numbers of seats (membership.ts:28-32).
THEOREM NoSeatIsTakenTwice == TenancySpec => SeatsAreRespected
<1> QED
  BY TenancyInitInvariant, TenancyStepInvariant, JoinsFindASeat, PTL DEF TenancySpec, SeatsAreRespected

-----------------------------------------------------------------------------
(* AdminAccess, for every number of concurrent requests and all times.     *)

AskingCheck ==
  [at : {"CACHE", "ASK", "IN"}, since : 0..MaxAccessClock,
   unasked : SUBSET {"SESSION", "ACCOUNT"}, session : BOOLEAN, account : BOOLEAN]

AccessKinds == AccessTypeOK /\ cached.valid \in BOOLEAN /\ cached.until \in Nat

\* What is good at Clerk is so now.
ClerkIsRemembered ==
  /\ SessionIsGood(accessClock) => lastActive = accessClock
  /\ ~barredAtClerk => lastAllowed = accessClock
  /\ lastActive <= accessClock /\ lastAllowed <= accessClock

\* No request lasts longer than it may, and what it was told was so since it began.
ChecksAreOfTheirTime ==
  \A c \in Checks : check[c] # NotAsked =>
    /\ check[c].since <= accessClock /\ accessClock <= check[c].since + CallTime
    /\ check[c].session = TRUE => check[c].since <= lastActive
    /\ check[c].account = TRUE => check[c].since <= lastAllowed

\* A good answer that is kept was true a request and its life before it expires.
CacheIsOfItsTime ==
  cached.valid = TRUE =>
    /\ cached.until <= lastActive + CallTime + CacheTime
    /\ cached.until <= lastAllowed + CallTime + CacheTime

AccessInv == AccessKinds /\ ClerkIsRemembered /\ ChecksAreOfTheirTime /\ CacheIsOfItsTime

-----------------------------------------------------------------------------
LEMMA AskingIsNotIdle == \A k \in AskingCheck : k # NotAsked
BY DEF AskingCheck, NotAsked

LEMMA AccessTimes ==
  /\ SessionTime \in Nat \ {0} /\ CacheTime \in Nat \ {0}
  /\ CallTime \in Nat \ {0} /\ MaxAccessClock \in Nat \ {0}
BY AccessAssumption DEF AccessAssumption

LEMMA CheckFacts ==
  ASSUME AccessInv, NEW c \in Checks, check[c] # NotAsked
  PROVE  /\ check[c] \in AskingCheck /\ check[c].since \in Nat
         /\ check[c].since <= accessClock /\ accessClock <= check[c].since + CallTime
         /\ check[c].session = TRUE => check[c].since <= lastActive
         /\ check[c].account = TRUE => check[c].since <= lastAllowed
BY AccessAssumption DEF AccessInv, AccessKinds, AccessTypeOK, AskingCheck, ChecksAreOfTheirTime, AccessAssumption

LEMMA AccessClocks ==
  ASSUME AccessInv
  PROVE  /\ accessClock \in Nat /\ lastActive \in Nat /\ lastAllowed \in Nat
         /\ cached.until \in Nat
         /\ CallTime \in Nat /\ CacheTime \in Nat \ {0} /\ SessionTime \in Nat /\ MaxAccessClock \in Nat
BY AccessAssumption DEF AccessInv, AccessKinds, AccessTypeOK, AccessAssumption

LEMMA AccessInitInvariant == AccessInit => AccessInv
<1> SUFFICES ASSUME AccessInit PROVE AccessInv
  OBVIOUS
<1>1. AccessKinds
  <2>1. accessClock = 0 /\ lastActive = 0 /\ lastAllowed = 0 /\ 0 \in 0..MaxAccessClock
    BY AccessTimes DEF AccessInit
  <2>2. {hasRole, barredAtClerk, cached.valid} \subseteq BOOLEAN /\ cached.valid \in BOOLEAN
    BY DEF AccessInit, NotCached
  <2>3. cached.until \in Nat /\ session \in {"ACTIVE", "REVOKED"}
    BY DEF AccessInit, NotCached
  <2>4. check \in [Checks -> {NotAsked} \union AskingCheck]
    BY DEF AccessInit
  <2>5. {accessClock, lastActive, lastAllowed} \subseteq 0..MaxAccessClock
    BY <2>1
  <2> QED
    BY <2>2, <2>3, <2>4, <2>5 DEF AccessKinds, AccessTypeOK, AskingCheck
<1>2. ClerkIsRemembered /\ ChecksAreOfTheirTime /\ CacheIsOfItsTime
  BY DEF AccessInit, ClerkIsRemembered, ChecksAreOfTheirTime, CacheIsOfItsTime, NotCached, NotAsked
<1> QED
  BY <1>1, <1>2 DEF AccessInv

\* Time passes, or Clerk's side changes: what was good stays so as long as it did.
LEMMA ClerkKeeps ==
  ASSUME AccessInv, AccessTypeOK', ClerkIsRemembered',
         lastActive <= lastActive', lastAllowed <= lastAllowed',
         accessClock <= accessClock',
         \A c \in Checks : check[c] # NotAsked => accessClock' <= check[c].since + CallTime,
         UNCHANGED <<cached, check>>
  PROVE  AccessInv'
<1>1. /\ lastActive' \in Nat /\ lastAllowed' \in Nat /\ accessClock' \in Nat
  BY AccessAssumption DEF AccessTypeOK, AccessAssumption
<1>2. ChecksAreOfTheirTime'
  <2> SUFFICES ASSUME NEW c \in Checks, check[c] # NotAsked
               PROVE  /\ check[c].since <= accessClock' /\ accessClock' <= check[c].since + CallTime
                      /\ check[c].session = TRUE => check[c].since <= lastActive'
                      /\ check[c].account = TRUE => check[c].since <= lastAllowed'
    BY DEF ChecksAreOfTheirTime
  <2>1. /\ check[c].since \in Nat /\ check[c].since <= accessClock
        /\ check[c].session = TRUE => check[c].since <= lastActive
        /\ check[c].account = TRUE => check[c].since <= lastAllowed
    BY CheckFacts
  <2> QED
    BY <1>1, <2>1, AccessClocks
<1>3. CacheIsOfItsTime'
  <2> SUFFICES ASSUME cached.valid = TRUE
               PROVE  /\ cached.until <= lastActive' + CallTime + CacheTime
                      /\ cached.until <= lastAllowed' + CallTime + CacheTime
    BY DEF CacheIsOfItsTime
  <2>1. /\ cached.until <= lastActive + CallTime + CacheTime
        /\ cached.until <= lastAllowed + CallTime + CacheTime
    BY DEF AccessInv, CacheIsOfItsTime
  <2> DEFINE u == cached.until
  <2>2. u \in Nat /\ u <= lastActive + CallTime + CacheTime /\ u <= lastAllowed + CallTime + CacheTime
    BY <2>1, AccessClocks
  <2> HIDE DEF u
  <2>3. u <= lastActive' + CallTime + CacheTime /\ u <= lastAllowed' + CallTime + CacheTime
    BY <1>1, <2>2, AccessClocks
  <2> QED
    BY <2>3 DEF u
<1> QED
  BY <1>2, <1>3 DEF AccessInv, AccessKinds

LEMMA AccessTickKeeps ==
  ASSUME AccessInv, AccessTick PROVE AccessInv'
<1>1. /\ accessClock' = accessClock + 1 /\ accessClock < MaxAccessClock
      /\ \A c \in Checks : check[c] # NotAsked => accessClock - check[c].since < CallTime
      /\ lastActive' = IF SessionIsGood(accessClock + 1) THEN accessClock + 1 ELSE lastActive
      /\ lastAllowed' = IF barredAtClerk THEN lastAllowed ELSE accessClock + 1
      /\ UNCHANGED <<hasRole, session, barredAtClerk, cached, check>>
  BY DEF AccessTick
<1>2. lastActive <= accessClock /\ lastAllowed <= accessClock
  BY DEF AccessInv, ClerkIsRemembered
<1>3. AccessTypeOK'
  BY <1>1, AccessClocks DEF AccessInv, AccessKinds, AccessTypeOK
<1>4. ClerkIsRemembered'
  BY <1>1, <1>2, AccessClocks DEF ClerkIsRemembered, SessionIsGood
<1>5. lastActive <= lastActive' /\ lastAllowed <= lastAllowed' /\ accessClock <= accessClock'
  BY <1>1, <1>2, AccessClocks
<1>6. ASSUME NEW c \in Checks, check[c] # NotAsked PROVE accessClock' <= check[c].since + CallTime
  <2> DEFINE since == check[c].since
  <2>1. since \in Nat /\ accessClock - since < CallTime
    BY <1>1, <1>6, CheckFacts
  <2> HIDE DEF since
  <2>2. accessClock' <= since + CallTime
    BY <1>1, <2>1, AccessClocks
  <2> QED
    BY <2>2 DEF since
<1> QED
  BY <1>1, <1>3, <1>4, <1>5, <1>6, ClerkKeeps

LEMMA AdministratorsKeep ==
  ASSUME AccessInv, RevokeSessions \/ \E b \in BOOLEAN : SetRole(b) \/ SetBarred(b)
  PROVE  AccessInv'
<1>1. UNCHANGED <<accessClock, lastActive, cached, check>> /\ lastAllowed' \in {lastAllowed, accessClock}
  BY DEF RevokeSessions, SetRole, SetBarred, clerkSays
<1>2. lastActive <= accessClock /\ lastAllowed <= accessClock
  BY DEF AccessInv, ClerkIsRemembered
<1>3. AccessTypeOK'
  BY DEF RevokeSessions, SetRole, SetBarred, clerkSays, AccessInv, AccessKinds, AccessTypeOK
<1>4. ClerkIsRemembered'
  BY <1>1, <1>2, AccessClocks
     DEF RevokeSessions, SetRole, SetBarred, clerkSays, AccessInv, ClerkIsRemembered, SessionIsGood
<1>5. lastActive <= lastActive' /\ lastAllowed <= lastAllowed' /\ accessClock <= accessClock'
  BY <1>1, <1>2, AccessClocks
<1>6. \A c \in Checks : check[c] # NotAsked => accessClock' <= check[c].since + CallTime
  BY <1>1, CheckFacts
<1> QED
  BY <1>1, <1>3, <1>4, <1>5, <1>6, ClerkKeeps

\* One request takes a step; Clerk's side stays.
LEMMA OneCheckKeeps ==
  ASSUME AccessInv, NEW c \in Checks, NEW k \in {NotAsked} \union AskingCheck,
         check' = [check EXCEPT ![c] = k],
         k # NotAsked =>
           /\ k.since <= accessClock /\ accessClock <= k.since + CallTime
           /\ k.session = TRUE => k.since <= lastActive
           /\ k.account = TRUE => k.since <= lastAllowed,
         UNCHANGED <<accessClock, hasRole, clerkSays>>,
         cached'.valid \in BOOLEAN, cached'.until \in Nat, CacheIsOfItsTime'
  PROVE  AccessInv'
<1>1. /\ check' \in [Checks -> {NotAsked} \union AskingCheck]
      /\ check'[c] = k
      /\ \A d \in Checks : d # c => check'[d] = check[d]
  BY DEF AccessInv, AccessKinds, AccessTypeOK, AskingCheck
<1>2. AccessKinds'
  BY <1>1 DEF AccessInv, AccessKinds, AccessTypeOK, AskingCheck, clerkSays
<1>3. ClerkIsRemembered'
  BY DEF AccessInv, ClerkIsRemembered, clerkSays, SessionIsGood
<1>4. ASSUME NEW d \in Checks, check'[d] # NotAsked
      PROVE  /\ check'[d].since <= accessClock' /\ accessClock' <= check'[d].since + CallTime
             /\ check'[d].session = TRUE => check'[d].since <= lastActive'
             /\ check'[d].account = TRUE => check'[d].since <= lastAllowed'
  <2>1. CASE d = c
    BY <1>1, <1>4, <2>1 DEF clerkSays
  <2>2. CASE d # c
    BY <1>1, <1>4, <2>2 DEF clerkSays, AccessInv, ChecksAreOfTheirTime
  <2> QED
    BY <2>1, <2>2
<1>5. ChecksAreOfTheirTime'
  BY <1>4 DEF ChecksAreOfTheirTime
<1> QED
  BY <1>2, <1>3, <1>5 DEF AccessInv

\* The same, without a word to the cache.
LEMMA CacheUnread ==
  ASSUME AccessInv, UNCHANGED <<cached, clerkSays>>
  PROVE  cached'.valid \in BOOLEAN /\ cached'.until \in Nat /\ CacheIsOfItsTime'
BY DEF AccessInv, AccessKinds, CacheIsOfItsTime, clerkSays

LEMMA BeginCheckKeeps ==
  ASSUME AccessInv, NEW c \in Checks, BeginCheck(c) PROVE AccessInv'
<1> DEFINE k == [at |-> "CACHE", since |-> accessClock, unasked |-> {"SESSION", "ACCOUNT"},
                 session |-> FALSE, account |-> FALSE]
<1>1. k \in AskingCheck /\ k.since = accessClock /\ k.session = FALSE /\ k.account = FALSE
  BY DEF AskingCheck, AccessInv, AccessKinds, AccessTypeOK
<1>2. check' = [check EXCEPT ![c] = k] /\ UNCHANGED <<accessClock, hasRole, clerkSays, cached>>
  BY DEF BeginCheck
<1> HIDE DEF k
<1> QED
  <2>1. k.since <= accessClock /\ accessClock <= k.since + CallTime
    BY <1>1, AccessClocks
  <2>2. UNCHANGED <<cached, clerkSays>> /\ UNCHANGED <<accessClock, hasRole, clerkSays>>
    BY <1>2
  <2>3. cached'.valid \in BOOLEAN /\ cached'.until \in Nat /\ CacheIsOfItsTime'
    BY <2>2, CacheUnread
  <2>4. /\ k.session = TRUE => k.since <= lastActive
        /\ k.account = TRUE => k.since <= lastAllowed
    BY <1>1
  <2> QED
    BY <1>1, <1>2, <2>1, <2>2, <2>3, <2>4, OneCheckKeeps

\* A request goes on, or is done, as it was.
LEMMA GoesOnKeeps ==
  ASSUME AccessInv, NEW c \in Checks, check[c] # NotAsked,
         Leaves(c) \/ \E at \in {"ASK", "IN"} : Reaches(c, at),
         UNCHANGED <<accessClock, hasRole, clerkSays>>,
         cached'.valid \in BOOLEAN, cached'.until \in Nat, CacheIsOfItsTime'
  PROVE  AccessInv'
<1>1. CASE Leaves(c)
  BY <1>1, OneCheckKeeps DEF Leaves
<1>2. ASSUME NEW at \in {"ASK", "IN"}, Reaches(c, at) PROVE AccessInv'
  <2> DEFINE k == [check[c] EXCEPT !.at = at]
  <2>1. check[c] \in AskingCheck
    BY CheckFacts
  <2>2. k \in AskingCheck /\ k.since = check[c].since /\ k.session = check[c].session /\ k.account = check[c].account
    BY <2>1 DEF AskingCheck
  <2>3. check' = [check EXCEPT ![c] = k]
    BY <1>2 DEF Reaches
  <2> HIDE DEF k
  <2> QED
    BY <2>2, <2>3, CheckFacts, OneCheckKeeps
<1> QED
  BY <1>1, <1>2

LEMMA ReadCacheKeeps ==
  ASSUME AccessInv, NEW c \in Checks, ReadCache(c) \/ CheckEnds(c) PROVE AccessInv'
<1>1. check[c] # NotAsked
  BY DEF ReadCache, CheckEnds, NotAsked
<1>2. Leaves(c) \/ \E at \in {"ASK", "IN"} : Reaches(c, at)
  BY DEF ReadCache, CheckEnds
<1>3. UNCHANGED <<accessClock, hasRole, clerkSays, cached>>
  BY DEF ReadCache, CheckEnds
<1> QED
  BY <1>1, <1>2, <1>3, GoesOnKeeps, CacheUnread

LEMMA AskKeeps ==
  ASSUME AccessInv, NEW c \in Checks, AskSession(c) \/ AskAccount(c) PROVE AccessInv'
<1>1. check[c] # NotAsked
  BY DEF AskSession, AskAccount, NotAsked
<1>2. check[c] \in AskingCheck /\ UNCHANGED <<accessClock, hasRole, clerkSays, cached>>
  BY <1>1, CheckFacts DEF AskSession, AskAccount
<1>3. CASE AskSession(c)
  <2> DEFINE good == SessionIsGood(accessClock)
             k == [check[c] EXCEPT !.unasked = check[c].unasked \ {"SESSION"}, !.session = good]
  <2>1. good \in BOOLEAN
    BY DEF SessionIsGood
  <2>2. good = TRUE => lastActive = accessClock
    BY DEF AccessInv, ClerkIsRemembered
  <2> HIDE DEF good
  <2>3. k \in AskingCheck /\ k.since = check[c].since /\ k.session = good /\ k.account = check[c].account
    BY <1>2, <2>1 DEF AskingCheck
  <2>4. check' = [check EXCEPT ![c] = k]
    BY <1>2, <1>3 DEF AskSession, AskingCheck, good
  <2> HIDE DEF k
  <2>5. k.session = TRUE => k.since <= lastActive
    BY <1>1, <2>2, <2>3, CheckFacts
  <2> QED
    BY <1>1, <1>2, <2>3, <2>4, <2>5, CheckFacts, OneCheckKeeps, CacheUnread
<1>4. CASE AskAccount(c)
  <2> DEFINE good == ~barredAtClerk
             k == [check[c] EXCEPT !.unasked = check[c].unasked \ {"ACCOUNT"}, !.account = good]
  <2>1. good \in BOOLEAN
    OBVIOUS
  <2>2. good = TRUE => lastAllowed = accessClock
    BY DEF AccessInv, ClerkIsRemembered
  <2> HIDE DEF good
  <2>3. k \in AskingCheck /\ k.since = check[c].since /\ k.account = good /\ k.session = check[c].session
    BY <1>2, <2>1 DEF AskingCheck
  <2>4. check' = [check EXCEPT ![c] = k]
    BY <1>2, <1>4 DEF AskAccount, AskingCheck, good
  <2> HIDE DEF k
  <2>5. k.account = TRUE => k.since <= lastAllowed
    BY <1>1, <2>2, <2>3, CheckFacts
  <2> QED
    BY <1>1, <1>2, <2>3, <2>4, <2>5, CheckFacts, OneCheckKeeps, CacheUnread
<1> QED
  BY <1>3, <1>4

LEMMA WriteCacheKeeps ==
  ASSUME AccessInv, NEW c \in Checks, WriteCache(c) PROVE AccessInv'
<1> DEFINE valid == check[c].session /\ check[c].account
<1>1. check[c] # NotAsked
  BY DEF WriteCache, NotAsked
<1>2. check[c].session \in BOOLEAN /\ check[c].account \in BOOLEAN
  BY <1>1, CheckFacts DEF AskingCheck
<1>3. valid \in BOOLEAN /\ (valid = TRUE => check[c].session = TRUE /\ check[c].account = TRUE)
  BY <1>2
<1>4. cached' = [valid |-> valid, until |-> accessClock + CacheTime]
      /\ UNCHANGED <<accessClock, hasRole, clerkSays>>
  BY DEF WriteCache, Cached
<1>5. Leaves(c) \/ \E at \in {"ASK", "IN"} : Reaches(c, at)
  BY DEF WriteCache
<1> HIDE DEF valid
<1>6. cached'.valid = valid /\ cached'.until = accessClock + CacheTime
  BY <1>4
<1>7. cached'.valid \in BOOLEAN /\ cached'.until \in Nat
  BY <1>3, <1>6, AccessClocks
<1>8. valid = TRUE =>
        /\ accessClock + CacheTime <= lastActive + CallTime + CacheTime
        /\ accessClock + CacheTime <= lastAllowed + CallTime + CacheTime
  <2> DEFINE since == check[c].since
  <2> SUFFICES ASSUME valid = TRUE
               PROVE  /\ accessClock + CacheTime <= lastActive + CallTime + CacheTime
                      /\ accessClock + CacheTime <= lastAllowed + CallTime + CacheTime
    OBVIOUS
  <2>1. since \in Nat /\ accessClock <= since + CallTime /\ since <= lastActive /\ since <= lastAllowed
    BY <1>1, <1>3, CheckFacts
  <2> HIDE DEF since
  <2> QED
    BY <2>1, AccessClocks
<1>9. CacheIsOfItsTime'
  BY <1>4, <1>6, <1>8 DEF CacheIsOfItsTime, clerkSays
<1> QED
  BY <1>1, <1>4, <1>5, <1>7, <1>9, GoesOnKeeps

LEMMA AccessStepInvariant == AccessInv /\ [AccessNext]_accessVars => AccessInv'
<1> SUFFICES ASSUME AccessInv, [AccessNext]_accessVars PROVE AccessInv'
  OBVIOUS
<1>1. CASE AccessTick
  BY <1>1, AccessTickKeeps
<1>2. CASE RevokeSessions \/ \E b \in BOOLEAN : SetRole(b) \/ SetBarred(b)
  BY <1>2, AdministratorsKeep
<1>3. ASSUME NEW c \in Checks,
             BeginCheck(c) \/ ReadCache(c) \/ AskSession(c) \/ AskAccount(c) \/ WriteCache(c) \/ CheckEnds(c)
      PROVE  AccessInv'
  BY <1>3, BeginCheckKeeps, ReadCacheKeeps, AskKeeps, WriteCacheKeeps
<1>4. CASE UNCHANGED accessVars
  BY <1>4 DEF accessVars, AccessInv, AccessKinds, AccessTypeOK, ClerkIsRemembered, ChecksAreOfTheirTime,
     CacheIsOfItsTime, SessionIsGood
<1> QED
  BY <1>1, <1>2, <1>3, <1>4 DEF AccessNext

\* Whoever is admitted was told so by Clerk or by a cache that has not expired.
LEMMA AdmissionIsRecent ==
  AccessInv /\ [AccessNext]_accessVars =>
    [\A c \in Checks :
       check[c].at # "IN" /\ check'[c].at = "IN" =>
         /\ accessClock - lastActive < CacheTime + CallTime
         /\ accessClock - lastAllowed < CacheTime + CallTime]_accessVars
<1> SUFFICES ASSUME AccessInv, AccessNext, NEW c \in Checks, check[c].at # "IN", check'[c].at = "IN"
             PROVE  /\ accessClock - lastActive < CacheTime + CallTime
                    /\ accessClock - lastAllowed < CacheTime + CallTime
  OBVIOUS
<1>1. check \in [Checks -> {NotAsked} \union AskingCheck]
  BY DEF AccessInv, AccessKinds, AccessTypeOK, AskingCheck
<1>2. ASSUME NEW d \in Checks, d # c, NEW k, check' = [check EXCEPT ![d] = k] PROVE FALSE
  BY <1>1, <1>2
<1>3. ASSUME NEW d \in Checks, check[d] \in AskingCheck, check' = [check EXCEPT ![d].at = "ASK"]
      PROVE  FALSE
  BY <1>1, <1>3 DEF AskingCheck
<1>4. ASSUME NEW d \in Checks, Leaves(d) PROVE FALSE
  BY <1>1, <1>4 DEF Leaves, NotAsked
<1>5. PICK d \in Checks : ReadCache(d) \/ WriteCache(d)
  <2>1. ~AccessTick /\ ~RevokeSessions /\ \A b \in BOOLEAN : ~SetRole(b) /\ ~SetBarred(b)
    BY DEF AccessTick, RevokeSessions, SetRole, SetBarred
  <2>2. ASSUME NEW d \in Checks, BeginCheck(d) PROVE FALSE
    BY <1>1, <2>2 DEF BeginCheck
  <2>3. ASSUME NEW d \in Checks, AskSession(d) \/ AskAccount(d) PROVE FALSE
    <3>1. check[d] \in AskingCheck
      BY <1>1, <2>3 DEF AskSession, AskAccount, NotAsked
    <3>2. check'[d].at = check[d].at /\ \A e \in Checks : e # d => check'[e] = check[e]
      BY <1>1, <2>3, <3>1 DEF AskSession, AskAccount, AskingCheck
    <3> QED
      BY <3>2
  <2>4. ASSUME NEW d \in Checks, CheckEnds(d) PROVE FALSE
    BY <1>4, <2>4 DEF CheckEnds
  <2> QED
    BY <2>1, <2>2, <2>3, <2>4 DEF AccessNext
<1>6. CASE ReadCache(d)
  <2>1. ~Leaves(d)
    BY <1>4
  <2>2. check[d] \in AskingCheck
    BY <1>1, <1>6 DEF ReadCache, NotAsked
  <2>3. ~Reaches(d, "ASK")
    BY <1>3, <2>2 DEF Reaches
  <2>4. Unexpired /\ cached.valid = TRUE
    BY <1>6, <2>1, <2>3 DEF ReadCache, AccessInv, AccessKinds
  <2> DEFINE u == cached.until
  <2>5. /\ u \in Nat /\ accessClock < u
        /\ u <= lastActive + CallTime + CacheTime /\ u <= lastAllowed + CallTime + CacheTime
    BY <2>4, AccessClocks DEF Unexpired, AccessInv, CacheIsOfItsTime
  <2> HIDE DEF u
  <2> QED
    BY <2>5, AccessClocks
<1>7. CASE WriteCache(d)
  <2>1. check[d] # NotAsked /\ check[d].session = TRUE /\ check[d].account = TRUE
    <3>1. check[d] \in AskingCheck
      BY <1>1, <1>7 DEF WriteCache, NotAsked
    <3>2. check[d].session /\ check[d].account
      BY <1>4, <1>7 DEF WriteCache
    <3> QED
      BY <3>1, <3>2, AskingIsNotIdle DEF AskingCheck
  <2> DEFINE since == check[d].since
  <2>2. since \in Nat /\ accessClock <= since + CallTime /\ since <= lastActive /\ since <= lastAllowed
    BY <2>1, CheckFacts
  <2> HIDE DEF since
  <2> QED
    BY <2>2, AccessClocks
<1> QED
  BY <1>5, <1>6, <1>7

\* Whoever is admitted as an administrator had an active session and was not barred less
\* than a request and the life of a cached answer ago (authz.ts:38-57).
THEOREM AdmissionStaysCurrent == AccessSpec => AdmissionIsCurrent
<1> QED
  BY AccessInitInvariant, AccessStepInvariant, AdmissionIsRecent, PTL DEF AccessSpec, AdmissionIsCurrent

-----------------------------------------------------------------------------
(* FinancialActors, for every set of people and tenants.                   *)

\* A job's context is the system's, and whoever was found valid has had, since
\* then, the role the page had found.
ContextsAreHeld ==
  /\ actorCall.at \in {"RESOLVED", "VALID"} /\ actorCall.by = Worker => actorCall.role = "SYSTEM_WORKER"
  /\ actorCall.at = "VALID" => actorCall.role \in held

CallOfActor ==
  [at : {"LET_IN", "RESOLVED", "VALID", "ACTED"}, by : Persons \union {Worker},
   target : Tenants, kind : Kinds, own : BOOLEAN,
   role : {"NONE", "OWNER", "TENANT_MASTER", "TENANT_USER", "SYSTEM_WORKER"}]

CallHasItsType == actorCall = NotCalled \/ actorCall \in CallOfActor

HeldInv == CallHasItsType /\ ContextsAreHeld

-----------------------------------------------------------------------------
LEMMA CallForms ==
  /\ NotCalled.at = "NOT_CALLED" /\ NotCalled \notin CallOfActor
  /\ CallHasItsType /\ actorCall.at # "NOT_CALLED" => actorCall \in CallOfActor
BY DEF NotCalled, CallOfActor, CallHasItsType

LEMMA RolesAreRoles ==
  ASSUME NEW u, NEW t
  PROVE  RoleNow(u, t) \in {"NONE", "OWNER", "TENANT_MASTER", "TENANT_USER"}
BY DEF RoleNow, RoleAt

LEMMA HeldInitInvariant == ActorsInit => HeldInv
BY DEF ActorsInit, HeldInv, CallHasItsType, ContextsAreHeld, NotCalled

\* The rows of people change: a caller who is valid keeps what was held.
LEMMA PeopleKeepHeld ==
  ASSUME HeldInv, UNCHANGED actorCall, held \subseteq held'
  PROVE  HeldInv'
BY DEF HeldInv, CallHasItsType, ContextsAreHeld

LEMMA HeldStepInvariant == HeldInv /\ [ActorsNext]_actorsVars => HeldInv'
<1> SUFFICES ASSUME HeldInv, [ActorsNext]_actorsVars PROVE HeldInv'
  OBVIOUS
<1>1. ASSUME NEW u \in Persons,
             \/ \E t \in Tenants : Joins(u, t)
             \/ \E s \in ShopTenants : IsGivenShop(u, s)
             \/ \E role \in GlobalRoles : RoleAssigned(u, role) \/ RoleTaken(u, role)
             \/ AdminsCounted(u)
      PROVE  HeldInv'
  <2>1. UNCHANGED actorCall /\ held \subseteq held'
    BY <1>1 DEF Joins, IsGivenShop, RoleAssigned, RoleTaken, AdminsCounted, PersonBecomes
  <2> QED
    BY <2>1, PeopleKeepHeld
<1>2. ASSUME NEW open \in BOOLEAN, MasterOpens(open) PROVE HeldInv'
  BY <1>2, PeopleKeepHeld DEF MasterOpens
<1>3. ASSUME NEW u \in Persons, NEW door \in Doors, NEW t \in Tenants, NEW kind \in Kinds, NEW own \in BOOLEAN,
             PageLetsIn(door, u, t, kind, own)
      PROVE  HeldInv'
  BY <1>3 DEF PageLetsIn, HeldInv, CallHasItsType, ContextsAreHeld, CallOfActor
<1>4. ASSUME NEW t \in Tenants, JobCalls(t) PROVE HeldInv'
  BY <1>4 DEF JobCalls, HeldInv, CallHasItsType, ContextsAreHeld, CallOfActor, Kinds
<1>5. CASE ContextResolved
  <2>1. actorCall \in CallOfActor
    BY <1>5, CallForms DEF ContextResolved, HeldInv
  <2>2. actorCall' = NotCalled
        \/ \E role \in {"OWNER", "TENANT_MASTER", "TENANT_USER", "SYSTEM_WORKER"} :
             /\ actorCall' = [actorCall EXCEPT !.at = "RESOLVED", !.role = role]
             /\ actorCall.by = Worker => role = "SYSTEM_WORKER"
    BY <1>5, RolesAreRoles DEF ContextResolved
  <2>3. CASE actorCall' = NotCalled
    BY <2>3 DEF HeldInv, CallHasItsType, ContextsAreHeld, NotCalled
  <2>4. ASSUME NEW role \in {"OWNER", "TENANT_MASTER", "TENANT_USER", "SYSTEM_WORKER"},
               actorCall' = [actorCall EXCEPT !.at = "RESOLVED", !.role = role],
               actorCall.by = Worker => role = "SYSTEM_WORKER"
        PROVE  HeldInv'
    <3>1. /\ actorCall' \in CallOfActor /\ actorCall'.at = "RESOLVED"
          /\ actorCall'.by = actorCall.by /\ actorCall'.role = role
      BY <2>1, <2>4 DEF CallOfActor
    <3> QED
      BY <2>4, <3>1 DEF HeldInv, CallHasItsType, ContextsAreHeld
  <2> QED
    BY <2>2, <2>3, <2>4
<1>6. CASE ContextRevalidated
  <2>1. actorCall \in CallOfActor /\ actorCall.at = "RESOLVED"
    BY <1>6, CallForms DEF ContextRevalidated, HeldInv
  <2>2. CASE ~StillHeld(actorCall)
    BY <1>6, <2>2 DEF ContextRevalidated, HeldInv, CallHasItsType, ContextsAreHeld, NotCalled
  <2>3. CASE StillHeld(actorCall)
    <3>1. actorCall' = [actorCall EXCEPT !.at = "VALID"]
      BY <1>6, <2>3 DEF ContextRevalidated
    <3>2. actorCall' \in CallOfActor /\ actorCall'.by = actorCall.by /\ actorCall'.role = actorCall.role
      BY <2>1, <3>1 DEF CallOfActor
    <3>3. actorCall.role \in held'
      BY <1>6, <2>1, <2>3 DEF ContextRevalidated, StillHeld, HeldInv, ContextsAreHeld
    <3> QED
      BY <2>1, <3>2, <3>3 DEF HeldInv, CallHasItsType, ContextsAreHeld
  <2> QED
    BY <2>2, <2>3
<1>7. CASE OperationActs
  <2>1. actorCall \in CallOfActor
    BY <1>7, CallForms DEF OperationActs, HeldInv
  <2> QED
    BY <1>7, <2>1 DEF OperationActs, HeldInv, CallHasItsType, ContextsAreHeld, CallOfActor
<1>8. CASE OperationEnds
  BY <1>8 DEF OperationEnds, HeldInv, CallHasItsType, ContextsAreHeld, NotCalled
<1>9. CASE UNCHANGED actorsVars
  BY <1>9 DEF actorsVars, HeldInv, CallHasItsType, ContextsAreHeld
<1> QED
  BY <1>1, <1>2, <1>3, <1>4, <1>5, <1>6, <1>7, <1>8, <1>9 DEF ActorsNext

\* Only an operation acts, and what it asks for is permitted to a role that was held.
LEMMA ActsAsHeld ==
  HeldInv /\ [ActorsNext]_actorsVars =>
    [actorCall.at = "VALID" /\ actorCall'.at = "ACTED" =>
       \E role \in held : Permitted(actorCall.kind, role, actorCall.own)]_actorsVars
<1> SUFFICES ASSUME HeldInv, ActorsNext, actorCall.at = "VALID", actorCall'.at = "ACTED"
             PROVE  \E role \in held : Permitted(actorCall.kind, role, actorCall.own)
  OBVIOUS
<1>1. OperationActs
  <2>1. actorCall' # actorCall /\ actorCall' # NotCalled
    BY DEF NotCalled
  <2>2. ~ContextResolved /\ ~ContextRevalidated /\ ~OperationEnds
    BY <2>1 DEF ContextResolved, ContextRevalidated, OperationEnds
  <2> QED
    BY <2>1, <2>2 DEF ActorsNext, Joins, IsGivenShop, RoleAssigned, RoleTaken, AdminsCounted, PersonBecomes,
       MasterOpens, PageLetsIn, JobCalls
<1> QED
  BY <1>1 DEF OperationActs, HeldInv, ContextsAreHeld

\* Whoever acts on a payout had a role that allows it at some moment since the operation
\* began (persona.ts:168-201).
THEOREM ActorsStayCurrent == ActorsSpec => ActorsAreCurrent
<1> QED
  BY HeldInitInvariant, HeldStepInvariant, ActsAsHeld, PTL DEF ActorsSpec, ActorsAreCurrent

\* Administrators' requests and the steps of payouts rest on authority that is
\* current, or was when the request began or the person was found valid.
THEOREM AuthorityStaysCurrent == AccessSpec /\ ActorsSpec => AuthorityIsCurrent
BY AdmissionStaysCurrent, ActorsStayCurrent, PTL DEF AuthorityIsCurrent

-----------------------------------------------------------------------------
(* Identity, for any people, handlers, administrators and invitations.     *)

Told == [type : {"user.created", "user.updated", "user.deleted"}, of : People,
         version : 0..MaxVersion, barred : BOOLEAN]
Account == [status : UserStatuses, identity : IdentityStatuses,
            seen : 0..(MaxVersion + 1), linked : BOOLEAN]
ClerkRow == [at : {"NONE", "ALIVE", "GONE"}, version : 0..MaxVersion, barred : BOOLEAN]
Handling == [at : {"HANDLE", "SYNC_ERROR", "RELEASE"}, event : Told]
Entering == [at : {"TOLD"}, version : 0..MaxVersion, barred : BOOLEAN]
StatusCall == [at : {"STATUS", "BAN"}, of : People, status : NewStatuses, linked : BOOLEAN]
InviteCall == [at : {"INVITE"}, of : People] \cup [at : {"SEND"}, invitation : InviteIds]

IdentityKinds ==
  /\ IdentityTypeOK
  /\ handler \in [Handlers -> {Idle} \cup Handling]
  /\ signIn \in [People -> {Idle} \cup Entering]
  /\ desk \in [Admins -> {Idle} \cup StatusCall \cup InviteCall]

\* An account that has to be barred at Clerk; and one that is, or is going to be, or
\* to be made active again.
NeedsBar(p) == account[p].linked /\ account[p].status \in Blocked /\ account[p].identity = "BANNED"
BarIsOnTheWay(p) ==
  \/ clerkUser[p].barred \/ clerkUser[p].at = "GONE"
  \/ \E a \in Admins :
       /\ desk[a].at \in {"STATUS", "BAN"} /\ desk[a].of = p
       /\ desk[a].at = "BAN" \/ desk[a].status = "ACTIVE"

BarsAreOnTheWay ==
  /\ \A p \in People : clerkUser[p].at = "NONE" => ~clerkUser[p].barred
  /\ \A p \in People \ cutShort : NeedsBar(p) => BarIsOnTheWay(p)

IdentityInv == IdentityKinds /\ BarsAreOnTheWay

-----------------------------------------------------------------------------
\* The step of a record tells its kind.
LEMMA IdentityForms ==
  ASSUME IdentityKinds
  PROVE  /\ \A h \in Handlers : handler[h].at # "IDLE" => handler[h] \in Handling
         /\ \A p \in People : signIn[p].at = "TOLD" => signIn[p] \in Entering
         /\ \A a \in Admins : desk[a].at \in {"STATUS", "BAN"} => desk[a] \in StatusCall
         /\ \A a \in Admins : desk[a].at = "INVITE" => desk[a].of \in People
         /\ \A p \in People : account[p] \in Account /\ clerkUser[p] \in ClerkRow
BY DEF IdentityKinds, IdentityTypeOK, Handling, Entering, StatusCall, InviteCall, Idle, Account, ClerkRow

\* Nobody is known at first.
LEMMA IdentityInitInvariant == IdentityInit => IdentityInv
BY IdentityAssumption
DEF IdentityInit, IdentityInv, IdentityKinds, IdentityTypeOK, BarsAreOnTheWay, NeedsBar, Stranger, Idle,
    UserStatuses, IdentityStatuses, Blocked

\* What reconcileClerkUser does to the row it is about, and that it leaves others alone.
LEMMA ReconcileFacts ==
  ASSUME IdentityKinds, NEW p \in People, NEW f, f.version \in 0..MaxVersion,
         Reconcile(p, f) \/ UNCHANGED <<account, invite>>
  PROVE  /\ account' \in [People -> Account]
         /\ \A q \in People : q # p => account'[q] = account[q]
         /\ \/ account'[p] = account[p]
            \/ /\ account'[p] = [status |-> "ACTIVE", identity |-> "ACTIVE",
                                 seen |-> f.version, linked |-> TRUE]
               /\ ~StaleProfile(account[p], f)
               /\ account[p].status \notin Blocked
               /\ PublicEntry \/ account[p].linked \/ Invited(p)
<1>1. account \in [People -> Account]
  BY DEF IdentityKinds, IdentityTypeOK, Account
<1>2. CASE UNCHANGED <<account, invite>> \/ (Reconcile(p, f) /\ StaleProfile(account[p], f))
  <2>1. account' = account
    BY <1>2 DEF Reconcile
  <2> QED
    BY <1>1, <2>1
<1>3. CASE Reconcile(p, f) /\ ~StaleProfile(account[p], f)
  <2> DEFINE row == [status |-> "ACTIVE", identity |-> "ACTIVE", seen |-> f.version, linked |-> TRUE]
  <2>1. account' = [account EXCEPT ![p] = row]
    BY <1>3 DEF Reconcile
  <2>2. account[p].status \notin Blocked /\ MayLink(p)
    BY <1>3 DEF Reconcile, Refused
  <2>3. f.version \in 0..(MaxVersion + 1)
    BY IdentityAssumption DEF IdentityAssumption
  <2>4. row \in Account
    BY <2>3 DEF Account, UserStatuses, IdentityStatuses
  <2> HIDE DEF row
  <2>5. account' \in [People -> Account] /\ account'[p] = row /\ \A q \in People : q # p => account'[q] = account[q]
    BY <1>1, <2>1, <2>4
  <2> QED
    BY <1>3, <2>2, <2>5 DEF row, MayLink
<1> QED
  BY <1>2, <1>3

\* What a person does at Clerk, or an administrator's unban or ban, keeps Clerk's rows
\* and events of their kinds.
LEMMA TellsKeeps ==
  ASSUME IdentityKinds, NEW p \in People, NEW type \in {"user.created", "user.updated", "user.deleted"},
         NEW user \in ClerkRow, ClerkTells(type, p, user)
  PROVE  /\ clerkUser' \in [People -> ClerkRow] /\ clerkEvents' \subseteq Told
         /\ clerkEvents \subseteq clerkEvents'
         /\ clerkUser'[p] = user /\ \A q \in People : q # p => clerkUser'[q] = clerkUser[q]
<1>1. ClerkEvent(type, p, user) \in Told
  BY DEF ClerkEvent, Told, ClerkRow
<1> QED
  BY <1>1 DEF ClerkTells, IdentityKinds, IdentityTypeOK, Told, ClerkRow

\* A newer version of a user that is alive is a user.
LEMMA NewerIsUser ==
  ASSUME IdentityKinds, NEW p \in People, ClerkHas(p)
  PROVE  /\ Newer(p) \in ClerkRow
         /\ [Newer(p) EXCEPT !.barred = FALSE] \in ClerkRow /\ [Newer(p) EXCEPT !.barred = TRUE] \in ClerkRow
         /\ Newer(p).at = "ALIVE" /\ Newer(p).barred = clerkUser[p].barred
         /\ [Newer(p) EXCEPT !.barred = TRUE].barred
         /\ [Newer(p) EXCEPT !.barred = TRUE].at = "ALIVE" /\ [Newer(p) EXCEPT !.barred = FALSE].at = "ALIVE"
<1> DEFINE row == clerkUser[p]
<1>1. row \in ClerkRow /\ row.at = "ALIVE" /\ row.version < MaxVersion
  BY IdentityForms DEF ClerkHas
<1>2. Newer(p) = [row EXCEPT !.version = row.version + 1]
  BY DEF Newer
<1> HIDE DEF row
<1>3. row.version + 1 \in 0..MaxVersion
  BY <1>1, IdentityAssumption DEF ClerkRow, IdentityAssumption
<1>4. PICK n \in 0..MaxVersion : Newer(p) = [row EXCEPT !.version = n]
  BY <1>2, <1>3, Zenon
<1>5. Newer(p) \in ClerkRow /\ Newer(p).at = "ALIVE" /\ Newer(p).barred = row.barred
  BY <1>1, <1>4 DEF ClerkRow
<1> QED
  BY <1>5 DEF ClerkRow, row

-----------------------------------------------------------------------------
(* What a step may do to an account.                                       *)

Reconciled(p) ==
  /\ account'[p].status = "ACTIVE" /\ account'[p].linked
  /\ account[p].status \notin Blocked
  /\ PublicEntry \/ account[p].linked \/ Invited(p)
  /\ LetIn(account[p]) => account'[p].seen >= account[p].seen
Erred(p) ==
  /\ account'[p].status = account[p].status /\ account'[p].seen = account[p].seen
  /\ account'[p].linked = account[p].linked /\ account'[p].identity = "SYNC_ERROR"
Deleted(p) ==
  /\ account'[p].status = "CLOSED" /\ account'[p].linked = account[p].linked
  /\ account'[p].identity = "DELETED"
  /\ account'[p].seen >= account[p].seen
Written(p) ==
  /\ account'[p].seen = account[p].seen /\ account'[p].linked = account[p].linked
  /\ \E a \in Admins : desk[a].at = "STATUS" /\ desk[a].of = p /\ desk'[a] # desk[a]
InvitedNow(p) ==
  /\ account[p].status \notin Blocked /\ account'[p].status = "INVITED"
  /\ account'[p].seen = account[p].seen /\ account'[p].linked = account[p].linked

Moves(p) ==
  account'[p] = account[p] \/ Reconciled(p) \/ Erred(p) \/ Deleted(p) \/ Written(p) \/ InvitedNow(p)

AccountStep == account' \in [People -> Account] /\ \A p \in People : Moves(p)

\* A reconciled row moves as a row may.
LEMMA ReconcileMoves ==
  ASSUME IdentityKinds, NEW p \in People, NEW f, f.version \in 0..MaxVersion,
         Reconcile(p, f) \/ UNCHANGED <<account, invite>>
  PROVE  AccountStep
<1>1. account[p] \in Account /\ account[p].seen \in Nat
  BY IdentityForms, IdentityAssumption DEF Account, IdentityAssumption
<1>2. account' \in [People -> Account] /\ \A q \in People : q # p => account'[q] = account[q]
  BY ReconcileFacts
<1>3. CASE account'[p] = account[p]
  BY <1>2, <1>3 DEF AccountStep, Moves
<1>4. CASE /\ account'[p] = [status |-> "ACTIVE", identity |-> "ACTIVE",
                             seen |-> f.version, linked |-> TRUE]
           /\ ~StaleProfile(account[p], f)
           /\ account[p].status \notin Blocked
           /\ PublicEntry \/ account[p].linked \/ Invited(p)
  <2>1. account'[p].seen = f.version /\ account'[p].status = "ACTIVE" /\ account'[p].linked
    BY <1>4
  <2>2. LetIn(account[p]) => f.version >= account[p].seen
    BY <1>1, <1>4, IdentityAssumption DEF StaleProfile, IdentityAssumption
  <2>3. Reconciled(p)
    BY <1>4, <2>1, <2>2 DEF Reconciled
  <2> QED
    BY <1>2, <2>3 DEF AccountStep, Moves
<1> QED
  BY <1>3, <1>4, ReconcileFacts

LEMMA WebhookMoves ==
  ASSUME IdentityKinds, NEW h \in Handlers, Webhook(h)
  PROVE  AccountStep
<1>0. account \in [People -> Account]
  BY DEF IdentityKinds, IdentityTypeOK, Account
<1>1. CASE UNCHANGED account
  BY <1>0, <1>1 DEF AccountStep, Moves
<1>2. ASSUME handler[h].at # "IDLE"
      PROVE  handler[h].event.of \in People /\ handler[h].event.version \in 0..MaxVersion
  BY <1>2, IdentityForms DEF Handling, Told
<1>3. CASE HandleUser(h)
  <2>1. Reconcile(handler[h].event.of, handler[h].event) \/ UNCHANGED <<account, invite>>
    BY <1>3 DEF HandleUser
  <2> QED
    BY <1>2, <1>3, <2>1, ReconcileMoves DEF HandleUser
<1>4. CASE MarkSyncError(h)
  <2> DEFINE p == handler[h].event.of
  <2>1. p \in People
    BY <1>2, <1>4 DEF MarkSyncError
  <2>2. account' = [account EXCEPT ![p].identity = "SYNC_ERROR"] \/ account' = account
    BY <1>4 DEF MarkSyncError
  <2> HIDE DEF p
  <2> QED
    BY <1>0, <1>1, <2>1, <2>2 DEF AccountStep, Moves, Erred, Account, IdentityStatuses
<1>5. CASE HandleDeleted(h)
  <2> DEFINE p == handler[h].event.of
  <2>1. p \in People
    BY <1>2, <1>5 DEF HandleDeleted
  <2>2. \/ account' = [account EXCEPT ![p] =
                         [@ EXCEPT !.status = "CLOSED", !.identity = "DELETED", !.seen = MaxVersion + 1]]
        \/ account' = account
    BY <1>5 DEF HandleDeleted
  <2> HIDE DEF p
  <2>3. account[p].seen \in 0..(MaxVersion + 1) /\ MaxVersion + 1 \in Nat
    BY <1>0, <2>1, IdentityAssumption DEF Account, IdentityAssumption
  <2>4. CASE account' = [account EXCEPT ![p] =
                           [@ EXCEPT !.status = "CLOSED", !.identity = "DELETED", !.seen = MaxVersion + 1]]
    <3>1. account'[p].seen = MaxVersion + 1 /\ account'[p].status = "CLOSED"
            /\ account'[p].identity = "DELETED"
            /\ account'[p].linked = account[p].linked /\ \A q \in People : q # p => account'[q] = account[q]
      BY <1>0, <2>1, <2>4 DEF Account
    <3>2. account' \in [People -> Account]
      <4>1. PICK last : last = MaxVersion + 1
        OBVIOUS
      <4>2. last \in 0..(MaxVersion + 1)
        BY <2>3, <4>1
      <4>3. account' = [account EXCEPT ![p] =
                          [@ EXCEPT !.status = "CLOSED", !.identity = "DELETED", !.seen = last]]
        BY <2>4, <4>1, Zenon
      <4> QED
        BY ONLY <1>0, <2>1, <4>2, <4>3 DEF Account, IdentityStatuses, UserStatuses
    <3>3. account'[p].seen >= account[p].seen
      BY <2>3, <3>1
    <3> QED
      BY <3>1, <3>2, <3>3 DEF AccountStep, Moves, Deleted
  <2> QED
    BY <1>1, <2>2, <2>4
<1> QED
  BY <1>1, <1>3, <1>4, <1>5 DEF Webhook, ClaimEvent, ReleaseEvent, HandlerDies

LEMMA PersonMoves ==
  ASSUME IdentityKinds, NEW p \in People, Person(p)
  PROVE  AccountStep
<1>0. account \in [People -> Account]
  BY DEF IdentityKinds, IdentityTypeOK, Account
<1>1. CASE UNCHANGED account
  BY <1>0, <1>1 DEF AccountStep, Moves
<1>2. CASE EnterReconciled(p)
  <2>1. signIn[p].version \in 0..MaxVersion
    BY <1>2, IdentityForms DEF EnterReconciled, Entering
  <2>2. Reconcile(p, signIn[p]) \/ UNCHANGED <<account, invite>>
    BY <1>2 DEF EnterReconciled
  <2> QED
    BY <2>1, <2>2, ReconcileMoves
<1> QED
  BY <1>1, <1>2 DEF Person, SignUp, EditProfile, LeaveClerk, EnterUnknown

LEMMA AdministratorMoves ==
  ASSUME IdentityKinds, NEW a \in Admins, Administrator(a)
  PROVE  AccountStep
<1>0. account \in [People -> Account]
  BY DEF IdentityKinds, IdentityTypeOK, Account
<1>1. CASE UNCHANGED account
  BY <1>0, <1>1 DEF AccountStep, Moves
<1>2. CASE WriteStatus(a)
  <2>1. PICK p, status : p = desk[a].of /\ status = desk[a].status
    OBVIOUS
  <2>2. p \in People /\ status \in NewStatuses /\ desk[a] \in StatusCall
    BY <1>2, <2>1, IdentityForms DEF WriteStatus, StatusCall
  <2>3. account' = [account EXCEPT ![p] = [@ EXCEPT !.status = status, !.identity = IdentityFor(status)]]
    BY <1>2, <2>1 DEF WriteStatus
  <2>4. status \in UserStatuses /\ IdentityFor(status) \in IdentityStatuses
    BY <2>2, IdentityAssumption DEF IdentityAssumption, UserStatuses, IdentityFor, IdentityStatuses
  <2>5. desk'[a] # desk[a]
    <3>1. desk = [b \in Admins |-> desk[b]]
      BY DEF IdentityKinds
    <3>2. CASE Goes(a, "BAN")
      <4>1. desk'[a] = [desk[a] EXCEPT !.at = "BAN"]
        BY <3>1, <3>2 DEF Goes
      <4>2. desk'[a].at = "BAN"
        BY <2>2, <4>1 DEF StatusCall
      <4> QED
        BY <1>2, <4>2 DEF WriteStatus
    <3>3. CASE Ends(a)
      <4>1. desk'[a] = Idle
        BY <3>1, <3>3 DEF Ends
      <4> QED
        BY <1>2, <4>1 DEF WriteStatus, Idle
    <3> QED
      BY <1>2, <3>2, <3>3 DEF WriteStatus
  <2>6. desk[a].at = "STATUS" /\ desk[a].of = p
    BY <1>2, <2>1 DEF WriteStatus
  <2>7. /\ account' \in [People -> Account]
        /\ \A q \in People : q # p => account'[q] = account[q]
        /\ account'[p].seen = account[p].seen /\ account'[p].linked = account[p].linked
    BY <1>0, <2>2, <2>3, <2>4 DEF Account
  <2>8. Written(p)
    BY <2>5, <2>6, <2>7 DEF Written
  <2> QED
    BY <2>7, <2>8 DEF AccountStep, Moves
<1>3. CASE BanFails(a)
  <2>1. PICK p : p = desk[a].of
    OBVIOUS
  <2>2. p \in People /\ account' = [account EXCEPT ![p].identity = "SYNC_ERROR"]
    BY <1>3, <2>1, IdentityForms DEF BanFails, StatusCall
  <2> QED
    BY <1>0, <2>2 DEF AccountStep, Moves, Erred, Account, IdentityStatuses
<1>4. ASSUME NEW i \in InviteIds, CreateInvitation(a, i)
      PROVE  AccountStep
  <2>1. PICK p : p = desk[a].of
    OBVIOUS
  <2>2. p \in People
    BY <1>4, <2>1, IdentityForms DEF CreateInvitation
  <2>3. CASE account[p].status \in {"NONE", "INVITED"} /\ account' = [account EXCEPT ![p].status = "INVITED"]
    BY <1>0, <2>2, <2>3 DEF AccountStep, Moves, InvitedNow, Account, UserStatuses, Blocked
  <2> QED
    BY <1>1, <1>4, <2>1, <2>3 DEF CreateInvitation
<1>5. CASE \E i \in InviteIds : CreateInvitation(a, i)
  BY <1>4, <1>5
<1> QED
  BY <1>1, <1>2, <1>3, <1>5
  DEF Administrator, InviteUser, ChangeStatus, RewriteInvitation, BanAtClerk, CallDies, SendInvitation

LEMMA StepMovesAccounts ==
  ASSUME IdentityKinds, [IdentityNext]_identityVars
  PROVE  AccountStep
<1>1. CASE UNCHANGED identityVars
  BY <1>1 DEF identityVars, AccountStep, Moves, IdentityKinds, IdentityTypeOK, Account
<1> QED
  BY <1>1, WebhookMoves, PersonMoves, AdministratorMoves DEF IdentityNext

-----------------------------------------------------------------------------
(* The kinds of the other variables.                                       *)

\* What Clerk holds and tells is of its kind; what a call leaves alone is too.
LEMMA ClerkKinds ==
  ASSUME IdentityKinds, [IdentityNext]_identityVars
  PROVE  /\ clerkUser' \in [People -> ClerkRow] /\ clerkEvents' \subseteq Told
         /\ clerkEvents \subseteq clerkEvents'
<1>0. clerkUser \in [People -> ClerkRow] /\ clerkEvents \subseteq Told
  BY DEF IdentityKinds, IdentityTypeOK, ClerkRow, Told
<1>1. CASE UNCHANGED clerkSide
  BY <1>0, <1>1 DEF clerkSide
<1>2. ASSUME NEW p \in People, SignUp(p) \/ EditProfile(p) \/ LeaveClerk(p)
      PROVE  /\ clerkUser' \in [People -> ClerkRow] /\ clerkEvents' \subseteq Told
             /\ clerkEvents \subseteq clerkEvents'
  <2>1. CASE SignUp(p)
    <3>1. [at |-> "ALIVE", version |-> 1, barred |-> FALSE] \in ClerkRow
      BY IdentityAssumption DEF IdentityAssumption, ClerkRow
    <3> QED
      BY <2>1, <3>1, TellsKeeps DEF SignUp
  <2>2. CASE EditProfile(p)
    BY <2>2, NewerIsUser, TellsKeeps DEF EditProfile
  <2>3. CASE LeaveClerk(p)
    <3>1. [clerkUser[p] EXCEPT !.at = "GONE"] \in ClerkRow
      BY <1>0 DEF ClerkRow
    <3> QED
      BY <2>3, <3>1, TellsKeeps DEF LeaveClerk
  <2> QED
    BY <1>2, <2>1, <2>2, <2>3
<1>3. ASSUME NEW a \in Admins, NEW p \in People, NEW s \in NewStatuses, ChangeStatus(a, p, s)
      PROVE  /\ clerkUser' \in [People -> ClerkRow] /\ clerkEvents' \subseteq Told
             /\ clerkEvents \subseteq clerkEvents'
  <2>1. CASE s = "ACTIVE" /\ account[p].linked
    <3>1. ClerkHas(p)
      BY <1>3, <2>1 DEF ChangeStatus, ClerkHas
    <3>2. ClerkTells("user.updated", p, [Newer(p) EXCEPT !.barred = FALSE])
      BY <1>3, <2>1 DEF ChangeStatus
    <3> QED
      BY <3>1, <3>2, NewerIsUser, TellsKeeps
  <2>2. CASE ~(s = "ACTIVE" /\ account[p].linked)
    BY <1>1, <1>3, <2>2 DEF ChangeStatus
  <2> QED
    BY <2>1, <2>2
<1>4. ASSUME NEW a \in Admins, BanAtClerk(a)
      PROVE  /\ clerkUser' \in [People -> ClerkRow] /\ clerkEvents' \subseteq Told
             /\ clerkEvents \subseteq clerkEvents'
  <2>1. PICK p : p = desk[a].of
    OBVIOUS
  <2>2. p \in People
    BY <1>4, <2>1, IdentityForms DEF BanAtClerk, StatusCall
  <2>3. ClerkHas(p) /\ ClerkTells("user.updated", p, [Newer(p) EXCEPT !.barred = TRUE])
    BY <1>4, <2>1 DEF BanAtClerk
  <2> QED
    BY <2>2, <2>3, NewerIsUser, TellsKeeps
<1>5. CASE UNCHANGED identityVars
  BY <1>1, <1>5 DEF identityVars, clerkSide
<1>6. ASSUME NEW h \in Handlers, Webhook(h)
      PROVE  UNCHANGED clerkSide
  BY <1>6 DEF Webhook, ClaimEvent, HandleUser, MarkSyncError, HandleDeleted, ReleaseEvent, HandlerDies
<1>7. ASSUME NEW p \in People, Person(p)
      PROVE  SignUp(p) \/ EditProfile(p) \/ LeaveClerk(p) \/ UNCHANGED clerkSide
  BY <1>7 DEF Person, EnterUnknown, EnterReconciled
<1>8. ASSUME NEW a \in Admins, Administrator(a)
      PROVE  \/ \E p \in People, s \in NewStatuses : ChangeStatus(a, p, s)
             \/ BanAtClerk(a) \/ UNCHANGED clerkSide
  BY <1>8 DEF Administrator, InviteUser, CreateInvitation, RewriteInvitation, WriteStatus, BanFails,
     CallDies, SendInvitation
<1> QED
  BY <1>1, <1>2, <1>3, <1>4, <1>5, <1>6, <1>7, <1>8 DEF IdentityNext

\* Deliveries and sign-ins carry what Clerk told.
LEMMA HookKinds ==
  ASSUME IdentityKinds, [IdentityNext]_identityVars
  PROVE  /\ handler' \in [Handlers -> {Idle} \cup Handling]
         /\ clerkClaims' \subseteq clerkEvents'
         /\ signIn' \in [People -> {Idle} \cup Entering]
<1>0. /\ handler \in [Handlers -> {Idle} \cup Handling] /\ clerkClaims \subseteq clerkEvents
      /\ signIn \in [People -> {Idle} \cup Entering] /\ clerkEvents \subseteq Told
  BY DEF IdentityKinds, IdentityTypeOK, Told
<1>1. clerkEvents \subseteq clerkEvents'
  BY ClerkKinds
<1>2. CASE UNCHANGED <<handler, clerkClaims, signIn>>
  BY <1>0, <1>1, <1>2
<1>3. ASSUME NEW h \in Handlers, Webhook(h)
      PROVE  /\ handler' \in [Handlers -> {Idle} \cup Handling]
             /\ clerkClaims' \subseteq clerkEvents /\ UNCHANGED signIn
  <2>0. handler[h].at # "IDLE" => handler[h] \in Handling
    BY IdentityForms
  <2>1. ASSUME NEW e \in clerkEvents, ClaimEvent(h, e)
        PROVE  handler' \in [Handlers -> {Idle} \cup Handling] /\ clerkClaims' \subseteq clerkEvents
    <3>1. [at |-> "HANDLE", event |-> e] \in Handling
      BY <1>0 DEF Handling
    <3> QED
      BY <1>0, <2>1, <3>1 DEF ClaimEvent
  <2>2. ASSUME NEW at \in {"RELEASE", "SYNC_ERROR"}, Step(h, at), handler[h].at # "IDLE"
        PROVE  handler' \in [Handlers -> {Idle} \cup Handling]
    <3>1. [handler[h] EXCEPT !.at = at] \in Handling
      BY <2>0, <2>2 DEF Handling
    <3> QED
      BY <1>0, <2>2, <3>1 DEF Step
  <2>3. ASSUME handler' = [handler EXCEPT ![h] = Idle]
        PROVE  handler' \in [Handlers -> {Idle} \cup Handling]
    BY <1>0, <2>3
  <2>4. CASE HandleUser(h)
    BY <1>0, <2>2, <2>3, <2>4 DEF HandleUser, Handled
  <2>5. CASE MarkSyncError(h)
    BY <1>0, <2>2, <2>5 DEF MarkSyncError
  <2>6. CASE HandleDeleted(h)
    BY <1>0, <2>2, <2>3, <2>6 DEF HandleDeleted, Handled
  <2>7. CASE ReleaseEvent(h) \/ HandlerDies(h)
    BY <1>0, <2>3, <2>7 DEF ReleaseEvent, HandlerDies
  <2>8. UNCHANGED signIn
    BY <1>3 DEF Webhook, ClaimEvent, HandleUser, MarkSyncError, HandleDeleted, ReleaseEvent, HandlerDies
  <2> QED
    BY <1>3, <2>1, <2>4, <2>5, <2>6, <2>7, <2>8 DEF Webhook
<1>4. ASSUME NEW p \in People, Person(p)
      PROVE  /\ UNCHANGED <<handler, clerkClaims>>
             /\ signIn' \in [People -> {Idle} \cup Entering]
  <2>1. [at |-> "TOLD", version |-> clerkUser[p].version, barred |-> clerkUser[p].barred] \in Entering
    BY IdentityForms DEF ClerkRow, Entering
  <2> QED
    BY <1>0, <1>4, <2>1
    DEF Person, SignUp, EditProfile, LeaveClerk, EnterUnknown, EnterReconciled, hookSide
<1>5. ASSUME NEW a \in Admins, Administrator(a)
      PROVE  UNCHANGED <<handler, clerkClaims, signIn>>
  BY <1>5 DEF Administrator, InviteUser, ChangeStatus, CreateInvitation, RewriteInvitation, WriteStatus,
     BanAtClerk, BanFails, CallDies, SendInvitation, hookSide
<1>6. CASE UNCHANGED identityVars
  BY <1>2, <1>6 DEF identityVars
<1> QED
  BY <1>0, <1>1, <1>2, <1>3, <1>4, <1>5, <1>6 DEF IdentityNext

\* A desk holds a call of its kind, and who was cut short is a person.
LEMMA DeskKinds ==
  ASSUME IdentityKinds, [IdentityNext]_identityVars
  PROVE  /\ desk' \in [Admins -> {Idle} \cup StatusCall \cup InviteCall]
         /\ cutShort \subseteq cutShort' /\ cutShort' \subseteq People
<1>0. desk \in [Admins -> {Idle} \cup StatusCall \cup InviteCall] /\ cutShort \subseteq People
  BY DEF IdentityKinds, IdentityTypeOK
<1>1. CASE UNCHANGED adminSide
  BY <1>0, <1>1 DEF adminSide
<1>2. ASSUME NEW a \in Admins, Administrator(a)
      PROVE  /\ desk' \in [Admins -> {Idle} \cup StatusCall \cup InviteCall]
             /\ cutShort \subseteq cutShort' /\ cutShort' \subseteq People
  <2>1. ASSUME NEW asked \in StatusCall \cup InviteCall \cup {Idle}, desk' = [desk EXCEPT ![a] = asked]
        PROVE  desk' \in [Admins -> {Idle} \cup StatusCall \cup InviteCall]
    BY <1>0, <2>1
  <2>2. ASSUME NEW p \in People, InviteUser(a, p)
        PROVE  desk' \in [Admins -> {Idle} \cup StatusCall \cup InviteCall] /\ UNCHANGED cutShort
    <3>1. [at |-> "INVITE", of |-> p] \in InviteCall
      BY DEF InviteCall
    <3> QED
      BY <2>1, <2>2, <3>1 DEF InviteUser, Starts
  <2>3. ASSUME NEW p \in People, NEW s \in NewStatuses, ChangeStatus(a, p, s)
        PROVE  desk' \in [Admins -> {Idle} \cup StatusCall \cup InviteCall] /\ UNCHANGED cutShort
    <3>1. account[p].linked \in BOOLEAN
      BY IdentityForms DEF Account
    <3>2. [at |-> "STATUS", of |-> p, status |-> s, linked |-> account[p].linked] \in StatusCall
      BY <3>1 DEF StatusCall
    <3> QED
      BY <2>1, <2>3, <3>2 DEF ChangeStatus, Starts
  <2>4. ASSUME NEW i \in InviteIds, CreateInvitation(a, i)
        PROVE  desk' \in [Admins -> {Idle} \cup StatusCall \cup InviteCall] /\ UNCHANGED cutShort
    <3>1. [at |-> "SEND", invitation |-> i] \in InviteCall
      BY DEF InviteCall
    <3> QED
      BY <2>1, <2>4, <3>1 DEF CreateInvitation, Ends
  <2>5. CASE WriteStatus(a)
    <3>1. desk[a] \in StatusCall
      BY <2>5, IdentityForms DEF WriteStatus
    <3>2. [desk[a] EXCEPT !.at = "BAN"] \in StatusCall
      BY <3>1 DEF StatusCall
    <3>3. Goes(a, "BAN") => desk' = [desk EXCEPT ![a] = [desk[a] EXCEPT !.at = "BAN"]]
      BY <1>0 DEF Goes
    <3>4. desk' \in [Admins -> {Idle} \cup StatusCall \cup InviteCall]
      BY <2>1, <2>5, <3>2, <3>3 DEF WriteStatus, Ends
    <3>5. desk[a].of \in People
      BY <3>1 DEF StatusCall
    <3> QED
      BY <1>0, <2>5, <3>4, <3>5 DEF WriteStatus
  <2>6. CASE BanAtClerk(a) \/ SendInvitation(a)
    BY <1>0, <2>1, <2>6 DEF BanAtClerk, SendInvitation, Ends
  <2>7. CASE BanFails(a)
    <3>1. desk[a].of \in People
      BY <2>7, IdentityForms DEF BanFails, StatusCall
    <3> QED
      BY <1>0, <2>1, <2>7, <3>1 DEF BanFails, Ends
  <2>8. CASE CallDies(a)
    BY <1>0, <2>1, <2>8 DEF CallDies, Ends
  <2>9. CASE \E i \in InviteIds, at \in {"REVOKED", "SENT"} : RewriteInvitation(a, i, at)
    BY <1>1, <2>9 DEF RewriteInvitation
  <2> QED
    BY <1>0, <1>2, <2>2, <2>3, <2>4, <2>5, <2>6, <2>7, <2>8, <2>9 DEF Administrator
<1>3. ASSUME NEW h \in Handlers, Webhook(h)
      PROVE  UNCHANGED adminSide
  BY <1>3 DEF Webhook, ClaimEvent, HandleUser, MarkSyncError, HandleDeleted, ReleaseEvent, HandlerDies
<1>4. ASSUME NEW p \in People, Person(p)
      PROVE  UNCHANGED adminSide
  BY <1>4 DEF Person, SignUp, EditProfile, LeaveClerk, EnterUnknown, EnterReconciled
<1>5. CASE UNCHANGED identityVars
  BY <1>1, <1>5 DEF identityVars, adminSide
<1> QED
  BY <1>1, <1>2, <1>3, <1>4, <1>5 DEF IdentityNext

LEMMA KindsStay ==
  ASSUME IdentityKinds, [IdentityNext]_identityVars
  PROVE  IdentityKinds'
<1>1. account' \in [People -> Account]
  BY StepMovesAccounts DEF AccountStep
<1> QED
  BY <1>1, ClerkKinds, HookKinds, DeskKinds DEF IdentityKinds, IdentityTypeOK, Account, ClerkRow, Told

-----------------------------------------------------------------------------
(* Bars.                                                                   *)

\* Who was not at Clerk is not barred there when a version of the user is.
LEMMA UnknownAreNotBarred ==
  ASSUME IdentityInv, [IdentityNext]_identityVars, NEW p \in People, clerkUser'[p].at = "NONE"
  PROVE  ~clerkUser'[p].barred
<1>0. clerkUser[p].at = "NONE" => ~clerkUser[p].barred
  BY DEF IdentityInv, BarsAreOnTheWay
<1>1. IdentityKinds
  BY DEF IdentityInv
<1>2. CASE UNCHANGED clerkUser
  BY <1>0, <1>2
<1>3. ASSUME NEW q \in People, NEW type \in {"user.created", "user.updated", "user.deleted"},
             NEW user \in ClerkRow, user.at # "NONE", ClerkTells(type, q, user)
      PROVE  ~clerkUser'[p].barred
  BY <1>0, <1>1, <1>3, TellsKeeps
<1>4. ASSUME NEW q \in People, Person(q)
      PROVE  ~clerkUser'[p].barred
  <2>1. CASE SignUp(q)
    <3>1. [at |-> "ALIVE", version |-> 1, barred |-> FALSE] \in ClerkRow
      BY IdentityAssumption DEF IdentityAssumption, ClerkRow
    <3> QED
      BY <1>3, <2>1, <3>1 DEF SignUp
  <2>2. CASE EditProfile(q)
    BY <1>1, <1>3, <2>2, NewerIsUser DEF EditProfile
  <2>3. CASE LeaveClerk(q)
    <3>1. [clerkUser[q] EXCEPT !.at = "GONE"] \in ClerkRow /\ [clerkUser[q] EXCEPT !.at = "GONE"].at = "GONE"
      BY <1>1, IdentityForms DEF ClerkRow
    <3> QED
      BY <1>3, <2>3, <3>1 DEF LeaveClerk
  <2> QED
    BY <1>2, <1>4, <2>1, <2>2, <2>3 DEF Person, EnterUnknown, EnterReconciled, clerkSide
<1>5. ASSUME NEW a \in Admins, Administrator(a)
      PROVE  ~clerkUser'[p].barred
  <2>1. ASSUME NEW q \in People, NEW s \in NewStatuses, ChangeStatus(a, q, s)
        PROVE  ~clerkUser'[p].barred
    <3>1. CASE s = "ACTIVE" /\ account[q].linked
      <4>1. ClerkHas(q) /\ ClerkTells("user.updated", q, [Newer(q) EXCEPT !.barred = FALSE])
        BY <2>1, <3>1 DEF ChangeStatus, ClerkHas
      <4> QED
        BY <1>1, <1>3, <4>1, NewerIsUser
    <3>2. CASE ~(s = "ACTIVE" /\ account[q].linked)
      BY <1>2, <2>1, <3>2 DEF ChangeStatus, clerkSide
    <3> QED
      BY <3>1, <3>2
  <2>2. CASE BanAtClerk(a)
    <3>1. PICK q : q = desk[a].of
      OBVIOUS
    <3>2. q \in People
      BY <1>1, <2>2, <3>1, IdentityForms DEF BanAtClerk, StatusCall
    <3>3. ClerkHas(q) /\ ClerkTells("user.updated", q, [Newer(q) EXCEPT !.barred = TRUE])
      BY <2>2, <3>1 DEF BanAtClerk
    <3> QED
      BY <1>1, <1>3, <3>2, <3>3, NewerIsUser
  <2> QED
    BY <1>2, <1>5, <2>1, <2>2
    DEF Administrator, InviteUser, CreateInvitation, RewriteInvitation, WriteStatus, BanFails,
        CallDies, SendInvitation, clerkSide
<1>6. ASSUME NEW h \in Handlers, Webhook(h)
      PROVE  ~clerkUser'[p].barred
  BY <1>2, <1>6
  DEF Webhook, ClaimEvent, HandleUser, MarkSyncError, HandleDeleted, ReleaseEvent, HandlerDies, clerkSide
<1>7. CASE UNCHANGED identityVars
  BY <1>2, <1>7 DEF identityVars
<1> QED
  BY <1>4, <1>5, <1>6, <1>7 DEF IdentityNext

\* No webhook and no person makes an account one that has to be barred.
LEMMA OnlyDesksBlock ==
  ASSUME IdentityInv, [IdentityNext]_identityVars, UNCHANGED desk, NEW p \in People, NeedsBar(p)'
  PROVE  NeedsBar(p)
<1>1. Moves(p)
  BY StepMovesAccounts DEF AccountStep, IdentityInv
<1> QED
  BY <1>1 DEF Moves, NeedsBar, Reconciled, Erred, Deleted, Written, InvitedNow, Blocked

\* A bar that somebody else is to set, or that is set, stays so.
LEMMA OthersStayOnTheWay ==
  ASSUME NEW p \in People, NEW a \in Admins, BarIsOnTheWay(p),
         \A b \in Admins \ {a} : desk'[b] = desk[b],
         desk[a].at \in {"STATUS", "BAN"} => desk[a].of # p,
         clerkUser'[p] = clerkUser[p]
  PROVE  BarIsOnTheWay(p)'
BY DEF BarIsOnTheWay

LEMMA PersonBars ==
  ASSUME IdentityInv, NEW q \in People, Person(q), NEW p \in People, BarIsOnTheWay(p)
  PROVE  BarIsOnTheWay(p)'
<1>0. IdentityKinds /\ UNCHANGED desk
  BY DEF IdentityInv, Person, SignUp, EditProfile, LeaveClerk, EnterUnknown, EnterReconciled, adminSide
<1>1. CASE UNCHANGED clerkUser
  BY <1>0, <1>1 DEF BarIsOnTheWay
<1>2. ASSUME NEW type \in {"user.created", "user.updated", "user.deleted"}, NEW user \in ClerkRow,
             ClerkTells(type, q, user),
             clerkUser[q].barred \/ clerkUser[q].at = "GONE" => user.barred \/ user.at = "GONE"
      PROVE  BarIsOnTheWay(p)'
  BY <1>0, <1>2, TellsKeeps DEF BarIsOnTheWay
<1>3. CASE SignUp(q)
  <2>1. [at |-> "ALIVE", version |-> 1, barred |-> FALSE] \in ClerkRow
    BY IdentityAssumption DEF IdentityAssumption, ClerkRow
  <2>2. ~clerkUser[q].barred /\ clerkUser[q].at # "GONE"
    BY <1>3 DEF SignUp, IdentityInv, BarsAreOnTheWay
  <2> QED
    BY <1>2, <1>3, <2>1, <2>2 DEF SignUp
<1>4. CASE EditProfile(q)
  BY <1>0, <1>2, <1>4, NewerIsUser DEF EditProfile, ClerkHas
<1>5. CASE LeaveClerk(q)
  <2>1. [clerkUser[q] EXCEPT !.at = "GONE"] \in ClerkRow /\ [clerkUser[q] EXCEPT !.at = "GONE"].at = "GONE"
    BY <1>0, IdentityForms DEF ClerkRow
  <2> QED
    BY <1>2, <1>5, <2>1 DEF LeaveClerk
<1> QED
  BY <1>1, <1>3, <1>4, <1>5 DEF Person, EnterUnknown, EnterReconciled, clerkSide

LEMMA AdministratorBars ==
  ASSUME IdentityInv, NEW a \in Admins, Administrator(a),
         NEW p \in People \ cutShort', NeedsBar(p)'
  PROVE  BarIsOnTheWay(p)'
<1>0. IdentityKinds /\ desk = [b \in Admins |-> desk[b]] /\ account \in [People -> Account]
  BY DEF IdentityInv, IdentityKinds, IdentityTypeOK, Account
<1>1. \A b \in Admins \ {a} : desk'[b] = desk[b]
  BY <1>0 DEF Administrator, InviteUser, ChangeStatus, CreateInvitation, RewriteInvitation, WriteStatus,
     BanAtClerk, BanFails, CallDies, SendInvitation, Starts, Goes, Ends, adminSide
<1>2. p \notin cutShort
  BY <1>0, DeskKinds DEF IdentityNext
<1>3. NeedsBar(p) => BarIsOnTheWay(p)
  BY <1>2 DEF IdentityInv, BarsAreOnTheWay
<1>4. CASE UNCHANGED clerkUser /\ desk[a].at \notin {"STATUS", "BAN"} /\ NeedsBar(p)
  BY <1>1, <1>3, <1>4, OthersStayOnTheWay
<1>5. ASSUME NEW q \in People, NEW s \in NewStatuses, ChangeStatus(a, q, s)
      PROVE  BarIsOnTheWay(p)'
  <2>1. NeedsBar(p) /\ desk[a].at \notin {"STATUS", "BAN"}
    BY <1>5 DEF ChangeStatus, NeedsBar, Starts, Idle
  <2>2. CASE UNCHANGED clerkUser
    BY <1>4, <2>1, <2>2
  <2>3. CASE s = "ACTIVE" /\ account[q].linked
    <3>1. ClerkHas(q) /\ ClerkTells("user.updated", q, [Newer(q) EXCEPT !.barred = FALSE])
      BY <1>5, <2>3 DEF ChangeStatus, ClerkHas
    <3>2. \A r \in People : r # q => clerkUser'[r] = clerkUser[r]
      BY <1>0, <3>1, NewerIsUser, TellsKeeps
    <3>3. CASE p # q
      BY <1>1, <1>3, <2>1, <3>2, <3>3, OthersStayOnTheWay
    <3>4. CASE p = q
      <4>1. desk'[a] = [at |-> "STATUS", of |-> p, status |-> s, linked |-> account[p].linked]
        BY <1>0, <1>5, <3>4 DEF ChangeStatus, Starts
      <4> QED
        BY <2>3, <4>1 DEF BarIsOnTheWay
    <3> QED
      BY <3>3, <3>4
  <2> QED
    BY <1>5, <2>2, <2>3 DEF ChangeStatus, clerkSide
<1>6. CASE WriteStatus(a)
  <2>1. PICK q, s : q = desk[a].of /\ s = desk[a].status
    OBVIOUS
  <2>2. q \in People /\ s \in NewStatuses /\ desk[a].at = "STATUS" /\ desk[a] \in StatusCall
    BY <1>0, <1>6, <2>1, IdentityForms DEF WriteStatus, StatusCall
  <2>3. account' = [account EXCEPT ![q] = [@ EXCEPT !.status = s, !.identity = IdentityFor(s)]]
    BY <1>6, <2>1 DEF WriteStatus
  <2>4. UNCHANGED clerkUser
    BY <1>6 DEF WriteStatus, clerkSide
  <2>5. CASE p # q
    <3>1. NeedsBar(p)
      BY <1>0, <2>2, <2>3, <2>5 DEF NeedsBar
    <3> QED
      BY <1>1, <1>3, <2>1, <2>4, <2>5, <3>1, OthersStayOnTheWay
  <2>6. CASE p = q
    <3>1. account'[p].status = s /\ account'[p].linked = account[p].linked
      BY <1>0, <2>2, <2>3, <2>6 DEF Account
    <3>2. s \in Blocked /\ account[p].linked
      BY <3>1 DEF NeedsBar
    <3>3. desk[a].linked
      BY <1>6, <2>1, <2>6, <3>2 DEF WriteStatus, BannedAtClerk
    <3>4. desk' = [desk EXCEPT ![a].at = "BAN"]
      BY <1>6, <2>1, <3>2, <3>3 DEF WriteStatus, BannedAtClerk, Goes
    <3>5. desk'[a] = [desk[a] EXCEPT !.at = "BAN"]
      BY <1>0, <3>4
    <3>6. desk'[a].at = "BAN" /\ desk'[a].of = p
      BY <2>1, <2>2, <2>6, <3>5 DEF StatusCall
    <3> QED
      BY <3>6 DEF BarIsOnTheWay
  <2> QED
    BY <2>5, <2>6
<1>7. CASE BanAtClerk(a)
  <2>1. PICK q : q = desk[a].of
    OBVIOUS
  <2>2. q \in People
    BY <1>0, <1>7, <2>1, IdentityForms DEF BanAtClerk, StatusCall
  <2>3. ClerkHas(q) /\ ClerkTells("user.updated", q, [Newer(q) EXCEPT !.barred = TRUE])
    BY <1>7, <2>1 DEF BanAtClerk
  <2>4. clerkUser'[q].barred /\ \A r \in People : r # q => clerkUser'[r] = clerkUser[r]
    <3>1. PICK user : user = [Newer(q) EXCEPT !.barred = TRUE]
      OBVIOUS
    <3>2. user \in ClerkRow /\ user.barred
      BY <1>0, <2>2, <2>3, <3>1, NewerIsUser
    <3>3. ClerkTells("user.updated", q, user)
      BY <2>3, <3>1
    <3> QED
      BY <1>0, <2>2, <3>2, <3>3, TellsKeeps
  <2>5. NeedsBar(p)
    BY <1>7 DEF BanAtClerk, NeedsBar
  <2>6. CASE p = q
    BY <2>4, <2>6 DEF BarIsOnTheWay
  <2>7. CASE p # q
    BY <1>1, <1>3, <2>1, <2>4, <2>5, <2>7, OthersStayOnTheWay
  <2> QED
    BY <2>6, <2>7
<1>8. CASE BanFails(a)
  <2>1. PICK q : q = desk[a].of
    OBVIOUS
  <2>2. q \in People /\ q # p /\ account' = [account EXCEPT ![q].identity = "SYNC_ERROR"] /\ UNCHANGED clerkUser
    BY <1>0, <1>8, <2>1, IdentityForms DEF BanFails, StatusCall, clerkSide
  <2>3. NeedsBar(p)
    BY <1>0, <2>2 DEF NeedsBar
  <2> QED
    BY <1>1, <1>3, <2>1, <2>2, <2>3, OthersStayOnTheWay
<1>9. CASE CallDies(a)
  <2>1. desk[a].at \in {"STATUS", "BAN"} => desk[a].of # p
    BY <1>9 DEF CallDies
  <2>2. NeedsBar(p) /\ UNCHANGED clerkUser
    BY <1>9 DEF CallDies, NeedsBar, clerkSide
  <2> QED
    BY <1>1, <1>3, <2>1, <2>2, OthersStayOnTheWay
<1>10. CASE SendInvitation(a)
  BY <1>4, <1>10 DEF SendInvitation, NeedsBar, clerkSide
<1>11. ASSUME NEW q \in People, InviteUser(a, q)
       PROVE  BarIsOnTheWay(p)'
  BY <1>4, <1>11 DEF InviteUser, NeedsBar, clerkSide, Starts, Idle
<1>12. ASSUME NEW i \in InviteIds, NEW at \in {"REVOKED", "SENT"}, RewriteInvitation(a, i, at)
       PROVE  BarIsOnTheWay(p)'
  BY <1>4, <1>12 DEF RewriteInvitation, NeedsBar, clerkSide, Idle
<1>13. ASSUME NEW i \in InviteIds, CreateInvitation(a, i)
       PROVE  BarIsOnTheWay(p)'
  <2>1. PICK q : q = desk[a].of
    OBVIOUS
  <2>2. q \in People /\ (account' = [account EXCEPT ![q].status = "INVITED"] \/ UNCHANGED account)
    BY <1>0, <1>13, <2>1, IdentityForms DEF CreateInvitation
  <2>3. NeedsBar(p)
    BY <1>0, <2>2 DEF NeedsBar, Account, Blocked
  <2> QED
    BY <1>4, <1>13, <2>3 DEF CreateInvitation, clerkSide
<1> QED
  BY <1>5, <1>6, <1>7, <1>8, <1>9, <1>10, <1>11, <1>12, <1>13 DEF Administrator

LEMMA IdentityStepInvariant == IdentityInv /\ [IdentityNext]_identityVars => IdentityInv'
<1> SUFFICES ASSUME IdentityInv, [IdentityNext]_identityVars
             PROVE  IdentityInv'
  OBVIOUS
<1>1. IdentityKinds'
  BY KindsStay DEF IdentityInv
<1>2. ASSUME NEW p \in People \ cutShort', NeedsBar(p)'
      PROVE  BarIsOnTheWay(p)'
  <2>0. p \notin cutShort
    BY DeskKinds DEF IdentityInv
  <2>1. NeedsBar(p) => BarIsOnTheWay(p)
    BY <2>0 DEF IdentityInv, BarsAreOnTheWay
  <2>2. ASSUME NEW q \in People, Person(q)
        PROVE  BarIsOnTheWay(p)'
    <3>1. UNCHANGED desk
      BY <2>2 DEF Person, SignUp, EditProfile, LeaveClerk, EnterUnknown, EnterReconciled, adminSide
    <3> QED
      BY <1>2, <2>1, <2>2, <3>1, OnlyDesksBlock, PersonBars
  <2>3. ASSUME NEW h \in Handlers, Webhook(h)
        PROVE  BarIsOnTheWay(p)'
    <3>1. UNCHANGED <<desk, clerkUser>>
      BY <2>3 DEF Webhook, ClaimEvent, HandleUser, MarkSyncError, HandleDeleted, ReleaseEvent, HandlerDies,
         adminSide, clerkSide
    <3>2. BarIsOnTheWay(p)
      BY <1>2, <2>1, <3>1, OnlyDesksBlock
    <3> QED
      BY <3>1, <3>2 DEF BarIsOnTheWay
  <2>4. CASE UNCHANGED identityVars
    <3>1. UNCHANGED <<desk, clerkUser>>
      BY <2>4 DEF identityVars
    <3>2. BarIsOnTheWay(p)
      BY <1>2, <2>1, <3>1, OnlyDesksBlock
    <3> QED
      BY <3>1, <3>2 DEF BarIsOnTheWay
  <2> QED
    BY <1>2, <2>2, <2>3, <2>4, AdministratorBars DEF IdentityNext
<1> QED
  BY <1>1, <1>2, UnknownAreNotBarred DEF IdentityInv, BarsAreOnTheWay

\* Who is at no desk and has no change cut short is barred, or has no need to be.
LEMMA IdentityInvariantIsEnough == IdentityInv => BlockedIsBarred
BY DEF IdentityInv, BarsAreOnTheWay, NeedsBar, BarIsOnTheWay, BlockedIsBarred

\* Neither of the two rules about accounts is broken by a step.
LEMMA StepsFollowClerk ==
  ASSUME IdentityInv, [IdentityNext]_identityVars
  PROVE  \A p \in People :
           /\ account[p].status \in Blocked /\ account'[p].status \notin Blocked =>
                \E a \in Admins : desk[a].at = "STATUS" /\ desk[a].of = p /\ desk'[a] # desk[a]
           /\ account'[p].linked /\ ~account[p].linked => PublicEntry \/ Invited(p)
           /\ LetIn(account[p]) => account'[p].seen >= account[p].seen
<1> SUFFICES ASSUME NEW p \in People
             PROVE  /\ account[p].status \in Blocked /\ account'[p].status \notin Blocked =>
                         \E a \in Admins : desk[a].at = "STATUS" /\ desk[a].of = p /\ desk'[a] # desk[a]
                    /\ account'[p].linked /\ ~account[p].linked => PublicEntry \/ Invited(p)
                    /\ LetIn(account[p]) => account'[p].seen >= account[p].seen
  OBVIOUS
<1>1. Moves(p)
  BY StepMovesAccounts DEF AccountStep, IdentityInv
<1>2. account[p].seen \in Nat
  BY IdentityForms, IdentityAssumption DEF Account, IdentityInv, IdentityAssumption
<1> QED
  BY <1>1, <1>2 DEF Moves, Reconciled, Erred, Deleted, Written, InvitedNow, Blocked

\* Once nobody is at work on a person and nothing about them was cut short, an account
\* blocked here is barred at Clerk, for any number of administrators (users/actions.ts:200-244).
THEOREM BlockedStayBarred == IdentitySpec => []BlockedIsBarred
BY IdentityInitInvariant, IdentityStepInvariant, IdentityInvariantIsEnough, PTL DEF IdentitySpec

\* Only an administrator lets a blocked account in again, only an open invitation links
\* one where registration is closed, and no old profile overwrites a newer one of
\* somebody who is let in (clerk-identity.ts:98-138).
THEOREM NobodyIsLetInByAnOldEvent == IdentitySpec => NobodySlipsIn /\ IdentityNeverOlder
<1>1. IdentitySpec => []IdentityInv
  BY IdentityInitInvariant, IdentityStepInvariant, PTL DEF IdentitySpec
<1>2. IdentityInv /\ [IdentityNext]_identityVars =>
        [\A p \in People :
           /\ account[p].status \in Blocked /\ account'[p].status \notin Blocked =>
                \E a \in Admins : desk[a].at = "STATUS" /\ desk[a].of = p /\ desk'[a] # desk[a]
           /\ account'[p].linked /\ ~account[p].linked => PublicEntry \/ Invited(p)]_identityVars
  BY StepsFollowClerk
<1>3. IdentityInv /\ [IdentityNext]_identityVars =>
        [\A p \in People : LetIn(account[p]) => account'[p].seen >= account[p].seen]_identityVars
  BY StepsFollowClerk
<1> QED
  BY <1>1, <1>2, <1>3, PTL DEF IdentitySpec, NobodySlipsIn, IdentityNeverOlder

\* As Clerk's events arrive twice and out of order, nobody is let in by an old one and
\* nobody's profile is set back by one (clerk-identity.ts:98-138).
THEOREM AccountsKeepFollowingClerk == IdentitySpec => AccountsFollowClerk
BY NobodyIsLetInByAnOldEvent, PTL DEF AccountsFollowClerk
=============================================================================
