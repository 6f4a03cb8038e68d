--------------------------- MODULE PlatformProofs ---------------------------
(***************************************************************************)
(* Proofs about what goes out to people, the notices and replies of Outbox *)
(* and the chats of ZaloAssistant, each for every value of its constants,  *)
(* and about the platform as a whole: every part of it behaves as it does  *)
(* alone, so that what was proved of the part holds on the platform, and   *)
(* keeps its types.                                                        *)
(***************************************************************************)
EXTENDS IntakeProofs, DoorProofs

-----------------------------------------------------------------------------
(* Outbox, for every number of events and dispatchers, every length of     *)
(* the retries and every lease longer than a function may run.             *)

\* A dispatcher at work.
Working == [at: DispatcherSteps, event: Events, seen: EventRow, since: Nat]

ReplySteps == {"REPLY_LISTED", "REPLY_CLAIMED", "REPLY_SENT", "REPLY_FAILED"}
NoticeSteps ==
  {"NOTICE_LISTED", "NOTICE_FAILED", "MAIL_LISTED", "MAIL_SENT", "MAIL_FAILED", "MAIL_SUPPRESSED"}

Holds(d, e) ==
  dispatcher[d].at \in {"REPLY_CLAIMED", "REPLY_SENT", "REPLY_FAILED"} /\ dispatcher[d].event = e
Lists(d, e) == dispatcher[d].at = "REPLY_LISTED" /\ dispatcher[d].event = e
HasSent(d, e) == dispatcher[d].at = "REPLY_SENT" /\ dispatcher[d].event = e

\* A dispatcher works on an event of its kind, within its lifetime, and has
\* listed it open.
WorkIsInTime ==
  \A d \in Dispatchers : dispatcher[d] # Resting =>
    /\ dispatcher[d].since <= outboxClock
    /\ outboxClock <= dispatcher[d].since + Lifetime
    /\ dispatcher[d].at \in ReplySteps => dispatcher[d].event \in Replies
    /\ dispatcher[d].at \in NoticeSteps => dispatcher[d].event \in Notices
    /\ dispatcher[d].at \in {"REPLY_LISTED", "NOTICE_LISTED"} =>
         dispatcher[d].seen.status \in OpenStatuses

\* What a dispatcher has listed is no newer than the row.
ListsAreOld ==
  \A e \in Replies : \A d \in Dispatchers :
    Lists(d, e) => dispatcher[d].seen.attempts <= event[e].attempts

\* A reply that is held is hidden for longer than its holder lives, and whoever
\* has listed it saw it before the claim.
ClaimsExclude ==
  \A e \in Replies : \A d \in Dispatchers : Holds(d, e) =>
    /\ event[e].status = "FAILED"
    /\ dispatcher[d].since + Lifetime < event[e].availableAt
    /\ \A f \in Dispatchers : f # d =>
         ~Holds(f, e) /\ (Lists(f, e) => dispatcher[f].seen.attempts < event[e].attempts)

\* A reply that is neither published nor in the hands of one who has sent it
\* has left at most as often as an attempt ended in doubt.
RepliesCounted ==
  \A e \in Replies :
    /\ replied[e] <= 1 + doubts[e]
    /\ event[e].status # "PUBLISHED" /\ (\A d \in Dispatchers : ~HasSent(d, e)) =>
         replied[e] <= doubts[e]

NoticesCounted ==
  \A e \in Notices :
    /\ notified[e] <= 1 + doubts[e]
    /\ event[e].status # "PUBLISHED" => notified[e] <= doubts[e]

OutboxTypes ==
  /\ event \in [Events -> EventRow]
  /\ dispatcher \in [Dispatchers -> {Resting} \union Working]
  /\ notified \in [Notices -> Nat]
  /\ replied \in [Replies -> Nat] /\ doubts \in [Events -> Nat]
  /\ outboxClock \in Nat

OutboxInv ==
  /\ OutboxTypes /\ WorkIsInTime /\ ListsAreOld /\ ClaimsExclude
  /\ RepliesCounted /\ NoticesCounted

-----------------------------------------------------------------------------
LEMMA Workers ==
  ASSUME OutboxTypes, NEW d \in Dispatchers
  PROVE  /\ dispatcher[d] = Resting \/ (dispatcher[d] \in Working /\ dispatcher[d] # Resting)
         /\ dispatcher[d].at # "REST" => dispatcher[d] \in Working /\ dispatcher[d] # Resting
         /\ dispatcher[d] # Resting => dispatcher[d] \in Working
<1>1. \A k \in Working : k # Resting
  BY DEF Working, Resting, DispatcherSteps
<1>2. Resting.at = "REST"
  BY DEF Resting
<1> QED
  BY <1>1, <1>2 DEF OutboxTypes

\* Nobody at rest holds, lists or has sent.
LEMMA RestIsIdle ==
  ASSUME NEW d \in Dispatchers, dispatcher[d] = Resting, NEW e
  PROVE  ~Holds(d, e) /\ ~Lists(d, e) /\ ~HasSent(d, e)
BY DEF Resting, Holds, Lists, HasSent

LEMMA OutboxInitInvariant == OutboxInit => OutboxInv
<1> SUFFICES ASSUME OutboxInit PROVE OutboxInv
  OBVIOUS
<1>1. OutboxTypes
  BY DEF OutboxInit, OutboxTypes, EventRow
<1>2. WorkIsInTime
  BY DEF OutboxInit, WorkIsInTime
<1>3. \A d \in Dispatchers : dispatcher[d] = Resting
  BY DEF OutboxInit
<1>4. ListsAreOld /\ ClaimsExclude
  BY <1>3, RestIsIdle DEF ListsAreOld, ClaimsExclude
<1>5. RepliesCounted /\ NoticesCounted
  BY DEF OutboxInit, RepliesCounted, NoticesCounted, Events
<1> QED
  BY <1>1, <1>2, <1>4, <1>5 DEF OutboxInv

-----------------------------------------------------------------------------
\* A dispatcher lays its work down, and the events of replies stay; if it had
\* sent a reply, its doubt is counted.
LEMMA RestKeeps ==
  ASSUME OutboxInv, NEW d \in Dispatchers, Rest(d),
         event' \in [Events -> EventRow], doubts' \in [Events -> Nat],
         notified' \in [Notices -> Nat],
         UNCHANGED <<replied, outboxClock>>, NoticesCounted',
         \A e \in Replies : event'[e] = event[e] /\ doubts[e] <= doubts'[e],
         \A e \in Replies : HasSent(d, e) => doubts[e] < doubts'[e]
  PROVE  OutboxInv'
<1>1. dispatcher'[d] = Resting /\ \A f \in Dispatchers : f # d => dispatcher'[f] = dispatcher[f]
  BY DEF Rest, OutboxInv, OutboxTypes
<1>2. OutboxTypes'
  BY DEF Rest, OutboxInv, OutboxTypes
<1>3. WorkIsInTime'
  BY <1>1 DEF OutboxInv, WorkIsInTime
<1>4. \A e : /\ ~Holds(d, e)' /\ ~Lists(d, e)' /\ ~HasSent(d, e)'
  BY <1>1 DEF Holds, Lists, HasSent, Resting
<1>5. \A f \in Dispatchers : \A e : f # d =>
        /\ Holds(f, e)' <=> Holds(f, e)
        /\ Lists(f, e)' <=> Lists(f, e)
        /\ HasSent(f, e)' <=> HasSent(f, e)
  BY <1>1 DEF Holds, Lists, HasSent
<1>6. ListsAreOld'
  BY <1>1, <1>4, <1>5 DEF OutboxInv, ListsAreOld
<1>7. ClaimsExclude'
  BY <1>1, <1>4, <1>5 DEF OutboxInv, ClaimsExclude
<1>8. RepliesCounted'
  <2> SUFFICES ASSUME NEW e \in Replies
               PROVE  /\ replied[e] <= 1 + doubts'[e]
                      /\ event[e].status # "PUBLISHED" /\ (\A f \in Dispatchers : ~HasSent(f, e)') =>
                           replied[e] <= doubts'[e]
    BY DEF RepliesCounted
  <2>1. replied[e] \in Nat /\ doubts[e] \in Nat /\ doubts'[e] \in Nat
    BY DEF OutboxInv, OutboxTypes, Events
  <2>2. replied[e] <= 1 + doubts[e] /\ doubts[e] <= doubts'[e]
    BY DEF OutboxInv, RepliesCounted
  <2>3. CASE HasSent(d, e)
    BY <2>1, <2>2, <2>3
  <2>4. CASE ~HasSent(d, e)
    BY <2>1, <2>2, <2>4, <1>5 DEF OutboxInv, RepliesCounted
  <2> QED
    BY <2>3, <2>4
<1> QED
  BY <1>2, <1>3, <1>6, <1>7, <1>8 DEF OutboxInv

\* A dispatcher takes up an event it finds open and due.
LEMMA TakeUpKeeps ==
  ASSUME OutboxInv, NEW d \in Dispatchers, NEW e \in Events, dispatcher[d] = Resting,
         NEW step \in {"REPLY_LISTED", "NOTICE_LISTED", "MAIL_LISTED"},
         dispatcher' = [dispatcher EXCEPT ![d] =
           [at |-> step, event |-> e, seen |-> event[e], since |-> outboxClock]],
         step = "REPLY_LISTED" => e \in Replies,
         step # "REPLY_LISTED" => e \in Notices,
         step # "MAIL_LISTED" =>
           event[e].status \in OpenStatuses /\ event[e].availableAt <= outboxClock,
         UNCHANGED <<event, notified, replied, doubts, outboxClock>>
  PROVE  OutboxInv'
<1>1. /\ dispatcher'[d] = [at |-> step, event |-> e, seen |-> event[e], since |-> outboxClock]
      /\ \A f \in Dispatchers : f # d => dispatcher'[f] = dispatcher[f]
  BY DEF OutboxInv, OutboxTypes
<1>2. event[e] \in EventRow /\ outboxClock \in Nat
  BY DEF OutboxInv, OutboxTypes
<1>3. dispatcher'[d] \in Working
  BY <1>1, <1>2 DEF Working, DispatcherSteps
<1>4. OutboxTypes'
  <2>1. dispatcher' \in [Dispatchers -> {Resting} \union Working]
    BY <1>1, <1>3 DEF OutboxInv, OutboxTypes
  <2> QED
    BY <2>1 DEF OutboxInv, OutboxTypes
<1>5. WorkIsInTime'
  BY <1>1, <1>2, OutboxAssumption DEF OutboxInv, WorkIsInTime, ReplySteps, NoticeSteps
<1>6. \A x : ~Holds(d, x)' /\ ~HasSent(d, x)' /\ (Lists(d, x)' => x = e /\ step = "REPLY_LISTED")
  BY <1>1 DEF Holds, HasSent, Lists
<1>7. \A f \in Dispatchers : \A x : f # d =>
        /\ Holds(f, x)' <=> Holds(f, x)
        /\ Lists(f, x)' <=> Lists(f, x)
        /\ HasSent(f, x)' <=> HasSent(f, x)
  BY <1>1 DEF Holds, Lists, HasSent
<1>8. \A x : ~HasSent(d, x)
  BY RestIsIdle
<1>9. ListsAreOld'
  <2>1. event[e].attempts <= event[e].attempts
    BY <1>2 DEF EventRow
  <2> QED
    BY <1>1, <1>6, <1>7, <2>1 DEF OutboxInv, ListsAreOld
<1>10. ClaimsExclude'
  <2> SUFFICES ASSUME NEW x \in Replies, NEW h \in Dispatchers, Holds(h, x)'
               PROVE  /\ event[x].status = "FAILED"
                      /\ dispatcher'[h].since + Lifetime < event[x].availableAt
                      /\ \A f \in Dispatchers : f # h =>
                           ~Holds(f, x)' /\ (Lists(f, x)' => dispatcher'[f].seen.attempts < event[x].attempts)
    BY DEF ClaimsExclude
  <2>1. h # d /\ Holds(h, x) /\ dispatcher'[h] = dispatcher[h]
    BY <1>1, <1>6, <1>7
  <2>2. ~Lists(d, x)'
    <3> SUFFICES ASSUME Lists(d, x)' PROVE FALSE
      OBVIOUS
    <3>1. x = e /\ event[e].availableAt <= outboxClock
      BY <1>6
    <3>2. dispatcher[h].since + Lifetime < event[x].availableAt
      BY <2>1 DEF OutboxInv, ClaimsExclude
    <3>3. dispatcher[h] # Resting
      BY <2>1, RestIsIdle
    <3>4. dispatcher[h].since \in Nat /\ outboxClock <= dispatcher[h].since + Lifetime
      BY <3>3, Workers DEF OutboxInv, WorkIsInTime, Working
    <3>5. event[e].availableAt \in Nat
      BY <1>2 DEF EventRow
    <3> QED
      BY <1>2, <3>1, <3>2, <3>4, <3>5, OutboxAssumption
  <2> QED
    BY <1>1, <1>6, <1>7, <2>1, <2>2 DEF OutboxInv, ClaimsExclude
<1>11. RepliesCounted' /\ NoticesCounted'
  BY <1>6, <1>7, <1>8 DEF OutboxInv, RepliesCounted, NoticesCounted
<1> QED
  BY <1>4, <1>5, <1>9, <1>10, <1>11 DEF OutboxInv

\* A dispatcher moves to another step of its work.
LEMMA ReplyGoesOn ==
  ASSUME OutboxInv, NEW d \in Dispatchers, dispatcher[d].at # "REST",
         NEW step \in DispatcherSteps, GoOn(d, step)
  PROVE  /\ dispatcher' \in [Dispatchers -> {Resting} \union Working]
         /\ dispatcher'[d] \in Working
         /\ dispatcher'[d].at = step
         /\ dispatcher'[d].event = dispatcher[d].event
         /\ dispatcher'[d].seen = dispatcher[d].seen
         /\ dispatcher'[d].since = dispatcher[d].since
         /\ \A f \in Dispatchers : f # d => dispatcher'[f] = dispatcher[f]
<1>1. dispatcher[d] \in Working
  BY Workers DEF OutboxInv
<1>2. dispatcher'[d] = [dispatcher[d] EXCEPT !.at = step]
  BY DEF GoOn, OutboxInv, OutboxTypes
<1>3. dispatcher'[d] \in Working
  BY <1>1, <1>2 DEF Working
<1>4. dispatcher' \in [Dispatchers -> {Resting} \union Working]
  BY <1>3 DEF GoOn, OutboxInv, OutboxTypes
<1>5. \A f \in Dispatchers : f # d => dispatcher'[f] = dispatcher[f]
  BY DEF GoOn, OutboxInv, OutboxTypes
<1> QED
  BY <1>1, <1>2, <1>3, <1>4, <1>5 DEF Working

\* The work on a notice goes on.
LEMMA NoticeGoesOn ==
  ASSUME OutboxInv, NEW d \in Dispatchers, dispatcher[d].at \in NoticeSteps,
         NEW step \in NoticeSteps \ {"NOTICE_LISTED"}, GoOn(d, step),
         UNCHANGED <<event, notified, replied, doubts, outboxClock>>
  PROVE  OutboxInv'
<1>1. dispatcher[d].at # "REST" /\ step \in DispatcherSteps
  BY DEF NoticeSteps, DispatcherSteps
<1>2. /\ dispatcher' \in [Dispatchers -> {Resting} \union Working]
      /\ dispatcher'[d].at = step /\ dispatcher'[d].event = dispatcher[d].event
      /\ dispatcher'[d].since = dispatcher[d].since
      /\ \A f \in Dispatchers : f # d => dispatcher'[f] = dispatcher[f]
  BY <1>1, ReplyGoesOn
<1>3. OutboxTypes'
  BY <1>2 DEF OutboxInv, OutboxTypes
<1>4. dispatcher[d] # Resting
  BY <1>1, Workers DEF OutboxInv
<1>5. WorkIsInTime'
  BY <1>2, <1>4 DEF OutboxInv, WorkIsInTime, NoticeSteps, ReplySteps
<1>6. \A x : /\ ~Holds(d, x)' /\ ~Lists(d, x)' /\ ~HasSent(d, x)'
             /\ ~Holds(d, x) /\ ~Lists(d, x) /\ ~HasSent(d, x)
  BY <1>2 DEF Holds, Lists, HasSent, NoticeSteps
<1>7. \A f \in Dispatchers : \A x : f # d =>
        /\ Holds(f, x)' <=> Holds(f, x)
        /\ Lists(f, x)' <=> Lists(f, x)
        /\ HasSent(f, x)' <=> HasSent(f, x)
  BY <1>2 DEF Holds, Lists, HasSent
<1>8. ListsAreOld' /\ ClaimsExclude'
  BY <1>2, <1>6, <1>7 DEF OutboxInv, ListsAreOld, ClaimsExclude
<1>9. RepliesCounted' /\ NoticesCounted'
  BY <1>6, <1>7 DEF OutboxInv, RepliesCounted, NoticesCounted
<1> QED
  BY <1>3, <1>5, <1>8, <1>9 DEF OutboxInv

\* What a listed event is: of its kind, and no reply in the case of a notice.
LEMMA NoticeAtWork ==
  ASSUME OutboxInv, NEW d \in Dispatchers, dispatcher[d].at \in NoticeSteps
  PROVE  /\ dispatcher[d] \in Working /\ dispatcher[d] # Resting
         /\ dispatcher[d].event \in Notices /\ dispatcher[d].event \notin Replies
         /\ dispatcher[d].event \in Events
         /\ \A e : ~HasSent(d, e)
<1>1. dispatcher[d] \in Working /\ dispatcher[d] # Resting
  BY Workers DEF OutboxInv, NoticeSteps
<1>2. dispatcher[d].event \in Notices
  BY <1>1 DEF OutboxInv, WorkIsInTime
<1> QED
  BY <1>1, <1>2, OutboxAssumption DEF Events, HasSent, NoticeSteps

\* An event that is still as it was listed is not published: it is published
\* now, for the first time since the last doubt.
LEMMA PublishNoticeKeeps ==
  ASSUME OutboxInv, NEW d \in Dispatchers, PublishNotice(d)
  PROVE  OutboxInv'
<1> DEFINE e == dispatcher[d].event
<1>1. dispatcher[d].at = "NOTICE_LISTED" /\ dispatcher[d].at \in NoticeSteps
  BY DEF PublishNotice, At, NoticeSteps
<1>2. /\ dispatcher[d] # Resting /\ e \in Notices /\ e \notin Replies /\ e \in Events
      /\ \A x : ~HasSent(d, x)
  BY <1>1, NoticeAtWork
<1>3. \A x \in Replies : doubts[x] <= doubts[x]
  BY DEF OutboxInv, OutboxTypes, Events
<1>4. CASE StillAsSeen(d)
  <2>1. /\ event' = [event EXCEPT ![e].status = "PUBLISHED", ![e].attempts = @ + 1]
        /\ notified' = [notified EXCEPT ![e] = @ + 1]
    BY <1>4 DEF PublishNotice
  <2>2. event[e] \in EventRow /\ notified[e] \in Nat /\ doubts[e] \in Nat
    BY <1>2 DEF OutboxInv, OutboxTypes
  <2>3. event'[e] \in EventRow /\ event'[e].status = "PUBLISHED"
    BY <1>2, <2>1, <2>2 DEF OutboxInv, OutboxTypes, EventRow
  <2>4. event' \in [Events -> EventRow] /\ \A x \in Events : x # e => event'[x] = event[x]
    BY <2>1, <2>3 DEF OutboxInv, OutboxTypes
  <2>5. /\ notified' \in [Notices -> Nat] /\ notified'[e] = notified[e] + 1
        /\ \A x \in Notices : x # e => notified'[x] = notified[x]
    BY <1>2, <2>1, <2>2 DEF OutboxInv, OutboxTypes
  <2>6. event[e].status # "PUBLISHED"
    BY <1>1, <1>2, <1>4 DEF StillAsSeen, OutboxInv, WorkIsInTime, OpenStatuses
  <2>7. notified[e] <= doubts[e]
    BY <1>2, <2>6 DEF OutboxInv, NoticesCounted
  <2>8. NoticesCounted'
    <3> SUFFICES ASSUME NEW x \in Notices
                 PROVE  /\ notified'[x] <= 1 + doubts'[x]
                        /\ event'[x].status # "PUBLISHED" => notified'[x] <= doubts'[x]
      BY DEF NoticesCounted
    <3>1. CASE x = e
      BY <3>1, <2>2, <2>3, <2>5, <2>7 DEF PublishNotice
    <3>2. CASE x # e
      BY <3>2, <2>4, <2>5 DEF PublishNotice, OutboxInv, NoticesCounted, Events
    <3> QED
      BY <3>1, <3>2
  <2>9. \A x \in Replies : event'[x] = event[x]
    BY <1>2, <2>4 DEF Events
  <2>10. doubts' \in [Events -> Nat]
    BY DEF PublishNotice, OutboxInv, OutboxTypes
  <2> QED
    BY <1>2, <1>3, <2>4, <2>5, <2>8, <2>9, <2>10, RestKeeps DEF PublishNotice
<1>5. CASE ~StillAsSeen(d)
  <2>1. UNCHANGED <<event, notified, doubts>>
    BY <1>5 DEF PublishNotice
  <2>2. NoticesCounted'
    BY <2>1 DEF OutboxInv, NoticesCounted
  <2> QED
    BY <1>2, <1>3, <2>1, <2>2, RestKeeps DEF PublishNotice, OutboxInv, OutboxTypes
<1> QED
  BY <1>4, <1>5

LEMMA RetriesAreNat == Retries \in Nat /\ Lifetime \in Nat /\ Lease \in Nat /\ Lifetime < Lease
BY OutboxAssumption

LEMMA AfterFailureTypes ==
  ASSUME OutboxInv, NEW d \in Dispatchers, dispatcher[d] # Resting
  PROVE  /\ AfterFailure(d) \in EventRow
         /\ AfterFailure(d).status \in {"FAILED", "DEAD"}
<1>1. dispatcher[d] \in Working
  BY Workers DEF OutboxInv
<1>2. dispatcher[d].seen.attempts + 1 \in Nat /\ outboxClock \in Nat
  BY <1>1 DEF Working, EventRow, OutboxInv, OutboxTypes
<1>3. AfterFailure(d).status \in {"FAILED", "DEAD"}
  BY DEF AfterFailure
<1>4. outboxClock + (IF dispatcher[d].seen.attempts + 1 > Retries THEN 0 ELSE RetryDelay) \in Nat
  BY <1>2 DEF RetryDelay
<1>5. AfterFailure(d) \in EventRow
  BY <1>2, <1>4 DEF AfterFailure, EventRow
<1> QED
  BY <1>3, <1>5

\* A failure that is written over a published notice is a doubt.
LEMMA RecordNoticeFailureKeeps ==
  ASSUME OutboxInv, NEW d \in Dispatchers, RecordNoticeFailure(d)
  PROVE  OutboxInv'
<1> DEFINE e == dispatcher[d].event
<1>1. dispatcher[d].at \in NoticeSteps
  BY DEF RecordNoticeFailure, At, NoticeSteps
<1>2. /\ dispatcher[d] # Resting /\ e \in Notices /\ e \notin Replies /\ e \in Events
      /\ \A x : ~HasSent(d, x)
  BY <1>1, NoticeAtWork
<1>3. event' \in [Events -> EventRow] /\ \A x \in Events : x # e => event'[x] = event[x]
  BY <1>2, AfterFailureTypes DEF RecordNoticeFailure, OutboxInv, OutboxTypes
<1>4. /\ doubts' \in [Events -> Nat] /\ doubts'[e] = doubts[e] + 1
      /\ \A x \in Events : x # e => doubts'[x] = doubts[x]
  BY <1>2 DEF RecordNoticeFailure, OutboxInv, OutboxTypes
<1>5. NoticesCounted'
  <2> SUFFICES ASSUME NEW x \in Notices
               PROVE  /\ notified[x] <= 1 + doubts'[x]
                      /\ event'[x].status # "PUBLISHED" => notified[x] <= doubts'[x]
    BY DEF NoticesCounted, RecordNoticeFailure
  <2>1. notified[x] \in Nat /\ doubts[x] \in Nat /\ notified[x] <= 1 + doubts[x]
    BY DEF OutboxInv, NoticesCounted, OutboxTypes, Events
  <2>2. CASE x = e
    BY <2>1, <2>2, <1>4
  <2>3. CASE x # e
    BY <2>3, <1>3, <1>4 DEF OutboxInv, NoticesCounted, Events
  <2> QED
    BY <2>2, <2>3
<1>6. \A x \in Replies : event'[x] = event[x] /\ doubts[x] <= doubts'[x]
  BY <1>2, <1>3, <1>4 DEF Events, OutboxInv, OutboxTypes
<1> QED
  BY <1>2, <1>3, <1>4, <1>5, <1>6, RestKeeps DEF RecordNoticeFailure, OutboxInv, OutboxTypes

\* A listed reply is claimed when it is still as it was listed; then nobody
\* holds it, and it is hidden for longer than its new holder lives.
LEMMA ClaimReplyKeeps ==
  ASSUME OutboxInv, NEW d \in Dispatchers, ClaimReply(d)
  PROVE  OutboxInv'
<1> DEFINE e == dispatcher[d].event
<1>1. dispatcher[d].at = "REPLY_LISTED"
  BY DEF ClaimReply, At
<1>2. dispatcher[d] \in Working /\ dispatcher[d] # Resting
  BY <1>1, Workers DEF OutboxInv
<1>3. e \in Replies /\ e \in Events /\ dispatcher[d].seen.status \in OpenStatuses
  BY <1>1, <1>2 DEF OutboxInv, WorkIsInTime, ReplySteps, Events
<1>4. Lists(d, e) /\ \A x : ~HasSent(d, x) /\ ~Holds(d, x)
  BY <1>1 DEF Lists, HasSent, Holds
<1>5. CASE StillAsSeen(d)
  <2>1. event' = [event EXCEPT ![e] =
             [status |-> "FAILED", attempts |-> event[e].attempts + 1,
              availableAt |-> outboxClock + Lease]]
        /\ GoOn(d, "REPLY_CLAIMED")
    BY <1>5 DEF ClaimReply
  <2>2. /\ dispatcher' \in [Dispatchers -> {Resting} \union Working]
        /\ dispatcher'[d].at = "REPLY_CLAIMED" /\ dispatcher'[d].event = e
        /\ dispatcher'[d].since = dispatcher[d].since
        /\ \A f \in Dispatchers : f # d => dispatcher'[f] = dispatcher[f]
    BY <1>1, <2>1, ReplyGoesOn DEF DispatcherSteps
  <2>3. event[e] \in EventRow /\ outboxClock \in Nat
    BY <1>3 DEF OutboxInv, OutboxTypes
  <2>4. /\ event'[e] = [status |-> "FAILED", attempts |-> event[e].attempts + 1,
                        availableAt |-> outboxClock + Lease]
        /\ \A x \in Events : x # e => event'[x] = event[x]
    BY <1>3, <2>1 DEF OutboxInv, OutboxTypes
  <2>5. event'[e] \in EventRow /\ event[e].attempts < event'[e].attempts
    BY <2>3, <2>4, RetriesAreNat DEF EventRow
  <2>6. OutboxTypes'
    <3>1. event' \in [Events -> EventRow]
      BY <2>1, <2>4, <2>5 DEF OutboxInv, OutboxTypes
    <3> QED
      BY <2>2, <3>1 DEF ClaimReply, OutboxInv, OutboxTypes
  <2>7. WorkIsInTime'
    BY <1>2, <1>3, <2>2 DEF ClaimReply, OutboxInv, WorkIsInTime, ReplySteps, NoticeSteps
  <2>8. \A f \in Dispatchers : ~Holds(f, e)
    <3> SUFFICES ASSUME NEW f \in Dispatchers, Holds(f, e) PROVE FALSE
      OBVIOUS
    <3>1. f # d
      BY <1>4
    <3>2. dispatcher[d].seen.attempts < event[e].attempts
      BY <1>3, <1>4, <3>1 DEF OutboxInv, ClaimsExclude
    <3> QED
      BY <1>5, <2>3, <3>2 DEF StillAsSeen, EventRow
  <2>9. \A x : ~Lists(d, x)' /\ ~HasSent(d, x)' /\ (Holds(d, x)' <=> x = e)
    BY <2>2 DEF Lists, HasSent, Holds
  <2>10. \A f \in Dispatchers : \A x : f # d =>
           /\ Holds(f, x)' <=> Holds(f, x)
           /\ Lists(f, x)' <=> Lists(f, x)
           /\ HasSent(f, x)' <=> HasSent(f, x)
    BY <2>2 DEF Holds, Lists, HasSent
  <2>11. \A f \in Dispatchers : f # d /\ Lists(f, e) =>
           dispatcher[f].seen.attempts < event'[e].attempts
    <3> SUFFICES ASSUME NEW f \in Dispatchers, Lists(f, e)
                 PROVE  dispatcher[f].seen.attempts < event'[e].attempts
      OBVIOUS
    <3>1. dispatcher[f].seen.attempts <= event[e].attempts
      BY <1>3 DEF OutboxInv, ListsAreOld
    <3>2. dispatcher[f] \in Working
      BY RestIsIdle, Workers DEF OutboxInv
    <3>3. dispatcher[f].seen.attempts \in Nat
      BY <3>2 DEF Working, EventRow
    <3> QED
      BY <2>3, <2>4, <3>1, <3>3 DEF EventRow
  <2>12. \A x \in Replies : x \in Events
    BY DEF Events
  <2>13. ListsAreOld'
    <3> SUFFICES ASSUME NEW x \in Replies, NEW f \in Dispatchers, Lists(f, x)'
                 PROVE  dispatcher'[f].seen.attempts <= event'[x].attempts
      BY DEF ListsAreOld
    <3>1. f # d /\ dispatcher'[f] = dispatcher[f] /\ Lists(f, x)
      BY <2>2, <2>9, <2>10
    <3>2. CASE x = e
      <4>1. dispatcher[f].seen.attempts < event'[e].attempts
        BY <2>11, <3>1, <3>2
      <4>2. dispatcher[f] \in Working
        BY <3>1, RestIsIdle, Workers DEF OutboxInv
      <4> QED
        BY <2>5, <3>1, <3>2, <4>1, <4>2 DEF Working, EventRow
    <3>3. CASE x # e
      BY <2>4, <2>12, <3>1, <3>3 DEF OutboxInv, ListsAreOld
    <3> QED
      BY <3>2, <3>3
  <2>14. ClaimsExclude'
    <3> SUFFICES ASSUME NEW x \in Replies, NEW h \in Dispatchers, Holds(h, x)'
                 PROVE  /\ event'[x].status = "FAILED"
                        /\ dispatcher'[h].since + Lifetime < event'[x].availableAt
                        /\ \A f \in Dispatchers : f # h =>
                             ~Holds(f, x)' /\ (Lists(f, x)' => dispatcher'[f].seen.attempts < event'[x].attempts)
      BY DEF ClaimsExclude
    <3>1. CASE x = e
      <4>1. h = d
        BY <2>8, <2>10, <3>1
      <4>2. dispatcher[d].since \in Nat /\ dispatcher[d].since <= outboxClock
        BY <1>2 DEF OutboxInv, WorkIsInTime, Working
      <4>3. dispatcher'[h].since + Lifetime < event'[x].availableAt
        BY <2>2, <2>3, <2>4, <3>1, <4>1, <4>2, RetriesAreNat
      <4> QED
        BY <2>2, <2>4, <2>8, <2>10, <2>11, <3>1, <4>1, <4>3
    <3>2. CASE x # e
      <4>1. h # d /\ Holds(h, x) /\ dispatcher'[h] = dispatcher[h] /\ event'[x] = event[x]
        BY <2>2, <2>4, <2>9, <2>10, <2>12, <3>2
      <4> QED
        BY <2>2, <2>9, <2>10, <3>2, <4>1 DEF OutboxInv, ClaimsExclude
    <3> QED
      BY <3>1, <3>2
  <2>15. RepliesCounted'
    <3> SUFFICES ASSUME NEW x \in Replies
                 PROVE  /\ replied[x] <= 1 + doubts[x]
                        /\ event'[x].status # "PUBLISHED" /\ (\A f \in Dispatchers : ~HasSent(f, x)') =>
                             replied[x] <= doubts[x]
      BY DEF RepliesCounted, ClaimReply
    <3>1. CASE x = e
      <4>1. event[e].status # "PUBLISHED"
        BY <1>3, <1>5 DEF StillAsSeen, OpenStatuses
      <4>2. \A f \in Dispatchers : ~HasSent(f, e)
        BY <2>8 DEF Holds, HasSent
      <4> QED
        BY <1>3, <3>1, <4>1, <4>2 DEF OutboxInv, RepliesCounted
    <3>2. CASE x # e
      BY <1>4, <2>4, <2>10, <2>12, <3>2 DEF OutboxInv, RepliesCounted
    <3> QED
      BY <3>1, <3>2
  <2>16. NoticesCounted'
    <3>1. \A x \in Notices : event'[x] = event[x]
      BY <1>3, <2>4, OutboxAssumption DEF Events
    <3> QED
      BY <3>1 DEF ClaimReply, OutboxInv, NoticesCounted
  <2> QED
    BY <2>6, <2>7, <2>13, <2>14, <2>15, <2>16 DEF OutboxInv
<1>6. CASE ~StillAsSeen(d)
  <2>1. Rest(d) /\ UNCHANGED event
    BY <1>6 DEF ClaimReply
  <2>2. \A x \in Replies : doubts[x] <= doubts[x]
    BY DEF OutboxInv, OutboxTypes, Events
  <2>3. UNCHANGED <<notified, replied, doubts, outboxClock>>
    BY DEF ClaimReply
  <2>4. NoticesCounted'
    BY <2>1, <2>3 DEF OutboxInv, NoticesCounted
  <2>5. event' \in [Events -> EventRow] /\ doubts' \in [Events -> Nat] /\ notified' \in [Notices -> Nat]
    BY <2>1, <2>3 DEF OutboxInv, OutboxTypes
  <2> QED
    BY <1>4, <2>1, <2>2, <2>3, <2>4, <2>5, RestKeeps
<1> QED
  BY <1>5, <1>6

\* The one holder of a reply sends it.
LEMMA SendReplyKeeps ==
  ASSUME OutboxInv, NEW d \in Dispatchers, SendReply(d)
  PROVE  OutboxInv'
<1> DEFINE e == dispatcher[d].event
<1>1. dispatcher[d].at = "REPLY_CLAIMED"
  BY DEF SendReply, At
<1>2. dispatcher[d] \in Working /\ dispatcher[d] # Resting
  BY <1>1, Workers DEF OutboxInv
<1>3. e \in Replies /\ e \in Events
  BY <1>1, <1>2 DEF OutboxInv, WorkIsInTime, ReplySteps, Events
<1>4. Holds(d, e) /\ \A x : ~HasSent(d, x)
  BY <1>1 DEF HasSent, Holds
<1>5. event[e].status = "FAILED" /\ \A f \in Dispatchers : f # d => ~Holds(f, e)
  BY <1>3, <1>4 DEF OutboxInv, ClaimsExclude
<1>6. \A f \in Dispatchers : ~HasSent(f, e)
  BY <1>4, <1>5 DEF Holds, HasSent
<1>7. replied[e] <= doubts[e] /\ replied[e] \in Nat /\ doubts[e] \in Nat
  BY <1>3, <1>5, <1>6 DEF OutboxInv, RepliesCounted, OutboxTypes
<1>8. UNCHANGED <<event, notified, outboxClock>>
  BY DEF SendReply
<1>9. PICK step \in {"REPLY_SENT", "REPLY_FAILED"} : GoOn(d, step)
  BY DEF SendReply
<1>10. /\ dispatcher' \in [Dispatchers -> {Resting} \union Working]
       /\ dispatcher'[d].at = step /\ dispatcher'[d].event = e
       /\ dispatcher'[d].since = dispatcher[d].since
       /\ \A f \in Dispatchers : f # d => dispatcher'[f] = dispatcher[f]
  BY <1>1, <1>9, ReplyGoesOn DEF DispatcherSteps
<1>11. /\ replied' \in [Replies -> Nat] /\ doubts' \in [Events -> Nat]
       /\ \A x \in Events : x # e => doubts'[x] = doubts[x]
       /\ \A x \in Replies : x # e => replied'[x] = replied[x]
       /\ replied'[e] <= 1 + doubts'[e]
       /\ step = "REPLY_FAILED" => replied'[e] <= doubts'[e]
       /\ \A x \in Notices : doubts'[x] = doubts[x]
  <2>1. \A x \in Notices : x # e /\ x \in Events
    BY <1>3, OutboxAssumption DEF Events
  <2>2. step = "REPLY_SENT" => GoOn(d, "REPLY_SENT") /\ dispatcher'[d].at # "REPLY_FAILED"
    BY <1>9, <1>10
  <2>3. step = "REPLY_FAILED" => dispatcher'[d].at # "REPLY_SENT"
    BY <1>10
  <2>4. CASE replied' = [replied EXCEPT ![e] = @ + 1] /\ GoOn(d, "REPLY_SENT") /\ UNCHANGED doubts
    <3>1. step = "REPLY_SENT"
      <4>1. dispatcher'[d].at = "REPLY_SENT"
        BY <1>1, <2>4, ReplyGoesOn DEF DispatcherSteps
      <4> QED
        BY <1>10, <4>1
    <3> QED
      BY <1>3, <1>7, <2>4, <3>1 DEF OutboxInv, OutboxTypes
  <2>5. CASE replied' = [replied EXCEPT ![e] = @ + 1] /\ doubts' = [doubts EXCEPT ![e] = @ + 1]
    BY <1>3, <1>7, <2>1, <2>5 DEF OutboxInv, OutboxTypes
  <2>6. CASE UNCHANGED <<replied, doubts>>
    BY <1>3, <1>7, <2>6 DEF OutboxInv, OutboxTypes
  <2> QED
    BY <2>4, <2>5, <2>6 DEF SendReply
<1>12. OutboxTypes'
  BY <1>8, <1>10, <1>11 DEF OutboxInv, OutboxTypes
<1>13. WorkIsInTime'
  BY <1>2, <1>3, <1>8, <1>10 DEF OutboxInv, WorkIsInTime, ReplySteps, NoticeSteps
<1>14. \A x : /\ ~Lists(d, x) /\ ~Lists(d, x)'
              /\ Holds(d, x)' <=> Holds(d, x)
              /\ HasSent(d, x)' <=> (x = e /\ step = "REPLY_SENT")
  BY <1>1, <1>10 DEF Lists, HasSent, Holds
<1>15. \A f \in Dispatchers : \A x : f # d =>
         /\ Holds(f, x)' <=> Holds(f, x)
         /\ Lists(f, x)' <=> Lists(f, x)
         /\ HasSent(f, x)' <=> HasSent(f, x)
  BY <1>10 DEF Holds, Lists, HasSent
<1>16. ListsAreOld'
  BY <1>8, <1>10, <1>14, <1>15 DEF OutboxInv, ListsAreOld
<1>17. ClaimsExclude'
  BY <1>8, <1>10, <1>14, <1>15 DEF OutboxInv, ClaimsExclude
<1>18. RepliesCounted'
  <2> SUFFICES ASSUME NEW x \in Replies
               PROVE  /\ replied'[x] <= 1 + doubts'[x]
                      /\ event[x].status # "PUBLISHED" /\ (\A f \in Dispatchers : ~HasSent(f, x)') =>
                           replied'[x] <= doubts'[x]
    BY <1>8 DEF RepliesCounted
  <2>1. CASE x = e
    BY <1>11, <1>14, <2>1
  <2>2. CASE x # e
    BY <1>4, <1>11, <1>14, <1>15, <2>2 DEF OutboxInv, RepliesCounted, Events
  <2> QED
    BY <2>1, <2>2
<1>19. NoticesCounted'
  BY <1>8, <1>11 DEF OutboxInv, NoticesCounted
<1> QED
  BY <1>12, <1>13, <1>16, <1>17, <1>18, <1>19 DEF OutboxInv

\* The one holder of a reply writes how it went: published when it has left, and
\* otherwise no more than the doubts account for.
LEMMA RecordReplyKeeps ==
  ASSUME OutboxInv, NEW d \in Dispatchers, RecordReply(d)
  PROVE  OutboxInv'
<1> DEFINE e == dispatcher[d].event
<1>1. dispatcher[d].at \in {"REPLY_SENT", "REPLY_FAILED"}
  BY DEF RecordReply
<1>2. dispatcher[d] \in Working /\ dispatcher[d] # Resting
  BY <1>1, Workers DEF OutboxInv
<1>3. e \in Replies /\ e \in Events
  BY <1>1, <1>2 DEF OutboxInv, WorkIsInTime, ReplySteps, Events
<1>4. Holds(d, e) /\ \A x : x # e => ~HasSent(d, x)
  BY <1>1 DEF HasSent, Holds
<1>5. \A f \in Dispatchers : f # d => ~Holds(f, e)
  BY <1>3, <1>4 DEF OutboxInv, ClaimsExclude
<1>6. AfterFailure(d) \in EventRow /\ AfterFailure(d).status \in {"FAILED", "DEAD"}
  BY <1>2, AfterFailureTypes
<1>7. /\ event'[e] = [event[e] EXCEPT
             !.status = IF At(d, "REPLY_SENT") THEN "PUBLISHED" ELSE AfterFailure(d).status,
             !.availableAt = IF At(d, "REPLY_SENT") THEN @ ELSE AfterFailure(d).availableAt]
      /\ \A x \in Events : x # e => event'[x] = event[x]
  BY <1>3 DEF RecordReply, OutboxInv, OutboxTypes
<1>8. event[e] \in EventRow
  BY <1>3 DEF OutboxInv, OutboxTypes
<1>9. /\ event'[e] \in EventRow /\ event'[e].attempts = event[e].attempts
      /\ event'[e].status # "PUBLISHED" => dispatcher[d].at # "REPLY_SENT"
  <2>1. CASE dispatcher[d].at = "REPLY_SENT"
    BY <1>7, <1>8, <2>1 DEF At, EventRow
  <2>2. CASE dispatcher[d].at # "REPLY_SENT"
    <3>1. event'[e] = [event[e] EXCEPT !.status = AfterFailure(d).status,
                                       !.availableAt = AfterFailure(d).availableAt]
      BY <1>7, <2>2 DEF At
    <3>2. AfterFailure(d).status \in {"PENDING", "FAILED", "PUBLISHED", "DEAD"}
          /\ AfterFailure(d).availableAt \in Nat
      BY <1>6 DEF EventRow
    <3> QED
      BY <1>8, <2>2, <3>1, <3>2 DEF EventRow
  <2> QED
    BY <2>1, <2>2
<1>10. /\ dispatcher'[d] = Resting
       /\ \A f \in Dispatchers : f # d => dispatcher'[f] = dispatcher[f]
  BY DEF RecordReply, Rest, OutboxInv, OutboxTypes
<1>11. UNCHANGED <<notified, replied, doubts, outboxClock>>
  BY DEF RecordReply
<1>12. OutboxTypes'
  <2>1. event' \in [Events -> EventRow]
    BY <1>7, <1>9 DEF RecordReply, OutboxInv, OutboxTypes
  <2>2. dispatcher' \in [Dispatchers -> {Resting} \union Working]
    BY DEF RecordReply, Rest, OutboxInv, OutboxTypes
  <2> QED
    BY <1>11, <2>1, <2>2 DEF OutboxInv, OutboxTypes
<1>13. WorkIsInTime'
  BY <1>10, <1>11 DEF OutboxInv, WorkIsInTime
<1>14. \A x : ~Holds(d, x)' /\ ~Lists(d, x)' /\ ~HasSent(d, x)' /\ ~Lists(d, x)
  BY <1>1, <1>10 DEF Holds, Lists, HasSent, Resting
<1>15. \A f \in Dispatchers : \A x : f # d =>
         /\ Holds(f, x)' <=> Holds(f, x)
         /\ Lists(f, x)' <=> Lists(f, x)
         /\ HasSent(f, x)' <=> HasSent(f, x)
  BY <1>10 DEF Holds, Lists, HasSent
<1>16. \A x \in Replies : event'[x].attempts = event[x].attempts
  BY <1>7, <1>9 DEF Events
<1>17. ListsAreOld'
  BY <1>10, <1>14, <1>15, <1>16 DEF OutboxInv, ListsAreOld
<1>18. ClaimsExclude'
  <2> SUFFICES ASSUME NEW x \in Replies, NEW h \in Dispatchers, Holds(h, x)'
               PROVE  /\ event'[x].status = "FAILED"
                      /\ dispatcher'[h].since + Lifetime < event'[x].availableAt
                      /\ \A f \in Dispatchers : f # h =>
                           ~Holds(f, x)' /\ (Lists(f, x)' => dispatcher'[f].seen.attempts < event'[x].attempts)
    BY DEF ClaimsExclude
  <2>1. h # d /\ Holds(h, x) /\ dispatcher'[h] = dispatcher[h]
    BY <1>10, <1>14, <1>15
  <2>2. x # e /\ event'[x] = event[x]
    BY <1>5, <1>7, <2>1 DEF Events
  <2> QED
    BY <1>10, <1>14, <1>15, <2>1, <2>2 DEF OutboxInv, ClaimsExclude
<1>19. RepliesCounted'
  <2> SUFFICES ASSUME NEW x \in Replies
               PROVE  /\ replied[x] <= 1 + doubts[x]
                      /\ event'[x].status # "PUBLISHED" /\ (\A f \in Dispatchers : ~HasSent(f, x)') =>
                           replied[x] <= doubts[x]
    BY <1>11 DEF RepliesCounted
  <2>1. CASE x = e
    <3>1. event[e].status = "FAILED"
      BY <1>3, <1>4 DEF OutboxInv, ClaimsExclude
    <3>2. \A f \in Dispatchers : f # d => ~HasSent(f, e)
      BY <1>5 DEF Holds, HasSent
    <3>3. dispatcher[d].at # "REPLY_SENT" => \A f \in Dispatchers : ~HasSent(f, e)
      BY <3>2 DEF HasSent
    <3> QED
      BY <1>3, <1>9, <2>1, <3>1, <3>3 DEF OutboxInv, RepliesCounted
  <2>2. CASE x # e
    BY <1>4, <1>7, <1>15, <2>2 DEF OutboxInv, RepliesCounted, Events
  <2> QED
    BY <2>1, <2>2
<1>20. NoticesCounted'
  <2>1. \A x \in Notices : event'[x] = event[x]
    BY <1>3, <1>7, OutboxAssumption DEF Events
  <2> QED
    BY <1>11, <2>1 DEF OutboxInv, NoticesCounted
<1> QED
  BY <1>12, <1>13, <1>17, <1>18, <1>19, <1>20 DEF OutboxInv

LEMMA DieKeeps ==
  ASSUME OutboxInv, NEW d \in Dispatchers, Die(d)
  PROVE  OutboxInv'
<1> DEFINE e == dispatcher[d].event
<1>1. dispatcher[d] # Resting /\ dispatcher[d] \in Working
  BY Workers DEF Die, OutboxInv
<1>2. e \in Events
  BY <1>1 DEF Working
<1>3. /\ doubts' \in [Events -> Nat]
      /\ \A x \in Events : doubts[x] <= doubts'[x]
      /\ \A x \in Events : HasSent(d, x) => doubts[x] < doubts'[x]
  BY <1>2 DEF Die, At, HasSent, OutboxInv, OutboxTypes
<1>4. NoticesCounted'
  <2> SUFFICES ASSUME NEW x \in Notices
               PROVE  /\ notified[x] <= 1 + doubts'[x]
                      /\ event[x].status # "PUBLISHED" => notified[x] <= doubts'[x]
    BY DEF NoticesCounted, Die
  <2>1. notified[x] \in Nat /\ doubts[x] \in Nat /\ doubts'[x] \in Nat /\ doubts[x] <= doubts'[x]
    BY <1>3 DEF OutboxInv, OutboxTypes, Events
  <2> QED
    BY <2>1 DEF OutboxInv, NoticesCounted
<1>5. event' \in [Events -> EventRow] /\ notified' \in [Notices -> Nat]
  BY DEF Die, OutboxInv, OutboxTypes
<1> QED
  BY <1>3, <1>4, <1>5, RestKeeps DEF Die, Events

LEMMA RecordDeliveryKeeps ==
  ASSUME OutboxInv, NEW d \in Dispatchers, RecordDelivery(d)
  PROVE  OutboxInv'
<1>1. \A x : ~HasSent(d, x)
  BY DEF RecordDelivery, HasSent
<1>2. \A x \in Replies : doubts[x] <= doubts[x]
  BY DEF OutboxInv, OutboxTypes, Events
<1>3. NoticesCounted'
  BY DEF RecordDelivery, OutboxInv, NoticesCounted
<1> QED
  BY <1>1, <1>2, <1>3, RestKeeps DEF RecordDelivery, OutboxInv, OutboxTypes

\* Time passes only while every dispatcher has some left.
LEMMA TickKeeps ==
  ASSUME OutboxInv, OutboxTick
  PROVE  OutboxInv'
<1>1. outboxClock' = outboxClock + 1 /\ outboxClock \in Nat
      /\ UNCHANGED <<event, dispatcher, notified, replied, doubts>>
  BY DEF OutboxTick, OutboxInv, OutboxTypes
<1>2. OutboxTypes'
  BY <1>1 DEF OutboxInv, OutboxTypes
<1>3. \A d \in Dispatchers : dispatcher[d] # Resting =>
        /\ dispatcher[d].since \in Nat
        /\ outboxClock < dispatcher[d].since + Lifetime
  BY Workers DEF OutboxTick, OutboxInv, Working
<1>4. WorkIsInTime'
  BY <1>1, <1>3, RetriesAreNat DEF OutboxInv, WorkIsInTime
<1>5. ListsAreOld' /\ ClaimsExclude' /\ RepliesCounted' /\ NoticesCounted'
  BY <1>1 DEF OutboxInv, ListsAreOld, ClaimsExclude, RepliesCounted, NoticesCounted, Holds, Lists, HasSent
<1> QED
  BY <1>2, <1>4, <1>5 DEF OutboxInv

\* A step that leaves all but the deliveries alone.
LEMMA DeliveriesApart ==
  ASSUME OutboxInv, UNCHANGED <<event, dispatcher, notified, replied, doubts, outboxClock>>
  PROVE  OutboxInv'
BY DEF OutboxInv, OutboxTypes, WorkIsInTime, ListsAreOld, ClaimsExclude, RepliesCounted,
       NoticesCounted, Holds, Lists, HasSent

\* Every step keeps the strengthened invariant.
LEMMA OutboxStepInvariant == OutboxInv /\ [OutboxNext]_outboxVars => OutboxInv'
<1> SUFFICES ASSUME OutboxInv, [OutboxNext]_outboxVars PROVE OutboxInv'
  OBVIOUS
<1>1. ASSUME NEW d \in Dispatchers, NEW e \in Events, ListEvent(d, e) PROVE OutboxInv'
  <2>1. CASE e \in Replies
    BY <1>1, <2>1, TakeUpKeeps DEF ListEvent
  <2>2. CASE e \notin Replies
    BY <1>1, <2>2, TakeUpKeeps DEF ListEvent, Events
  <2> QED
    BY <2>1, <2>2
<1>2. ASSUME NEW d \in Dispatchers, NEW e \in Notices, ListDelivery(d, e) PROVE OutboxInv'
  BY <1>2, TakeUpKeeps DEF ListDelivery, Events
<1>3. ASSUME NEW d \in Dispatchers, FailNotice(d) PROVE OutboxInv'
  BY <1>3, NoticeGoesOn DEF FailNotice, At, NoticeSteps
<1>4. ASSUME NEW d \in Dispatchers, SendDelivery(d) PROVE OutboxInv'
  BY <1>4, NoticeGoesOn DEF SendDelivery, At, NoticeSteps
<1>5. ASSUME NEW e \in Notices, EnsureDelivery(e) PROVE OutboxInv'
  BY <1>5, DeliveriesApart DEF EnsureDelivery
<1>6. ASSUME UNCHANGED outboxVars PROVE OutboxInv'
  BY <1>6, DeliveriesApart DEF outboxVars
<1> QED
  BY <1>1, <1>2, <1>3, <1>4, <1>5, <1>6, PublishNoticeKeeps, RecordNoticeFailureKeeps,
     RecordDeliveryKeeps, ClaimReplyKeeps, SendReplyKeeps, RecordReplyKeeps, DieKeeps, TickKeeps
  DEF OutboxNext

\* A chat gets a reply once, and again only for an attempt that ended without
\* the system knowing how; a notice is turned into notifications once, and again
\* only for a failure written over it (zalo.ts:590-641, dispatch.ts:55-125).  It
\* rests on a claim outlasting its holder: Lifetime < Lease.
THEOREM NobodyIsToldTwice == OutboxSpec => []MessagesAreNotRepeated
<1>1. OutboxInv => MessagesAreNotRepeated
  BY DEF OutboxInv, RepliesCounted, NoticesCounted, MessagesAreNotRepeated
<1> QED
  BY OutboxInitInvariant, OutboxStepInvariant, <1>1, PTL DEF OutboxSpec

-----------------------------------------------------------------------------
(* ZaloAssistant, for every set of shops, users, groups, accounts, codes,  *)
(* messages and webhook calls.                                             *)

\* A call that has begun.
HandlingMessage ==
  [at: {"READ", "BOUND", "ASK", "LOCKED", "SERVE", "SERVED", "QUEUED"}, message: ChatMessages,
   chat: Chats, sender: Senders, text: Texts, user: SUBSET Members]

\* At most one of them.
AtMostOne(users) == \A u, v \in users : u = v

\* A call handles what its message says; a reply is queued before its stage; and
\* the one user found for a call is of the shop of its group, and its sender stood
\* for them.
UserIsFit(d) ==
  /\ \A u \in call[d].user : ShopOf[u] \in groupOf[call[d].chat]
  /\ call[d].user \subseteq stood[call[d].message]
  /\ AtMostOne(call[d].user)

CallsKnowTheirMessage ==
  \A d \in Deliveries : call[d] # NoCall =>
    /\ said[call[d].message] =
         {[chat |-> call[d].chat, sender |-> call[d].sender, text |-> call[d].text]}
    /\ call[d].at = "QUEUED" => zaloReply[call[d].message] # {}
    /\ call[d].at = "SERVE" => UserIsFit(d)

OneUserEach == \A z \in Senders : AtMostOne(identified[z])

\* Who a sender stands for now is among those they stood for since their messages came.
SendersStand ==
  \A m \in ChatMessages : \A msg \in said[m] : identified[msg.sender] \subseteq stood[m]

FitlyServed(m) ==
  /\ said[m] = {} => served[m] = {}
  /\ served[m] \subseteq stood[m]
  /\ \A msg \in said[m] :
       /\ \A u \in served[m] : ShopOf[u] \in groupOf[msg.chat]
       /\ msg.text.kind = "MONEY" => AtMostOne(served[m])

ServedAtHome == \A m \in ChatMessages : FitlyServed(m)

ZaloInv ==
  /\ ZaloTypeOK
  /\ CallsKnowTheirMessage
  /\ Apart(identified)
  /\ OneUserEach
  /\ SendersStand
  /\ ServedAtHome
  /\ ReceiptsMeanReplies

-----------------------------------------------------------------------------
LEMMA HandlingIsACall == \A k \in HandlingMessage : k # NoCall
BY DEF HandlingMessage, NoCall

LEMMA ZaloCallKinds ==
  ASSUME ZaloTypeOK, NEW d \in Deliveries
  PROVE  call[d] = NoCall \/ call[d] \in HandlingMessage
BY DEF ZaloTypeOK, HandlingMessage

\* A call at a stage has begun.
LEMMA StagesAreHandled ==
  ASSUME ZaloTypeOK, NEW d \in Deliveries, call[d].at # "NONE"
  PROVE  call[d] \in HandlingMessage /\ call[d] # NoCall
<1>1. NoCall.at = "NONE"
  BY DEF NoCall
<1> QED
  BY <1>1, ZaloCallKinds

LEMMA ZaloInitInvariant == ZaloInit => ZaloInv
<1> SUFFICES ASSUME ZaloInit PROVE ZaloInv
  OBVIOUS
<1>1. ZaloTypeOK
  <2>1. groupOf \in [Chats -> SUBSET ChatShops]
    BY DEF ZaloInit
  <2>2. identified \in [Senders -> SUBSET Members]
    BY DEF ZaloInit
  <2> QED
    BY <2>1, <2>2 DEF ZaloInit, ZaloTypeOK
<1>2. CallsKnowTheirMessage
  BY DEF ZaloInit, CallsKnowTheirMessage
<1>3. OneUserEach
  BY DEF ZaloInit, OneUserEach, AtMostOne
<1>4. Apart(identified) /\ SendersStand /\ ServedAtHome /\ ReceiptsMeanReplies
  BY DEF ZaloInit, SendersStand, ServedAtHome, FitlyServed, AtMostOne, ReceiptsMeanReplies
<1> QED
  BY <1>1, <1>2, <1>3, <1>4 DEF ZaloInv

-----------------------------------------------------------------------------
\* A call that ends takes nothing away, and its receipt needs its reply.
LEMMA CallOverKeeps ==
  ASSUME ZaloInv, NEW d \in Deliveries, CallOver(d),
         UNCHANGED <<groupCode, userToken, groupOf, identified, said, stood, served, zaloReply>>,
         receipt' \subseteq ChatMessages, \A m \in receipt' : zaloReply[m] # {}
  PROVE  ZaloInv'
<1>1. \A c \in Deliveries : call'[c] = NoCall \/ call'[c] = call[c]
  BY DEF CallOver, ZaloInv, ZaloTypeOK
<1>2. call' \in [Deliveries -> {NoCall} \union HandlingMessage]
  BY DEF CallOver, ZaloInv, ZaloTypeOK, HandlingMessage
<1>3. ZaloTypeOK'
  BY <1>2 DEF ZaloInv, ZaloTypeOK, HandlingMessage
<1>4. CallsKnowTheirMessage'
  BY <1>1 DEF ZaloInv, CallsKnowTheirMessage, UserIsFit
<1> QED
  BY <1>3, <1>4 DEF ZaloInv, Apart, OneUserEach, SendersStand, ServedAtHome, FitlyServed,
                    ReceiptsMeanReplies

\* A step that changes neither calls, messages nor groups, but codes, tokens or
\* the ends of bindings.
LEMMA OutsideKeeps ==
  ASSUME ZaloInv, UNCHANGED <<groupOf, said, stood, served, zaloReply, receipt, call>>,
         ZaloTypeOK', \A z \in Senders : identified'[z] \subseteq identified[z]
  PROVE  ZaloInv'
<1>1. CallsKnowTheirMessage'
  BY DEF ZaloInv, CallsKnowTheirMessage, UserIsFit
<1>2. Apart(identified)' /\ OneUserEach'
  BY DEF ZaloInv, Apart, OneUserEach, AtMostOne
<1>3. SendersStand'
  <2> SUFFICES ASSUME NEW m \in ChatMessages, NEW msg \in said[m]
               PROVE  identified'[msg.sender] \subseteq stood[m]
    BY DEF SendersStand
  <2>1. msg.sender \in Senders
    BY DEF ZaloInv, ZaloTypeOK, GroupMessage
  <2> QED
    BY <2>1 DEF ZaloInv, SendersStand
<1>4. ServedAtHome' /\ ReceiptsMeanReplies'
  BY DEF ZaloInv, ServedAtHome, FitlyServed, ReceiptsMeanReplies
<1> QED
  BY <1>1, <1>2, <1>3, <1>4 DEF ZaloInv

LEMMA CreateGroupCodeKeeps ==
  ASSUME ZaloInv, NEW c \in GroupCodes, NEW home \in ChatShops, CreateGroupCode(c, home)
  PROVE  ZaloInv'
<1> DEFINE Row == [state: {"OPEN", "CONSUMED"}, shop: ChatShops]
<1>1. \A x \in GroupCodes : groupCode[x] = Unused \/ groupCode[x] \in Row
  BY DEF ZaloInv, ZaloTypeOK
<1>2. \A x \in GroupCodes : groupCode'[x] = Unused \/ groupCode'[x] \in Row
  <2> SUFFICES ASSUME NEW x \in GroupCodes
               PROVE  groupCode'[x] = Unused \/ groupCode'[x] \in Row
    OBVIOUS
  <2>1. CASE x = c
    BY <2>1 DEF CreateGroupCode
  <2>2. CASE x # c /\ groupCode[x] \in Row
    BY <2>2 DEF CreateGroupCode
  <2>3. CASE x # c /\ groupCode[x] = Unused
    BY <2>3 DEF CreateGroupCode, StillOpen, Unused
  <2> QED
    BY <1>1, <2>1, <2>2, <2>3
<1>3. groupCode' \in [GroupCodes -> {Unused} \union Row]
  BY <1>2 DEF CreateGroupCode
<1>4. ZaloTypeOK'
  BY <1>3 DEF CreateGroupCode, ZaloInv, ZaloTypeOK
<1> QED
  BY <1>4, OutsideKeeps DEF CreateGroupCode

LEMMA CreateUserTokenKeeps ==
  ASSUME ZaloInv, NEW t \in UserTokens, NEW u \in Members, CreateUserToken(t, u)
  PROVE  ZaloInv'
<1> DEFINE Row == [state: {"OPEN", "CONSUMED"}, user: Members]
<1>1. \A x \in UserTokens : userToken[x] = Unused \/ userToken[x] \in Row
  BY DEF ZaloInv, ZaloTypeOK
<1>2. \A x \in UserTokens : userToken'[x] = Unused \/ userToken'[x] \in Row
  <2> SUFFICES ASSUME NEW x \in UserTokens
               PROVE  userToken'[x] = Unused \/ userToken'[x] \in Row
    OBVIOUS
  <2>1. CASE x = t
    BY <2>1 DEF CreateUserToken
  <2>2. CASE x # t /\ userToken[x] \in Row
    BY <2>2 DEF CreateUserToken
  <2>3. CASE x # t /\ userToken[x] = Unused
    BY <2>3 DEF CreateUserToken, StillOpen, Unused
  <2> QED
    BY <1>1, <2>1, <2>2, <2>3
<1>3. userToken' \in [UserTokens -> {Unused} \union Row]
  BY <1>2 DEF CreateUserToken
<1>4. ZaloTypeOK'
  BY <1>3 DEF CreateUserToken, ZaloInv, ZaloTypeOK
<1> QED
  BY <1>4, OutsideKeeps DEF CreateUserToken

LEMMA ExpireIdentityKeeps ==
  ASSUME ZaloInv, NEW z \in Senders, ExpireIdentity(z)
  PROVE  ZaloInv'
<1>1. ZaloTypeOK'
  BY DEF ExpireIdentity, ZaloInv, ZaloTypeOK
<1>2. \A y \in Senders : identified'[y] \subseteq identified[y]
  BY DEF ExpireIdentity, ZaloInv, ZaloTypeOK
<1> QED
  BY <1>1, <1>2, OutsideKeeps DEF ExpireIdentity

\* The first delivery of a message, or another with the same words.
LEMMA DeliverKeeps ==
  ASSUME ZaloInv, NEW d \in Deliveries, NEW m \in ChatMessages, NEW g \in Chats,
         NEW z \in Senders, NEW text \in Texts, Deliver(d, m, g, z, text)
  PROVE  ZaloInv'
<1> DEFINE msg == [chat |-> g, sender |-> z, text |-> text]
<1>1. /\ call'[d] \in HandlingMessage
      /\ call'[d].at = "READ" /\ call'[d].message = m
      /\ call'[d].chat = g /\ call'[d].sender = z /\ call'[d].text = text
  BY DEF Deliver, ZaloInv, ZaloTypeOK, HandlingMessage
<1>2. \A c \in Deliveries : c # d => call'[c] = call[c]
  BY DEF Deliver, ZaloInv, ZaloTypeOK
<1>3. said'[m] = {msg} /\ \A n \in ChatMessages : n # m => said'[n] = said[n]
  BY DEF Deliver, ZaloInv, ZaloTypeOK
<1>4. said[m] = {} \/ said[m] = {msg}
  BY DEF Deliver
<1>5. msg \in GroupMessage
  BY DEF GroupMessage
<1>6. /\ stood'[m] = IF said[m] = {} THEN identified[z] ELSE stood[m]
      /\ \A n \in ChatMessages : n # m => stood'[n] = stood[n]
      /\ stood' \in [ChatMessages -> SUBSET Members]
  BY DEF Deliver, ZaloInv, ZaloTypeOK
<1>7. ZaloTypeOK'
  <2>1. call' \in [Deliveries -> {NoCall} \union HandlingMessage]
    BY <1>1 DEF Deliver, ZaloInv, ZaloTypeOK, HandlingMessage
  <2>2. said' \in [ChatMessages -> SUBSET GroupMessage]
    BY <1>5 DEF Deliver, ZaloInv, ZaloTypeOK
  <2> QED
    BY <2>1, <2>2, <1>6 DEF Deliver, ZaloInv, ZaloTypeOK, HandlingMessage
<1>8. CallsKnowTheirMessage'
  <2> SUFFICES ASSUME NEW c \in Deliveries, call'[c] # NoCall
               PROVE  /\ said'[call'[c].message] =
                           {[chat |-> call'[c].chat, sender |-> call'[c].sender,
                             text |-> call'[c].text]}
                      /\ call'[c].at = "QUEUED" => zaloReply'[call'[c].message] # {}
                      /\ call'[c].at = "SERVE" => UserIsFit(c)'
    BY DEF CallsKnowTheirMessage
  <2>1. CASE c = d
    BY <2>1, <1>1, <1>3
  <2>2. CASE c # d
    <3>1. call'[c] = call[c] /\ call[c] \in HandlingMessage
      BY <2>2, <1>2, ZaloCallKinds DEF ZaloInv
    <3>2. call[c].message \in ChatMessages
      BY <3>1 DEF HandlingMessage
    <3>3. said[call[c].message] # {}
      BY <3>1 DEF ZaloInv, CallsKnowTheirMessage
    <3>4. said'[call[c].message] = said[call[c].message]
          /\ stood'[call[c].message] = stood[call[c].message]
      BY <1>3, <1>4, <1>6, <3>2, <3>3
    <3> QED
      BY <3>1, <3>4 DEF ZaloInv, CallsKnowTheirMessage, UserIsFit, Deliver
  <2> QED
    BY <2>1, <2>2
<1>9. ServedAtHome'
  <2> SUFFICES ASSUME NEW n \in ChatMessages PROVE FitlyServed(n)'
    BY DEF ServedAtHome
  <2>1. FitlyServed(n) /\ served'[n] = served[n]
    BY DEF ZaloInv, ServedAtHome, Deliver
  <2>2. CASE said[n] = {}
    BY <2>1, <2>2 DEF FitlyServed, AtMostOne
  <2>3. CASE said[n] # {}
    BY <2>1, <2>3, <1>3, <1>4, <1>6 DEF FitlyServed, Deliver
  <2> QED
    BY <2>2, <2>3
<1>10. SendersStand'
  <2> SUFFICES ASSUME NEW n \in ChatMessages, NEW w \in said'[n]
               PROVE  identified[w.sender] \subseteq stood'[n]
    BY DEF SendersStand, Deliver
  <2>1. CASE said'[n] = said[n] /\ stood'[n] = stood[n]
    BY <2>1 DEF ZaloInv, SendersStand
  <2>2. CASE n = m /\ said[m] = {}
    BY <2>2, <1>3, <1>6
  <2> QED
    BY <2>1, <2>2, <1>3, <1>4, <1>6
<1> QED
  BY <1>7, <1>8, <1>9, <1>10 DEF ZaloInv, Deliver, Apart, OneUserEach, ReceiptsMeanReplies

-----------------------------------------------------------------------------
\* A call moves to a stage: it keeps its message, its chat and what it found.
LEMMA StageMoves ==
  ASSUME ZaloInv, NEW d \in Deliveries, call[d].at # "NONE",
         NEW step \in {"BOUND", "SERVED", "QUEUED"}, NextStage(d, step)
  PROVE  /\ call' \in [Deliveries -> {NoCall} \union HandlingMessage]
         /\ call'[d].at = step /\ call'[d].message = call[d].message
         /\ call'[d].chat = call[d].chat /\ call'[d].sender = call[d].sender
         /\ call'[d].text = call[d].text
         /\ \A c \in Deliveries : c # d => call'[c] = call[c]
<1>1. call[d] \in HandlingMessage /\ call[d] # NoCall
  BY StagesAreHandled DEF ZaloInv
<1>2. call'[d] = [call[d] EXCEPT !.at = step]
  BY DEF NextStage, ZaloInv, ZaloTypeOK
<1>3. call'[d] \in HandlingMessage
  BY <1>1, <1>2 DEF HandlingMessage
<1>4. \A c \in Deliveries : c # d => call'[c] = call[c]
  BY DEF NextStage, ZaloInv, ZaloTypeOK
<1>5. call' \in [Deliveries -> {NoCall} \union HandlingMessage]
  BY <1>3 DEF NextStage, ZaloInv, ZaloTypeOK, HandlingMessage
<1> QED
  BY <1>1, <1>2, <1>4, <1>5 DEF HandlingMessage

\* What the calls know of their messages survives a stage that only adds
\* replies, and only widens what a group is bound to and who a sender stood for.
LEMMA StageKeepsCalls ==
  ASSUME ZaloInv, NEW d \in Deliveries, call[d].at # "NONE",
         NEW step \in {"BOUND", "SERVED", "QUEUED"}, NextStage(d, step),
         UNCHANGED said,
         \A m \in ChatMessages : zaloReply[m] # {} => zaloReply'[m] # {},
         step = "QUEUED" => zaloReply'[call[d].message] # {},
         \A g \in Chats : groupOf[g] \subseteq groupOf'[g],
         \A m \in ChatMessages : stood[m] \subseteq stood'[m]
  PROVE  CallsKnowTheirMessage'
<1> SUFFICES ASSUME NEW c \in Deliveries, call'[c] # NoCall
             PROVE  /\ said'[call'[c].message] =
                         {[chat |-> call'[c].chat, sender |-> call'[c].sender,
                           text |-> call'[c].text]}
                    /\ call'[c].at = "QUEUED" => zaloReply'[call'[c].message] # {}
                    /\ call'[c].at = "SERVE" => UserIsFit(c)'
  BY DEF CallsKnowTheirMessage
<1>1. CASE c = d
  <2>1. call[d] # NoCall
    BY StagesAreHandled DEF ZaloInv
  <2> QED
    BY <1>1, <2>1, StageMoves DEF ZaloInv, CallsKnowTheirMessage
<1>2. CASE c # d
  <2>1. call'[c] = call[c]
    BY <1>2, StageMoves
  <2>2. call[c] \in HandlingMessage
    BY <2>1, ZaloCallKinds DEF ZaloInv
  <2>3. call[c].message \in ChatMessages /\ call[c].chat \in Chats
    BY <2>2 DEF HandlingMessage
  <2>4. UserIsFit(c) => UserIsFit(c)'
    BY <2>1, <2>3 DEF UserIsFit
  <2> QED
    BY <2>1, <2>3, <2>4 DEF ZaloInv, CallsKnowTheirMessage
<1> QED
  BY <1>1, <1>2

\* A group that is bound stays with its shop.
LEMMA BindGroupKeeps ==
  ASSUME ZaloInv, NEW d \in Deliveries, BindGroup(d)
  PROVE  ZaloInv'
<1>1. call[d].at = "READ" /\ call[d] \in HandlingMessage
  BY StagesAreHandled DEF BindGroup, Stage, ZaloInv
<1>2. PICK c \in GroupCodes : c = call[d].text.code
  <2>1. call[d].text \in Texts /\ call[d].text.kind = "LINK"
    BY <1>1 DEF BindGroup, HandlingMessage
  <2> QED
    BY <2>1 DEF Texts
<1>3. groupCode[c].state = "OPEN" /\ ShopsHere(d) \subseteq {groupCode[c].shop}
      /\ groupOf' = [groupOf EXCEPT ![call[d].chat] = {groupCode[c].shop}]
      /\ groupCode' = [groupCode EXCEPT ![c].state = "CONSUMED"]
  BY <1>2 DEF BindGroup, StillOpen
<1>4. groupCode[c] \in [state: {"OPEN", "CONSUMED"}, shop: ChatShops]
  BY <1>3 DEF ZaloInv, ZaloTypeOK, Unused
<1>5. groupOf' \in [Chats -> SUBSET ChatShops]
  BY <1>3, <1>4 DEF ZaloInv, ZaloTypeOK
<1>6. \A g \in Chats : groupOf[g] \subseteq groupOf'[g]
  BY <1>3 DEF ZaloInv, ZaloTypeOK, ShopsHere
<1>7. groupCode' \in [GroupCodes -> {Unused} \union [state: {"OPEN", "CONSUMED"}, shop: ChatShops]]
  BY <1>3, <1>4 DEF ZaloInv, ZaloTypeOK
<1>8. ZaloTypeOK'
  <2>1. call' \in [Deliveries -> {NoCall} \union HandlingMessage]
    BY <1>1, StageMoves DEF BindGroup
  <2> QED
    BY <1>5, <1>7, <2>1 DEF BindGroup, ZaloInv, ZaloTypeOK, HandlingMessage
<1>9. CallsKnowTheirMessage'
  <2>1. call[d].at # "NONE"
    BY <1>1
  <2>2. NextStage(d, "BOUND") /\ UNCHANGED <<said, zaloReply, stood>>
    BY DEF BindGroup
  <2>3. \A m \in ChatMessages : zaloReply[m] # {} => zaloReply'[m] # {}
    BY <2>2
  <2>4. \A g \in Chats : groupOf[g] \subseteq groupOf'[g]
    BY <1>6
  <2>5. \A m \in ChatMessages : stood[m] \subseteq stood'[m]
    BY <2>2, Zenon
  <2> QED
    BY <2>1, <2>2, <2>3, <2>4, <2>5, StageKeepsCalls
<1>10. ServedAtHome'
  <2> SUFFICES ASSUME NEW m \in ChatMessages
               PROVE  FitlyServed(m)'
    BY DEF ServedAtHome
  <2>1. said[m] \subseteq GroupMessage
    BY DEF ZaloInv, ZaloTypeOK
  <2>2. \A msg \in said[m] : msg.chat \in Chats
    BY <2>1 DEF GroupMessage
  <2> QED
    BY <1>6, <2>2 DEF ZaloInv, ServedAtHome, FitlyServed, BindGroup
<1> QED
  BY <1>8, <1>9, <1>10 DEF ZaloInv, BindGroup, Apart, OneUserEach, SendersStand,
                           ReceiptsMeanReplies

\* Binding an account to a user ends the bindings either had.
LEMMA IdentifyKeeps ==
  ASSUME ZaloInv, NEW z \in Senders, NEW u \in Members, identified' = Identify(z, u)
  PROVE  /\ identified' \in [Senders -> SUBSET Members]
         /\ Apart(identified)' /\ OneUserEach'
<1>1. identified' \in [Senders -> SUBSET Members]
  BY DEF Identify, ZaloInv, ZaloTypeOK
<1>2. \A x \in Senders : identified'[x] = IF x = z THEN {u} ELSE identified[x] \ {u}
  BY DEF Identify
<1>3. OneUserEach'
  BY <1>2 DEF OneUserEach, AtMostOne, ZaloInv
<1>4. Apart(identified)'
  BY <1>2 DEF Apart, ZaloInv
<1> QED
  BY <1>1, <1>3, <1>4

LEMMA BindUserKeeps ==
  ASSUME ZaloInv, NEW d \in Deliveries, BindUser(d)
  PROVE  ZaloInv'
<1>1. call[d].at = "READ" /\ call[d] \in HandlingMessage
  BY StagesAreHandled DEF BindUser, Stage, ZaloInv
<1>2. call[d].sender \in Senders
  BY <1>1 DEF HandlingMessage
<1>3. PICK t \in UserTokens : t = call[d].text.token
  <2>1. call[d].text \in Texts /\ call[d].text.kind = "BIND"
    BY <1>1 DEF BindUser, HandlingMessage
  <2> QED
    BY <2>1 DEF Texts
<1>4. /\ userToken[t].state = "OPEN"
      /\ identified' = Identify(call[d].sender, userToken[t].user)
      /\ userToken' = [userToken EXCEPT ![t].state = "CONSUMED"]
      /\ stood' = [m \in ChatMessages |->
           IF m \in SaidBy(call[d].sender)
           THEN stood[m] \union {userToken[t].user} ELSE stood[m]]
  BY <1>3 DEF BindUser, StillOpen
<1>5. userToken[t] \in [state: {"OPEN", "CONSUMED"}, user: Members]
  BY <1>4 DEF ZaloInv, ZaloTypeOK, Unused
<1>6. userToken' \in [UserTokens -> {Unused} \union [state: {"OPEN", "CONSUMED"}, user: Members]]
  BY <1>4, <1>5 DEF ZaloInv, ZaloTypeOK
<1>7. /\ identified' \in [Senders -> SUBSET Members]
      /\ Apart(identified)' /\ OneUserEach'
  <2>1. userToken[t].user \in Members
    BY <1>5
  <2> QED
    BY <1>2, <1>4, <2>1, IdentifyKeeps
<1>8. stood' \in [ChatMessages -> SUBSET Members]
  BY <1>4, <1>5 DEF ZaloInv, ZaloTypeOK
<1>9. \A m \in ChatMessages : stood[m] \subseteq stood'[m]
  BY <1>4
<1>10. ZaloTypeOK'
  <2>1. call' \in [Deliveries -> {NoCall} \union HandlingMessage]
    BY <1>1, StageMoves DEF BindUser
  <2> QED
    BY <1>6, <1>7, <1>8, <2>1 DEF BindUser, ZaloInv, ZaloTypeOK, HandlingMessage
<1>11. CallsKnowTheirMessage'
  <2>1. call[d].at # "NONE"
    BY <1>1
  <2>2. NextStage(d, "BOUND") /\ UNCHANGED <<said, zaloReply, groupOf>>
    BY DEF BindUser
  <2>3. \A m \in ChatMessages : zaloReply[m] # {} => zaloReply'[m] # {}
    BY <2>2
  <2>4. \A g \in Chats : groupOf[g] \subseteq groupOf'[g]
    BY <2>2, Zenon
  <2>5. \A m \in ChatMessages : stood[m] \subseteq stood'[m]
    BY <1>9
  <2> QED
    BY <2>1, <2>2, <2>3, <2>4, <2>5, StageKeepsCalls
<1>12. SendersStand'
  <2> SUFFICES ASSUME NEW m \in ChatMessages, NEW msg \in said[m]
               PROVE  identified'[msg.sender] \subseteq stood'[m]
    BY DEF SendersStand, BindUser
  <2>1. msg.sender \in Senders
    BY DEF ZaloInv, ZaloTypeOK, GroupMessage
  <2>2. identified[msg.sender] \subseteq stood[m]
    BY DEF ZaloInv, SendersStand
  <2>3. CASE msg.sender = call[d].sender
    <3>1. m \in SaidBy(call[d].sender)
      BY <2>3 DEF SaidBy
    <3>2. userToken[t].user \in stood'[m]
      BY <1>4, <3>1
    <3> QED
      BY <1>4, <2>1, <2>3, <3>2 DEF Identify
  <2>4. CASE msg.sender # call[d].sender
    BY <1>4, <1>9, <2>1, <2>2, <2>4 DEF Identify
  <2> QED
    BY <2>3, <2>4
<1>13. ServedAtHome'
  BY <1>9 DEF ZaloInv, ServedAtHome, FitlyServed, BindUser
<1> QED
  BY <1>7, <1>10, <1>11, <1>12, <1>13 DEF ZaloInv, BindUser, ReceiptsMeanReplies

\* The user found for a call is of the shop of its group.
LEMMA ReadIdentityKeeps ==
  ASSUME ZaloInv, NEW d \in Deliveries, ReadIdentity(d)
  PROVE  ZaloInv'
<1>1. call[d].at = "READ" /\ call[d] \in HandlingMessage /\ call[d] # NoCall
  BY StagesAreHandled DEF ReadIdentity, Stage, ZaloInv
<1>2. PICK step \in {"ASK", "SERVE", "LOCKED"} :
        call' = [call EXCEPT ![d].user = UserOfSender(d), ![d].at = step]
  BY DEF ReadIdentity, Treatments
<1>3. UserOfSender(d) \in SUBSET Members
  BY <1>1 DEF UserOfSender, ZaloInv, ZaloTypeOK, HandlingMessage
<1>4. /\ call'[d] \in HandlingMessage
      /\ call'[d].at \in {"ASK", "SERVE", "LOCKED"} /\ call'[d].message = call[d].message
      /\ call'[d].chat = call[d].chat /\ call'[d].sender = call[d].sender
      /\ call'[d].text = call[d].text /\ call'[d].user = UserOfSender(d)
  <2>1. call'[d] = [call[d] EXCEPT !.user = UserOfSender(d), !.at = step]
    BY <1>2 DEF ZaloInv, ZaloTypeOK
  <2> QED
    BY <1>1, <1>3, <2>1 DEF HandlingMessage
<1>5. \A c \in Deliveries : c # d => call'[c] = call[c]
  BY <1>2 DEF ZaloInv, ZaloTypeOK
<1>6. ZaloTypeOK'
  <2>1. call' \in [Deliveries -> {NoCall} \union HandlingMessage]
    BY <1>2, <1>4 DEF ZaloInv, ZaloTypeOK, HandlingMessage
  <2> QED
    BY <2>1 DEF ReadIdentity, ZaloInv, ZaloTypeOK, HandlingMessage
<1>7. CallsKnowTheirMessage'
  <2>1. /\ \A u \in UserOfSender(d) : ShopOf[u] \in groupOf[call[d].chat]
        /\ UserOfSender(d) \subseteq identified[call[d].sender]
    BY DEF UserOfSender, ShopsHere
  <2>2. AtMostOne(identified[call[d].sender])
    BY <1>1 DEF ZaloInv, OneUserEach, HandlingMessage
  <2>3. identified[call[d].sender] \subseteq stood[call[d].message]
    <3>1. call[d].message \in ChatMessages
      BY <1>1 DEF HandlingMessage
    <3>2. said[call[d].message] =
            {[chat |-> call[d].chat, sender |-> call[d].sender, text |-> call[d].text]}
      BY <1>1 DEF ZaloInv, CallsKnowTheirMessage
    <3>3. PICK msg \in said[call[d].message] : msg.sender = call[d].sender
      BY <3>2
    <3> QED
      BY <3>1, <3>3 DEF ZaloInv, SendersStand
  <2> SUFFICES ASSUME NEW c \in Deliveries, call'[c] # NoCall
               PROVE  /\ said[call'[c].message] =
                           {[chat |-> call'[c].chat, sender |-> call'[c].sender,
                             text |-> call'[c].text]}
                      /\ call'[c].at = "QUEUED" => zaloReply[call'[c].message] # {}
                      /\ call'[c].at = "SERVE" => UserIsFit(c)'
    BY DEF CallsKnowTheirMessage, ReadIdentity
  <2>4. CASE c = d
    <3>1. UserIsFit(c)'
      BY <2>1, <2>4, <2>2, <2>3, <1>4 DEF UserIsFit, AtMostOne, ReadIdentity
    <3> QED
      BY <3>1, <2>4, <1>1, <1>4 DEF ZaloInv, CallsKnowTheirMessage
  <2>5. CASE c # d
    BY <2>5, <1>5 DEF ZaloInv, CallsKnowTheirMessage, UserIsFit, ReadIdentity
  <2> QED
    BY <2>4, <2>5
<1> QED
  BY <1>6, <1>7 DEF ZaloInv, ReadIdentity, Apart, OneUserEach, SendersStand, ServedAtHome,
                    FitlyServed, ReceiptsMeanReplies

LEMMA ServeKeeps ==
  ASSUME ZaloInv, NEW d \in Deliveries, Serve(d)
  PROVE  ZaloInv'
<1>1. call[d].at = "SERVE" /\ call[d] \in HandlingMessage /\ call[d] # NoCall
  BY StagesAreHandled DEF Serve, Stage, ZaloInv
<1>2. call[d].message \in ChatMessages /\ call[d].user \in SUBSET Members
  BY <1>1 DEF HandlingMessage
<1>3. \A m \in ChatMessages :
        \/ served'[m] = served[m]
        \/ /\ m = call[d].message /\ served'[m] = served[m] \union call[d].user
           /\ call[d].text.kind = "MONEY" => served[m] = {}
  BY <1>2 DEF Serve, ZaloInv, ZaloTypeOK
<1>4. served' \in [ChatMessages -> SUBSET Members]
  BY <1>2 DEF Serve, ZaloInv, ZaloTypeOK
<1>5. ZaloTypeOK'
  <2>1. call' \in [Deliveries -> {NoCall} \union HandlingMessage]
    BY <1>1, StageMoves DEF Serve
  <2> QED
    BY <1>4, <2>1 DEF Serve, ZaloInv, ZaloTypeOK, HandlingMessage
<1>6. CallsKnowTheirMessage'
  <2>1. call[d].at # "NONE"
    BY <1>1
  <2>2. NextStage(d, "SERVED") /\ UNCHANGED <<said, zaloReply, groupOf, stood>>
    BY DEF Serve
  <2>3. \A m \in ChatMessages : zaloReply[m] # {} => zaloReply'[m] # {}
    BY <2>2
  <2>4. \A g \in Chats : groupOf[g] \subseteq groupOf'[g]
    BY <2>2, Zenon
  <2>5. \A m \in ChatMessages : stood[m] \subseteq stood'[m]
    BY <2>2, Zenon
  <2> QED
    BY <2>1, <2>2, <2>3, <2>4, <2>5, StageKeepsCalls
<1>7. said[call[d].message] =
        {[chat |-> call[d].chat, sender |-> call[d].sender, text |-> call[d].text]}
  BY <1>1 DEF ZaloInv, CallsKnowTheirMessage
<1>8. \A msg \in said[call[d].message] : msg.chat = call[d].chat /\ msg.text = call[d].text
  BY <1>7
<1>9. UserIsFit(d)
  BY <1>1 DEF ZaloInv, CallsKnowTheirMessage
<1>10. ServedAtHome'
  <2> SUFFICES ASSUME NEW m \in ChatMessages
               PROVE  FitlyServed(m)'
    BY DEF ServedAtHome
  <2>1. FitlyServed(m)
    BY DEF ZaloInv, ServedAtHome
  <2>2. CASE served'[m] = served[m]
    BY <2>2, <2>1 DEF FitlyServed, Serve
  <2>3. CASE /\ m = call[d].message /\ served'[m] = served[m] \union call[d].user
             /\ call[d].text.kind = "MONEY" => served[m] = {}
    <3>1. said'[m] # {} /\ stood'[m] = stood[m] /\ served'[m] \subseteq stood[m]
      BY <2>3, <2>1, <1>7, <1>9 DEF FitlyServed, UserIsFit, Serve
    <3>2. ASSUME NEW msg \in said'[m]
          PROVE  /\ \A u \in served'[m] : ShopOf[u] \in groupOf'[msg.chat]
                 /\ msg.text.kind = "MONEY" => AtMostOne(served'[m])
      <4>1. msg \in said[m] /\ msg.chat = call[d].chat /\ msg.text = call[d].text
        BY <2>3, <3>2, <1>8 DEF Serve
      <4> QED
        BY <2>3, <2>1, <1>9, <4>1 DEF FitlyServed, UserIsFit, AtMostOne, Serve
    <3> QED
      BY <3>1, <3>2 DEF FitlyServed
  <2> QED
    BY <1>3, <2>2, <2>3
<1> QED
  BY <1>5, <1>6, <1>10 DEF ZaloInv, Serve, Apart, OneUserEach, SendersStand, ReceiptsMeanReplies

LEMMA QueueReplyKeeps ==
  ASSUME ZaloInv, NEW d \in Deliveries, QueueReply(d)
  PROVE  ZaloInv'
<1>1. call[d].at \in {"BOUND", "ASK", "LOCKED", "SERVED"} /\ call[d] \in HandlingMessage
  BY StagesAreHandled DEF QueueReply, ZaloInv
<1>2. call[d].message \in ChatMessages
  BY <1>1 DEF HandlingMessage
<1>3. \A m \in ChatMessages : zaloReply'[m] =
        IF m = call[d].message /\ zaloReply[m] = {} THEN {call[d].at} ELSE zaloReply[m]
  BY <1>2 DEF QueueReply, ZaloInv, ZaloTypeOK
<1>4. zaloReply' \in [ChatMessages -> SUBSET {"BOUND", "ASK", "LOCKED", "SERVED"}]
  BY <1>1, <1>2 DEF QueueReply, ZaloInv, ZaloTypeOK
<1>5. ZaloTypeOK'
  <2>1. call' \in [Deliveries -> {NoCall} \union HandlingMessage]
    BY <1>1, StageMoves DEF QueueReply
  <2> QED
    BY <1>4, <2>1 DEF QueueReply, ZaloInv, ZaloTypeOK, HandlingMessage
<1>6. CallsKnowTheirMessage'
  <2>1. call[d].at # "NONE"
    BY <1>1
  <2>2. NextStage(d, "QUEUED") /\ UNCHANGED <<said, groupOf, stood>>
    BY DEF QueueReply
  <2>3. \A m \in ChatMessages : zaloReply[m] # {} => zaloReply'[m] # {}
    BY <1>3
  <2>4. zaloReply'[call[d].message] # {}
    BY <1>2, <1>3
  <2>5. /\ \A g \in Chats : groupOf[g] \subseteq groupOf'[g]
        /\ \A m \in ChatMessages : stood[m] \subseteq stood'[m]
    BY <2>2, Zenon
  <2> QED
    BY <2>1, <2>2, <2>3, <2>4, <2>5, StageKeepsCalls
<1>7. ReceiptsMeanReplies'
  <2>1. receipt \subseteq ChatMessages
    BY DEF ZaloInv, ZaloTypeOK
  <2> QED
    BY <1>3, <2>1 DEF QueueReply, ZaloInv, ReceiptsMeanReplies
<1> QED
  BY <1>5, <1>6, <1>7 DEF ZaloInv, QueueReply, Apart, OneUserEach, SendersStand, ServedAtHome,
                          FitlyServed

LEMMA RecordReceiptKeeps ==
  ASSUME ZaloInv, NEW d \in Deliveries, RecordReceipt(d)
  PROVE  ZaloInv'
<1>1. call[d].at = "QUEUED" /\ call[d] \in HandlingMessage /\ call[d] # NoCall
  BY StagesAreHandled DEF RecordReceipt, Stage, ZaloInv
<1>2. call[d].message \in ChatMessages /\ zaloReply[call[d].message] # {}
  BY <1>1 DEF HandlingMessage, ZaloInv, CallsKnowTheirMessage
<1>3. receipt' \subseteq ChatMessages /\ \A m \in receipt' : zaloReply[m] # {}
  BY <1>2 DEF RecordReceipt, ZaloInv, ZaloTypeOK, ReceiptsMeanReplies
<1> QED
  BY <1>3, CallOverKeeps DEF RecordReceipt

\* Every step keeps the strengthened invariant.
LEMMA ZaloStepInvariant == ZaloInv /\ [ZaloNext]_zaloVars => ZaloInv'
<1> SUFFICES ASSUME ZaloInv, [ZaloNext]_zaloVars PROVE ZaloInv'
  OBVIOUS
<1>1. ASSUME NEW d \in Deliveries, CallEnds(d) PROVE ZaloInv'
  BY <1>1, CallOverKeeps DEF CallEnds, ZaloInv, ZaloTypeOK, ReceiptsMeanReplies
<1>2. ASSUME UNCHANGED zaloVars PROVE ZaloInv'
  BY <1>2 DEF zaloVars, ZaloInv, ZaloTypeOK, CallsKnowTheirMessage, UserIsFit, Apart,
              OneUserEach, SendersStand, ServedAtHome, FitlyServed, ReceiptsMeanReplies
<1> QED
  BY <1>1, <1>2, CreateGroupCodeKeeps, CreateUserTokenKeeps, ExpireIdentityKeeps,
     DeliverKeeps, BindGroupKeeps, BindUserKeeps, ReadIdentityKeeps, ServeKeeps,
     QueueReplyKeeps, RecordReceiptKeeps
  DEF ZaloNext

LEMMA OneIsCounted ==
  ASSUME NEW users, AtMostOne(users)
  PROVE  Cardinality(users) <= 1
<1>1. CASE users = {}
  BY <1>1, FS_EmptySet
<1>2. CASE users # {}
  <2>1. PICK u : u \in users
    BY <1>2
  <2>2. users = {u}
    BY <2>1 DEF AtMostOne
  <2>3. Cardinality(users) = 1
    BY <2>2, FS_Singleton
  <2> QED
    BY <2>3
<1> QED
  BY <1>1, <1>2

LEMMA ZaloInvariantIsEnough == ZaloInv => ChatsServeTheirOwn /\ ReceiptsMeanReplies
<1> SUFFICES ASSUME ZaloInv PROVE ChatsServeTheirOwn
  BY DEF ZaloInv
<1>1. ASSUME NEW z \in Senders PROVE Cardinality(identified[z]) <= 1
  BY OneIsCounted DEF ZaloInv, OneUserEach
<1>2. ASSUME NEW m \in ChatMessages, NEW msg \in said[m], msg.text.kind = "MONEY"
      PROVE  Cardinality(served[m]) <= 1
  BY <1>2, OneIsCounted DEF ZaloInv, ServedAtHome, FitlyServed
<1> QED
  BY <1>1, <1>2 DEF ZaloInv, ServedAtHome, FitlyServed, ChatsServeTheirOwn

\* A message that is dropped as a duplicate has its reply in the outbox,
\* wherever its earlier deliveries died (zalo.ts:318-330, 513-541).
THEOREM ReceiptsFollowReplies == ZaloSpec => []ReceiptsMeanReplies
BY ZaloInitInvariant, ZaloStepInvariant, ZaloInvariantIsEnough, PTL DEF ZaloSpec

\* What is done for a group's message is done for a user its sender stood for since
\* it came, one user for a command, and of the group's own shop, however often it is
\* delivered and the sender is bound again (zalo.ts:128-150, 423-430, 170-184).
THEOREM ChatsStayInTheirShop == ZaloSpec => []ChatsServeTheirOwn
BY ZaloInitInvariant, ZaloStepInvariant, ZaloInvariantIsEnough, PTL DEF ZaloSpec

-----------------------------------------------------------------------------
(* The platform: each part has its types, and all of them side by side     *)
(* behave as each of them alone.                                           *)

\* What the invariants of the parts leave out of their types.
SyncRest == feed \in Feeds /\ checked \subseteq Shown /\ lists \subseteq SUBSET Shown

LEMMA SyncRestHolds ==
  /\ SyncInit => SyncRest
  /\ WindowsInv /\ SyncRest /\ [SyncNext \/ OrdersNext]_syncVars => SyncRest'
<1>1. SyncInit => SyncRest
  BY DEF SyncInit, SyncRest
<1>2. ASSUME WindowsInv, SyncRest, [SyncNext \/ OrdersNext]_syncVars PROVE SyncRest'
  <2>0. feed \in Feeds /\ checked \subseteq Shown /\ lists \subseteq SUBSET Shown
    BY <1>2 DEF SyncRest
  <2>1. CASE UNCHANGED <<feed, rowStamp, checked, lists>>
    BY <2>0, <2>1 DEF SyncRest, Shown
  <2>2. ASSUME NEW r \in Rows, ShowRow(r) \/ ChangeRow(r) PROVE SyncRest'
    <3>1. PICK s \in Recent : rowStamp' = [rowStamp EXCEPT ![r] = s]
      BY <2>2 DEF ShowRow, ChangeRow
    <3>2. UNCHANGED <<feed, checked, lists>>
      BY <2>2 DEF ShowRow, ChangeRow, orderVars
    <3>3. rowStamp \in [Rows -> Stamps \cup {Never}] /\ s # Never
      BY <1>2, StampsAreNumbers DEF WindowsInv, SyncTypes, Recent
    <3>4. Shown \subseteq Shown'
      BY <3>1, <3>3 DEF Shown
    <3> QED
      BY <2>0, <3>2, <3>4 DEF SyncRest
  <2>3. ASSUME NEW n \in SyncRuns, ReadOrders(n) \/ NextOrders(n) \/ FailOrders(n) PROVE SyncRest'
    <3>1. feed' = feed /\ Shown' = Shown
      BY <2>3 DEF ReadOrders, NextOrders, FailOrders, reportVars, Shown
    <3>2. /\ OrderList(orderRun[n]) \subseteq Shown
          /\ OrderPage(OrderList(orderRun[n]), orderRun[n].page) \subseteq Shown
      BY DEF OrderList, OrderPage, Sold
    <3>3. checked' \subseteq Shown
      BY <2>0, <2>3, <3>2 DEF ReadOrders, NextOrders, FailOrders
    <3>4. lists' \subseteq SUBSET Shown
      BY <2>0, <2>3, <3>2 DEF ReadOrders, NextOrders, FailOrders
    <3> QED
      BY <2>0, <3>1, <3>3, <3>4 DEF SyncRest
  <2>4. ASSUME NEW n \in SyncRuns, StartOrders(n) PROVE SyncRest'
    BY <2>1, <2>4 DEF StartOrders, reportVars
  <2>5. SyncNext => NetworkNext \/ UNCHANGED <<feed, rowStamp, checked, lists>>
    BY DEF SyncNext, StartRun, StartClicks, Begins, ReadPage, CommitRun, CommitClicks, Commits, FailRun,
           FailClicks, Fails, reportVars, orderVars
  <2>6. PassTime \/ UNCHANGED syncVars => UNCHANGED <<feed, rowStamp, checked, lists>>
    BY DEF PassTime, syncVars, reportVars, orderVars
  <2> QED
    BY <1>2, <2>1, <2>2, <2>3, <2>4, <2>5, <2>6 DEF OrdersNext, NetworkNext
<1> QED
  BY <1>1, <1>2

\* The readers of reports and their network keep their types.
THEOREM SyncTyped == SyncSpec => []SyncTypeOK
<1>1. WindowsInv /\ OrdersInv /\ SyncRest => SyncTypeOK
  <2> SUFFICES ASSUME WindowsInv, OrdersInv, SyncRest PROVE SyncTypeOK
    OBVIOUS
  <2>1. \A n \in SyncRuns : syncRun[n].at \in {"NONE", "READ", "COMMIT"}
    BY RunForms DEF WindowsInv, NoRun
  <2>2. \A n \in SyncRuns : orderRun[n].at \in {"NONE", "ORDERS", "NEXT"}
    BY DEF OrdersInv, OrderRun, NoRun
  <2>3. {soldAt, rowStamp, due, ingested} \subseteq [Rows -> Stamps \cup {Never}]
    BY DEF WindowsInv, SyncTypes
  <2> QED
    BY <2>1, <2>2, <2>3 DEF WindowsInv, SyncTypes, OrdersInv, SyncRest, SyncTypeOK
<1> QED
  BY <1>1, SyncRestHolds, WindowsInitInvariant, WindowsStepInvariant, OrdersInitInvariant, OrdersStepInvariant,
     TimeStaysANumber, PTL DEF SyncSpec

\* Uploads and the rows they leave behind keep their types.
THEOREM ImportTyped == ImportSpec => []ImportTypeOK
<1>1. ImportInv => ImportTypeOK
  BY DEF ImportInv
<1> QED
  BY <1>1, ImportInitInvariant, ImportStepInvariant, PTL DEF ImportSpec

\* Links, shops' terms and the accounts behind them keep their types.
THEOREM LinkTyped == LinkSpec => []LinkTypeOK
<1>1. LinkInv => LinkTypeOK
  <2> SUFFICES ASSUME LinkInv PROVE LinkTypeOK
    OBVIOUS
  <2>1. \A s \in LinkShops : terms[s] = Unset \/ terms[s].share \in Shares
    BY DEF LinkInv, LinkTypes, Terms
  <2>2. \A c \in LinkCalls : linkCall[c].at \in {"ASLEEP", "ACCOUNT", "CREATE", "WRITE"}
    BY DEF LinkInv, LinkTypes, Request, Asleep
  <2>3. \A k \in LinkKeys : click[k] = NoClick \/ click[k].content \in Contents
    BY DEF LinkInv, LinkTypes, Click
  <2> QED
    BY <2>1, <2>2, <2>3 DEF LinkInv, LinkTypes, LinkTypeOK, ShareOrNone, ShopOrNone
<1> QED
  BY <1>1, LinkInitInvariant, LinkStepInvariant, PTL DEF LinkSpec

\* Provider accounts, credentials and connectors keep their types.
THEOREM ConnectorsTyped == ConnectorsSpec => []ConnectorsTypeOK
<1>1. ConnectorsInv => ConnectorsTypeOK
  BY DEF ConnectorsInv
<1> QED
  BY <1>1, ConnectorsInitInvariant, ConnectorsStepInvariant, PTL DEF ConnectorsSpec

OffersRest ==
  /\ offerClock \in 0..MaxOfferClock
  /\ lastSaid \in [Deals -> [DealTexts -> Nat \union {NeverSaid}]]

\* Offers, their rows and the runs that store them keep their types.
THEOREM OffersTyped == OffersSpec => []OffersTypeOK
<1>1. OffersInit => OffersRest
  BY OffersAssumption DEF OffersInit, OffersRest
<1>2. OffersInv /\ OffersRest /\ [OffersNext]_offersVars => OffersRest'
  <2> SUFFICES ASSUME OffersRest, [OffersNext]_offersVars PROVE OffersRest'
    OBVIOUS
  <2>0. /\ offerClock \in 0..MaxOfferClock /\ offerClock \in Nat /\ MaxOfferClock \in Nat
        /\ lastSaid \in [Deals -> [DealTexts -> Nat \union {NeverSaid}]]
    BY OffersAssumption DEF OffersRest
  <2>1. CASE OffersTick
    <3>1. offerClock' \in 0..MaxOfferClock /\ offerClock + 1 \in Nat
      BY <2>0, <2>1 DEF OffersTick
    <3>2. lastSaid' \in [Deals -> [DealTexts -> Nat \union {NeverSaid}]]
      <4>1. PICK next \in Nat : next = offerClock + 1
        BY <3>1
      <4>2. lastSaid' = [d \in Deals |-> [c \in DealTexts |-> IF market[d] = c THEN next ELSE lastSaid[d][c]]]
        BY <2>1, <4>1 DEF OffersTick
      <4>3. \A d \in Deals : \A c \in DealTexts :
              (IF market[d] = c THEN next ELSE lastSaid[d][c]) \in Nat \union {NeverSaid}
        BY <2>0
      <4> QED
        BY <4>2, <4>3
    <3> QED
      BY <3>1, <3>2 DEF OffersRest
  <2>2. ASSUME NEW d \in Deals, NEW c \in DealTexts, OfferChanges(d, c) PROVE OffersRest'
    <3>1. lastSaid' = [lastSaid EXCEPT ![d][c] = offerClock] /\ offerClock' = offerClock
      BY <2>2 DEF OfferChanges
    <3>2. lastSaid[d] \in [DealTexts -> Nat \union {NeverSaid}]
      BY <2>0
    <3>3. [lastSaid[d] EXCEPT ![c] = offerClock] \in [DealTexts -> Nat \union {NeverSaid}]
      BY <2>0, <3>2
    <3> QED
      BY <2>0, <3>1, <3>3 DEF OffersRest
  <2>3. CASE UNCHANGED <<offerClock, lastSaid>>
    BY <2>0, <2>3 DEF OffersRest
  <2> QED
    BY <2>1, <2>2, <2>3
       DEF OffersNext, offersVars, OfferLeaves, StartOffers, TryAgain, ReadOffers, StoreOffer, TurnPage, OffersFail
<1>3. OffersInv /\ OffersRest => OffersTypeOK
  <2> SUFFICES ASSUME OffersInv, OffersRest PROVE OffersTypeOK
    OBVIOUS
  <2>1. \A n \in OfferRuns : offerRun[n].at \in {"NO_RUN", "ASKS", "STORES"}
    BY OfferRunForms DEF OffersInv, OffersKinds
  <2> QED
    BY <2>1 DEF OffersInv, OffersKinds, OffersRest, OffersTypeOK
<1> QED
  BY <1>1, <1>2, <1>3, OffersInitInvariant, OffersStepInvariant, PTL DEF OffersSpec

\* Accounts, Clerk's events and the administrators at the desk keep their types.
THEOREM IdentityTyped == IdentitySpec => []IdentityTypeOK
<1>1. IdentityInv => IdentityTypeOK
  BY DEF IdentityInv, IdentityKinds
<1> QED
  BY <1>1, IdentityInitInvariant, IdentityStepInvariant, PTL DEF IdentitySpec

DaysPass == day \in 0..MaxDay

\* Shops, subscriptions, invoices and members keep their types.
THEOREM TenancyTyped == TenancySpec => []TenancyTypeOK
<1>1. TenancyInit => DaysPass
  BY TenancyAssumption DEF TenancyInit, DaysPass
<1>2. DaysPass /\ [TenancyNext]_tenancyVars => DaysPass'
  <2> SUFFICES ASSUME DaysPass, [TenancyNext]_tenancyVars PROVE DaysPass'
    OBVIOUS
  <2>1. CASE NextDay
    BY <2>1, TenancyAssumption DEF NextDay, DaysPass
  <2>2. CASE day' = day
    BY <2>2 DEF DaysPass
  <2> QED
    BY <2>1, <2>2
       DEF TenancyNext, tenancyVars, RegisterShop, SetShopStatus, AdjustPlan, Checkout, LinkCreated, LinkRefused,
           CustomerPays, WebhookReads, JoinReads, WebhookCommits, JoinCommits, ExpireAll
<1>3. TenancyInv /\ DaysPass => TenancyTypeOK
  <2> SUFFICES ASSUME TenancyInv, DaysPass PROVE TenancyTypeOK
    OBVIOUS
  <2>1. \A t \in Shops : shop[t].status \in ShopStatuses /\ shop[t].plan \in PlanCodes
                         /\ shop[t].until \in Nat /\ adjusted[t] \in Nat
    BY DEF TenancyInv, TenancyKinds, ShopRow
  <2>2. \A b \in Bills : bill[b].status \in {"NONE", "PENDING", "PAID", "EXPIRED", "FAILED"}
    BY NoBillIsNoRow DEF TenancyInv, TenancyKinds, BillRow
  <2>3. \A x \in Transactions : transaction[x].at \in {"QUIET", "WEBHOOK", "JOIN"}
    BY TransactionForms DEF TenancyInv, TenancyKinds
  <2> QED
    BY <2>1, <2>2, <2>3 DEF TenancyInv, TenancyKinds, DaysPass, TenancyTypeOK
<1> QED
  BY <1>1, <1>2, <1>3, TenancyInitInvariant, TenancyStepInvariant, PTL DEF TenancySpec

\* Requests of deletion, the calls that carry them out and what is owed keep their types.
THEOREM DeletionTyped == DeletionSpec => []DeletionTypeOK
<1>1. DeletionInv => DeletionTypeOK
  BY DEF DeletionInv
<1> QED
  BY <1>1, DeletionInitInvariant, DeletionStepInvariant, PTL DEF DeletionSpec

\* Sessions, roles and what was cached of them keep their types.
THEOREM AccessTyped == AccessSpec => []AccessTypeOK
<1>1. AccessInv => AccessTypeOK
  BY DEF AccessInv, AccessKinds
<1> QED
  BY <1>1, AccessInitInvariant, AccessStepInvariant, PTL DEF AccessSpec

RolesOfPeople ==
  /\ person \in [Persons -> [tenant : Tenants \union {Nowhere}, shop : ShopTenants \union {Nowhere},
                             roles : SUBSET GlobalRoles]]
  /\ counted \subseteq Persons
  /\ masterOpen \in BOOLEAN
  /\ held \subseteq {"NONE", "OWNER", "TENANT_MASTER", "TENANT_USER", "SYSTEM_WORKER"}

\* People's rows and the call of one of them keep their types.
THEOREM ActorsTyped == ActorsSpec => []ActorsTypeOK
<1>1. ActorsInit => RolesOfPeople
  BY DEF ActorsInit, RolesOfPeople
<1>2. RolesOfPeople /\ [ActorsNext]_actorsVars => RolesOfPeople'
  <2> SUFFICES ASSUME RolesOfPeople, [ActorsNext]_actorsVars PROVE RolesOfPeople'
    OBVIOUS
  <2> DEFINE Row == [tenant : Tenants \union {Nowhere}, shop : ShopTenants \union {Nowhere}, roles : SUBSET GlobalRoles]
             Roles == {"NONE", "OWNER", "TENANT_MASTER", "TENANT_USER", "SYSTEM_WORKER"}
  <2>0. /\ person \in [Persons -> Row] /\ counted \subseteq Persons /\ masterOpen \in BOOLEAN /\ held \subseteq Roles
    BY DEF RolesOfPeople
  <2>1. ASSUME NEW u \in Persons, NEW row \in Row, PersonBecomes(u, row), counted' \subseteq Persons
        PROVE  RolesOfPeople'
    <3>1. person' \in [Persons -> Row]
      BY <2>0, <2>1 DEF PersonBecomes
    <3>2. RoleAt(u, row, actorCall.target) \in Roles
      BY DEF RoleAt
    <3>3. held' \subseteq Roles /\ masterOpen' \in BOOLEAN
      BY <2>0, <2>1, <3>2 DEF PersonBecomes
    <3> QED
      BY <2>1, <3>1, <3>3 DEF RolesOfPeople
  <2>2. ASSUME NEW u \in Persons, NEW t \in Tenants, Joins(u, t) PROVE RolesOfPeople'
    <3>1. [person[u] EXCEPT !.tenant = t] \in Row
      BY <2>0
    <3> QED
      BY <2>0, <2>1, <2>2, <3>1 DEF Joins
  <2>3. ASSUME NEW u \in Persons, NEW s \in ShopTenants, IsGivenShop(u, s) PROVE RolesOfPeople'
    <3>1. [person[u] EXCEPT !.shop = s] \in Row
      BY <2>0
    <3> QED
      BY <2>0, <2>1, <2>3, <3>1 DEF IsGivenShop
  <2>4. ASSUME NEW u \in Persons, NEW role \in GlobalRoles, RoleAssigned(u, role) PROVE RolesOfPeople'
    <3>1. [person[u] EXCEPT !.roles = @ \union {role}] \in Row
      BY <2>0
    <3> QED
      BY <2>0, <2>1, <2>4, <3>1 DEF RoleAssigned
  <2>5. ASSUME NEW u \in Persons, NEW role \in GlobalRoles, RoleTaken(u, role) PROVE RolesOfPeople'
    <3>1. [person[u] EXCEPT !.roles = @ \ {role}] \in Row
      BY <2>0
    <3>2. counted' \subseteq Persons
      BY <2>0, <2>5 DEF RoleTaken
    <3> QED
      BY <2>1, <2>5, <3>1, <3>2 DEF RoleTaken
  <2>6. CASE (\E u \in Persons : AdminsCounted(u)) \/ (\E open \in BOOLEAN : MasterOpens(open))
    BY <2>0, <2>6 DEF AdminsCounted, MasterOpens, RolesOfPeople
  <2>7. CASE ContextRevalidated
    <3>1. RoleNow(actorCall.by, actorCall.target) \in Roles
      BY RolesAreRoles
    <3> QED
      BY <2>0, <2>7, <3>1 DEF ContextRevalidated, RolesOfPeople
  <2>8. CASE OperationEnds
    BY <2>0, <2>8 DEF OperationEnds, RolesOfPeople
  <2>9. CASE UNCHANGED <<person, counted, masterOpen, held>>
    BY <2>0, <2>9 DEF RolesOfPeople
  <2> QED
    BY <2>2, <2>3, <2>4, <2>5, <2>6, <2>7, <2>8, <2>9
       DEF ActorsNext, actorsVars, PageLetsIn, JobCalls, ContextResolved, OperationActs
<1>3. HeldInv /\ RolesOfPeople => ActorsTypeOK
  BY DEF HeldInv, CallHasItsType, CallOfActor, RolesOfPeople, ActorsTypeOK
<1> QED
  BY <1>1, <1>2, <1>3, HeldInitInvariant, HeldStepInvariant, PTL DEF ActorsSpec

OutboxRest ==
  /\ outboxClock \in 0..MaxOutboxClock
  /\ delivery \in [Notices -> {"NONE", "PENDING", "SENT", "FAILED", "SUPPRESSED"}]

\* Events, deliveries and dispatchers keep their types.
THEOREM OutboxTyped == OutboxSpec => []OutboxTypeOK
<1>1. OutboxInit => OutboxRest
  BY OutboxAssumption DEF OutboxInit, OutboxRest
<1>2. OutboxRest /\ [OutboxNext]_outboxVars => OutboxRest'
  <2> SUFFICES ASSUME OutboxRest, [OutboxNext]_outboxVars PROVE OutboxRest'
    OBVIOUS
  <2>1. CASE OutboxTick
    BY <2>1, OutboxAssumption DEF OutboxTick, OutboxRest
  <2>2. ASSUME NEW e \in Notices, EnsureDelivery(e) PROVE OutboxRest'
    BY <2>2 DEF EnsureDelivery, OutboxRest
  <2>3. ASSUME NEW d \in Dispatchers, RecordDelivery(d) PROVE OutboxRest'
    BY <2>3 DEF RecordDelivery, OutboxRest
  <2>4. CASE UNCHANGED <<outboxClock, delivery>>
    BY <2>4 DEF OutboxRest
  <2> QED
    BY <2>1, <2>2, <2>3, <2>4
       DEF OutboxNext, outboxVars, ListEvent, PublishNotice, FailNotice, RecordNoticeFailure, ListDelivery, SendDelivery,
           ClaimReply, SendReply, RecordReply, Die
<1>3. OutboxInv /\ OutboxRest => OutboxTypeOK
  BY DEF OutboxInv, OutboxTypes, Working, OutboxRest, OutboxTypeOK
<1> QED
  BY <1>1, <1>2, <1>3, OutboxInitInvariant, OutboxStepInvariant, PTL DEF OutboxSpec

\* Codes, bindings, messages and the handlers of them keep their types.
THEOREM ZaloTyped == ZaloSpec => []ZaloTypeOK
<1>1. ZaloInv => ZaloTypeOK
  BY DEF ZaloInv
<1> QED
  BY <1>1, ZaloInitInvariant, ZaloStepInvariant, PTL DEF ZaloSpec

-----------------------------------------------------------------------------
\* Whatever a part is proved to do alone it does on the platform.
THEOREM PartsKeepTheirSpecs ==
  PlatformSpec =>
    /\ SyncSpec /\ ImportSpec /\ LinkSpec /\ ConnectorsSpec /\ OffersSpec
    /\ IdentitySpec /\ TenancySpec /\ FundingSpec /\ DeletionSpec /\ AccessSpec /\ ActorsSpec
    /\ OutboxSpec /\ ZaloSpec
<1>1. PlatformInit =>
        /\ SyncInit /\ ImportInit /\ LinkInit /\ ConnectorsInit /\ OffersInit
        /\ IdentityInit /\ TenancyInit /\ FundingInit /\ DeletionInit /\ AccessInit /\ ActorsInit
        /\ OutboxInit /\ ZaloInit
  BY DEF PlatformInit
<1>2. [PlatformNext]_platformVars =>
        [SyncNext \/ OrdersNext]_syncVars /\ [ImportNext]_importVars /\ [LinkNext]_linkVars
          /\ [ConnectorsNext]_connectorsVars /\ [OffersNext]_offersVars
  BY DEF PlatformNext, platformVars, intakeVars, IntakeNext
<1>3. [PlatformNext]_platformVars =>
        [IdentityNext]_identityVars /\ [TenancyNext]_tenancyVars /\ [FundingNext]_fundingVars
          /\ [DeletionNext]_deletionVars /\ [AccessNext]_accessVars /\ [ActorsNext]_actorsVars
  BY DEF PlatformNext, platformVars, doorVars, DoorNext
<1>4. [PlatformNext]_platformVars => [OutboxNext]_outboxVars /\ [ZaloNext]_zaloVars
  BY DEF PlatformNext, platformVars, outgoingVars, OutgoingNext
<1> QED
  BY <1>1, <1>2, <1>3, <1>4, PTL
     DEF PlatformSpec, SyncSpec, ImportSpec, LinkSpec, ConnectorsSpec, OffersSpec, IdentitySpec, TenancySpec,
         FundingSpec, DeletionSpec, AccessSpec, ActorsSpec, OutboxSpec, ZaloSpec

\* All variables of the platform keep their types.
THEOREM PlatformTyped == PlatformSpec => []PlatformTypeOK
<1>1. /\ SyncTypeOK /\ ImportTypeOK /\ LinkTypeOK /\ ConnectorsTypeOK /\ OffersTypeOK
      /\ IdentityTypeOK /\ TenancyTypeOK /\ FundingTypeOK /\ DeletionTypeOK /\ AccessTypeOK /\ ActorsTypeOK
      /\ OutboxTypeOK /\ ZaloTypeOK
      => PlatformTypeOK
  BY DEF PlatformTypeOK
<1> QED
  BY <1>1, PartsKeepTheirSpecs, SyncTyped, ImportTyped, LinkTyped, ConnectorsTyped, OffersTyped, IdentityTyped,
     TenancyTyped, FundingTypeCorrect, DeletionTyped, AccessTyped, ActorsTyped, OutboxTyped, ZaloTyped, PTL

\* On the platform, with all its parts side by side, everything holds that the
\* parts promise of orders, accounts, shops, top-ups, messages and chats.
THEOREM PlatformKeepsItsPromises ==
  PlatformSpec =>
    /\ [](/\ NothingMissedBehindTheCursor /\ RoundsAreComplete /\ ImportsTellTheTruth
          /\ LinksAreIdempotent /\ LinksPayTheirShop /\ BlockedIsBarred /\ PaidDaysAreServed
          /\ TopupsAreSafe /\ DeletionsWereClear
          /\ MessagesAreNotRepeated /\ ReceiptsMeanReplies /\ ChatsServeTheirOwn)
    /\ ProvidersAreTrustedInTime
    /\ AccountsFollowClerk /\ SeatsAreRespected /\ AuthorityIsCurrent
<1>1. PlatformSpec =>
        /\ []NothingMissedBehindTheCursor /\ []RoundsAreComplete /\ []ImportsTellTheTruth
        /\ []LinksAreIdempotent /\ []LinksPayTheirShop /\ ProvidersAreTrustedInTime
  BY PartsKeepTheirSpecs, NothingStaysMissed, RoundsStayComplete, ImportsStayTruthful, KeysStandForOneLink,
     ShopsAreNotCrossed, ProvidersStayTrustedInTime, PTL
<1>2. PlatformSpec =>
        /\ []BlockedIsBarred /\ AccountsFollowClerk /\ []PaidDaysAreServed /\ SeatsAreRespected
        /\ []TopupsAreSafe /\ []DeletionsWereClear /\ AuthorityIsCurrent
  BY PartsKeepTheirSpecs, BlockedStayBarred, AccountsKeepFollowingClerk, PaidDaysStayServed, NoSeatIsTakenTwice,
     TopupsStaySafe, DeletesOnlyTheClear, AuthorityStaysCurrent, PTL
<1>3. PlatformSpec => []MessagesAreNotRepeated /\ []ReceiptsMeanReplies /\ []ChatsServeTheirOwn
  BY PartsKeepTheirSpecs, NobodyIsToldTwice, ReceiptsFollowReplies, ChatsStayInTheirShop, PTL
<1> QED
  BY <1>1, <1>2, <1>3, PTL
=============================================================================
