------------------------------- MODULE Outbox --------------------------------
(***************************************************************************)
(* The transactional outbox: events that become notifications, and the    *)
(* mail and push behind them (src/modules/notifications/dispatch.ts,       *)
(* src/modules/push/service.ts), and events that are replies to a Zalo     *)
(* chat (src/lib/zalo.ts).                                                 *)
(*                                                                         *)
(* Dispatchers overlap: QStash repeats a job, and every chat command runs  *)
(* one.  Each lists events first and works on what it has listed, so its   *)
(* view may be old.  A dispatcher may die between any two steps; it cannot *)
(* outlive the time the platform gives a function.                         *)
(***************************************************************************)
EXTENDS Integers, FiniteSets

CONSTANTS
  Notices,          \* outbox events that notify a user or the operators
  Replies,          \* outbox events of type zalo.reply.requested
  Dispatchers,      \* concurrent runs of the dispatch jobs
  Retries,          \* length of RETRY_DELAYS_MS and OUTBOX_RETRY_DELAYS_MS
  Lease,            \* how long the claim of a reply hides it
  Lifetime,         \* the longest a function runs: maxDuration
  MaxOutboxClock    \* bound: time

ASSUME OutboxAssumption ==
  /\ Retries \in Nat /\ Lifetime \in Nat /\ MaxOutboxClock \in Nat
  /\ Lease \in Nat /\ Lifetime < Lease
  /\ Notices \cap Replies = {}

VARIABLES
  event,        \* OutboxEvent rows
  dispatcher,   \* what a dispatcher works on
  delivery,     \* the NotificationDelivery of a notice by mail or push
  notified,     \* times a notice was turned into notifications
  replied,      \* times a reply left for the chat
  doubts,       \* times an attempt ended without the system knowing how
  outboxClock

outboxVars ==
  <<event, dispatcher, delivery, notified, replied, doubts, outboxClock>>

Events == Notices \union Replies
Resting == [at |-> "REST"]
OpenStatuses == {"PENDING", "FAILED"}

OutboxInit ==
  /\ event = [e \in Events |-> [status |-> "PENDING", attempts |-> 0, availableAt |-> 0]]
  /\ dispatcher = [d \in Dispatchers |-> Resting]
  /\ delivery = [e \in Notices |-> "NONE"]
  /\ notified = [e \in Notices |-> 0]
  /\ replied = [e \in Replies |-> 0]
  /\ doubts = [e \in Events |-> 0]
  /\ outboxClock = 0

\* The delays of the retries, all of them at least one unit of time.
RetryDelay == 1

-----------------------------------------------------------------------------
(* Both dispatchers.                                                       *)

\* findMany: what is open and due, as it is now.
ListEvent(d, e) ==
  /\ dispatcher[d] = Resting
  /\ event[e].status \in OpenStatuses
  /\ event[e].availableAt <= outboxClock
  /\ dispatcher' = [dispatcher EXCEPT ![d] =
       [at |-> IF e \in Replies THEN "REPLY_LISTED" ELSE "NOTICE_LISTED",
        event |-> e, seen |-> event[e], since |-> outboxClock]]
  /\ UNCHANGED <<event, delivery, notified, replied, doubts, outboxClock>>

\* The condition of the conditional update that claims an event.
StillAsSeen(d) ==
  LET e == dispatcher[d].event
  IN  /\ event[e].status = dispatcher[d].seen.status
      /\ event[e].attempts = dispatcher[d].seen.attempts

At(d, step) == dispatcher[d].at = step

AfterFailure(d) ==
  LET attempts == dispatcher[d].seen.attempts + 1
  IN  [status |-> IF attempts > Retries THEN "DEAD" ELSE "FAILED",
       attempts |-> attempts,
       availableAt |-> outboxClock + IF attempts > Retries THEN 0 ELSE RetryDelay]

Rest(d) == dispatcher' = [dispatcher EXCEPT ![d] = Resting]
GoOn(d, step) == dispatcher' = [dispatcher EXCEPT ![d].at = step]

-----------------------------------------------------------------------------
(* materializeOutboxNotifications.                                         *)

PublishListed(d) ==
  /\ At(d, "NOTICE_LISTED")
  /\ LET e == dispatcher[d].event
     IN  /\ event' = [event EXCEPT ![e].status = "PUBLISHED", ![e].attempts = @ + 1]
         /\ notified' = [notified EXCEPT ![e] = @ + 1]
  /\ Rest(d)
  /\ UNCHANGED <<delivery, replied, doubts, outboxClock>>

\* One transaction claims the event and writes the notifications.
PublishNotice(d) ==
  /\ At(d, "NOTICE_LISTED")
  /\ LET e == dispatcher[d].event
     IN  IF StillAsSeen(d)
         THEN /\ event' = [event EXCEPT ![e].status = "PUBLISHED", ![e].attempts = @ + 1]
              /\ notified' = [notified EXCEPT ![e] = @ + 1]
         ELSE UNCHANGED <<event, notified>>
  /\ Rest(d)
  /\ UNCHANGED <<delivery, replied, doubts, outboxClock>>

\* The transaction fails and leaves nothing.
FailNotice(d) ==
  /\ At(d, "NOTICE_LISTED")
  /\ GoOn(d, "NOTICE_FAILED")
  /\ UNCHANGED <<event, delivery, notified, replied, doubts, outboxClock>>

\* The failure is written by id, over whatever the event has become.
RecordNoticeFailure(d) ==
  /\ At(d, "NOTICE_FAILED")
  /\ event' = [event EXCEPT ![dispatcher[d].event] = AfterFailure(d)]
  /\ doubts' = [doubts EXCEPT ![dispatcher[d].event] = @ + 1]
  /\ Rest(d)
  /\ UNCHANGED <<delivery, notified, replied, outboxClock>>

-----------------------------------------------------------------------------
(* ensureDeliveries and the sending of deliveries.                         *)

EnsureDelivery(e) ==
  /\ notified[e] > 0
  /\ delivery[e] = "NONE"
  /\ delivery' = [delivery EXCEPT ![e] = "PENDING"]
  /\ UNCHANGED <<event, dispatcher, notified, replied, doubts, outboxClock>>

ListDelivery(d, e) ==
  /\ dispatcher[d] = Resting
  /\ delivery[e] = "PENDING"
  /\ dispatcher' = [dispatcher EXCEPT ![d] =
       [at |-> "MAIL_LISTED", event |-> e, seen |-> event[e], since |-> outboxClock]]
  /\ UNCHANGED <<event, delivery, notified, replied, doubts, outboxClock>>

\* Nothing claims a delivery: whoever has listed it sends it.  It is suppressed
\* when there is no address or no subscription left.
SendDelivery(d) ==
  /\ At(d, "MAIL_LISTED")
  /\ GoOn(d, "MAIL_SENT") \/ GoOn(d, "MAIL_FAILED") \/ GoOn(d, "MAIL_SUPPRESSED")
  /\ UNCHANGED <<event, delivery, notified, replied, doubts, outboxClock>>

RecordDelivery(d) ==
  /\ dispatcher[d].at \in {"MAIL_SENT", "MAIL_FAILED", "MAIL_SUPPRESSED"}
  /\ delivery' = [delivery EXCEPT ![dispatcher[d].event] =
       CASE At(d, "MAIL_SENT") -> "SENT"
         [] At(d, "MAIL_FAILED") -> "FAILED"
         [] OTHER -> "SUPPRESSED"]
  /\ Rest(d)
  /\ UNCHANGED <<event, notified, replied, doubts, outboxClock>>

-----------------------------------------------------------------------------
(* dispatchZaloOutbox.                                                     *)

ClaimWithoutLease(d) ==
  /\ At(d, "REPLY_LISTED")
  /\ LET e == dispatcher[d].event
     IN  IF StillAsSeen(d)
         THEN /\ event' = [event EXCEPT ![e] =
                   [status |-> "FAILED", attempts |-> @.attempts + 1,
                    availableAt |-> outboxClock]]
              /\ GoOn(d, "REPLY_CLAIMED")
         ELSE Rest(d) /\ UNCHANGED event
  /\ UNCHANGED <<delivery, notified, replied, doubts, outboxClock>>

\* The claim counts an attempt and hides the event for the lease.
ClaimReply(d) ==
  /\ At(d, "REPLY_LISTED")
  /\ LET e == dispatcher[d].event
     IN  IF StillAsSeen(d)
         THEN /\ event' = [event EXCEPT ![e] =
                   [status |-> "FAILED", attempts |-> @.attempts + 1,
                    availableAt |-> outboxClock + Lease]]
              /\ GoOn(d, "REPLY_CLAIMED")
         ELSE Rest(d) /\ UNCHANGED event
  /\ UNCHANGED <<delivery, notified, replied, doubts, outboxClock>>

\* The reply arrives, does not arrive, or arrives and the answer is lost.
SendReply(d) ==
  /\ At(d, "REPLY_CLAIMED")
  /\ LET e == dispatcher[d].event
     IN  \/ /\ replied' = [replied EXCEPT ![e] = @ + 1]
            /\ GoOn(d, "REPLY_SENT")
            /\ UNCHANGED doubts
         \/ /\ replied' = [replied EXCEPT ![e] = @ + 1]
            /\ GoOn(d, "REPLY_FAILED")
            /\ doubts' = [doubts EXCEPT ![e] = @ + 1]
         \/ /\ GoOn(d, "REPLY_FAILED")
            /\ UNCHANGED <<replied, doubts>>
  /\ UNCHANGED <<event, delivery, notified, outboxClock>>

\* Written by id; the attempt was counted by the claim.
RecordReply(d) ==
  /\ dispatcher[d].at \in {"REPLY_SENT", "REPLY_FAILED"}
  /\ LET e == dispatcher[d].event
     IN  event' = [event EXCEPT
           ![e].status = IF At(d, "REPLY_SENT") THEN "PUBLISHED" ELSE AfterFailure(d).status,
           ![e].availableAt = IF At(d, "REPLY_SENT") THEN @ ELSE AfterFailure(d).availableAt]
  /\ Rest(d)
  /\ UNCHANGED <<delivery, notified, replied, doubts, outboxClock>>

-----------------------------------------------------------------------------
(* Death of a dispatcher, and time.                                        *)

Die(d) ==
  /\ dispatcher[d] # Resting
  /\ doubts' = IF At(d, "REPLY_SENT")
               THEN [doubts EXCEPT ![dispatcher[d].event] = @ + 1] ELSE doubts
  /\ Rest(d)
  /\ UNCHANGED <<event, delivery, notified, replied, outboxClock>>

\* The platform ends a function that has used up its time.
OutboxTick ==
  /\ outboxClock < MaxOutboxClock
  /\ \A d \in Dispatchers :
       dispatcher[d] # Resting => outboxClock < dispatcher[d].since + Lifetime
  /\ outboxClock' = outboxClock + 1
  /\ UNCHANGED <<event, dispatcher, delivery, notified, replied, doubts>>

OutboxNext ==
  \/ \E d \in Dispatchers :
       \/ \E e \in Events : ListEvent(d, e)
       \/ PublishNotice(d) \/ FailNotice(d) \/ RecordNoticeFailure(d)
       \/ \E e \in Notices : ListDelivery(d, e)
       \/ SendDelivery(d) \/ RecordDelivery(d)
       \/ ClaimReply(d) \/ SendReply(d) \/ RecordReply(d)
       \/ Die(d)
  \/ \E e \in Notices : EnsureDelivery(e)
  \/ OutboxTick

OutboxSpec == OutboxInit /\ [][OutboxNext]_outboxVars

-----------------------------------------------------------------------------
EventRow ==
  [status: {"PENDING", "FAILED", "PUBLISHED", "DEAD"}, attempts: Nat, availableAt: Nat]

DispatcherSteps ==
  {"NOTICE_LISTED", "NOTICE_FAILED", "MAIL_LISTED", "MAIL_SENT", "MAIL_FAILED",
   "MAIL_SUPPRESSED", "REPLY_LISTED", "REPLY_CLAIMED", "REPLY_SENT", "REPLY_FAILED"}

\* Events, deliveries, counters and dispatchers have their types.
OutboxTypeOK ==
  /\ event \in [Events -> EventRow]
  /\ dispatcher \in [Dispatchers -> {Resting} \union
       [at: DispatcherSteps, event: Events, seen: EventRow, since: Nat]]
  /\ delivery \in [Notices -> {"NONE", "PENDING", "SENT", "FAILED", "SUPPRESSED"}]
  /\ notified \in [Notices -> Nat]
  /\ replied \in [Replies -> Nat] /\ doubts \in [Events -> Nat]
  /\ outboxClock \in 0..MaxOutboxClock

\* A chat gets a reply once, and again only for an attempt that died or lost its
\* answer: two dispatchers never hold one reply, as a claim outlasts its holder.
\* A notice becomes notifications once, and again only for a transaction that
\* failed while another dispatcher published it.
MessagesAreNotRepeated ==
  /\ \A e \in Replies : replied[e] <= 1 + doubts[e]
  /\ \A e \in Notices : notified[e] <= 1 + doubts[e]
=============================================================================
