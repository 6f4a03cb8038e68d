---------------------------- MODULE ZaloAssistant ----------------------------
(***************************************************************************)
(* The Zalo chat assistant (src/lib/zalo.ts): codes that bind a group to a *)
(* shop, tokens that bind a chat member to a user, and the handling of a   *)
(* group message, which Zalo may deliver more than once and at once.       *)
(*                                                                         *)
(* A handler dies or is refused (rate limit, plan, expired shop) between   *)
(* any two of its steps; what is queued as a reply is sent by Outbox.      *)
(***************************************************************************)
EXTENDS Naturals, FiniteSets

CONSTANTS
  ChatShops,          \* tenants with the bot in their plan
  Members,        \* users of the shops
  ShopOf,         \* the tenant a user belongs to
  Chats,          \* Zalo groups
  Senders,        \* Zalo accounts
  GroupCodes,     \* codes ZL-..., as they are drawn
  UserTokens,     \* tokens ZU-..., as they are drawn
  ChatMessages,   \* message ids
  Deliveries      \* concurrent webhook calls

ASSUME ZaloAssumption == ShopOf \in [Members -> ChatShops]

VARIABLES
  groupCode,    \* ZaloBindingCode rows
  userToken,    \* ZaloUserBindingToken rows
  groupOf,      \* ZaloGroupBinding: the shop of a group, if bound
  identified,   \* ZaloUserBinding: the user an account stands for, if bound
  said,         \* what a message says, once it was delivered
  stood,        \* the users the sender of a message stood for since it was first delivered
  served,       \* the grant or links made for a message: the users they are for
  zaloReply,    \* the reply queued for a message, by its idempotency key
  receipt,      \* messages with a receipt in IdempotencyRecord
  call          \* webhook calls under way

zaloVars ==
  <<groupCode, userToken, groupOf, identified, said, stood, served, zaloReply, receipt, call>>

Unused == [state |-> "UNUSED"]
NoCall == [at |-> "NONE"]

Apart(bindings) ==
  \A y, z \in Senders : y # z => bindings[y] \cap bindings[z] = {}

\* Groups and accounts may have been bound before, by codes and tokens that are
\* consumed.
ZaloInit ==
  /\ groupCode = [c \in GroupCodes |-> Unused]
  /\ userToken = [t \in UserTokens |-> Unused]
  /\ groupOf \in [Chats -> {{}} \union {{shop} : shop \in ChatShops}]
  /\ identified \in [Senders -> {{}} \union {{u} : u \in Members}]
  /\ Apart(identified)
  /\ said = [m \in ChatMessages |-> {}]
  /\ stood = [m \in ChatMessages |-> {}]
  /\ served = [m \in ChatMessages |-> {}]
  /\ zaloReply = [m \in ChatMessages |-> {}]
  /\ receipt = {}
  /\ call = [d \in Deliveries |-> NoCall]

-----------------------------------------------------------------------------
(* Codes and tokens: a new one takes the place of the open ones.           *)

StillOpen(row) == row.state = "OPEN"

\* createZaloBindingCode.
CreateGroupCode(c, shop) ==
  /\ groupCode[c] = Unused
  /\ groupCode' = [x \in GroupCodes |->
       IF x = c THEN [state |-> "OPEN", shop |-> shop]
       ELSE IF StillOpen(groupCode[x]) /\ groupCode[x].shop = shop
       THEN [groupCode[x] EXCEPT !.state = "CONSUMED"] ELSE groupCode[x]]
  /\ UNCHANGED <<userToken, groupOf, identified, said, stood, served, zaloReply, receipt, call>>

\* createZaloUserBindingToken.
CreateUserToken(t, u) ==
  /\ userToken[t] = Unused
  /\ userToken' = [x \in UserTokens |->
       IF x = t THEN [state |-> "OPEN", user |-> u]
       ELSE IF StillOpen(userToken[x]) /\ userToken[x].user = u
       THEN [userToken[x] EXCEPT !.state = "CONSUMED"] ELSE userToken[x]]
  /\ UNCHANGED <<groupCode, groupOf, identified, said, stood, served, zaloReply, receipt, call>>

\* expiresAt of a user's binding has passed.
ExpireIdentity(z) ==
  /\ identified[z] # {}
  /\ identified' = [identified EXCEPT ![z] = {}]
  /\ UNCHANGED <<groupCode, userToken, groupOf, said, stood, served, zaloReply, receipt, call>>

-----------------------------------------------------------------------------
(* handleZaloBotIncomingUpdate.                                            *)

Texts ==
  [kind: {"LINK"}, code: GroupCodes] \union [kind: {"BIND"}, token: UserTokens]
  \union [kind: {"MONEY", "URL"}]

Stage(d, step) == call[d].at = step
ShopsHere(d) == groupOf[call[d].chat]
NextStage(d, step) == call' = [call EXCEPT ![d].at = step]
CallOver(d) == call' = [call EXCEPT ![d] = NoCall]

\* The first delivery of a message shows what it says; a message with a receipt
\* is answered as a duplicate, which changes nothing.
Deliver(d, m, g, z, text) ==
  /\ call[d] = NoCall
  /\ m \notin receipt
  /\ said[m] \in {{}, {[chat |-> g, sender |-> z, text |-> text]}}
  /\ said' = [said EXCEPT ![m] = {[chat |-> g, sender |-> z, text |-> text]}]
  /\ stood' = [stood EXCEPT ![m] = IF said[m] = {} THEN identified[z] ELSE @]
  /\ call' = [call EXCEPT ![d] =
       [at |-> "READ", message |-> m, chat |-> g, sender |-> z, text |-> text, user |-> {}]]
  /\ UNCHANGED <<groupCode, userToken, groupOf, identified, served, zaloReply, receipt>>

\* bindGroup: one transaction, under the lock of the code.
BindGroup(d) ==
  /\ Stage(d, "READ")
  /\ call[d].text.kind = "LINK"
  /\ LET c == call[d].text.code
     IN  /\ StillOpen(groupCode[c])
         /\ ShopsHere(d) \subseteq {groupCode[c].shop}
         /\ groupOf' = [groupOf EXCEPT ![call[d].chat] = {groupCode[c].shop}]
         /\ groupCode' = [groupCode EXCEPT ![c].state = "CONSUMED"]
  /\ NextStage(d, "BOUND")
  /\ UNCHANGED <<userToken, identified, said, stood, served, zaloReply, receipt>>

SaidBy(z) == {m \in ChatMessages : \E message \in said[m] : message.sender = z}

\* The older bindings of the account and of the user end.
Identify(z, u) ==
  [x \in Senders |-> IF x = z THEN {u} ELSE identified[x] \ {u}]

\* bindZaloUser: the token has to be of the group's shop.
BindUser(d) ==
  /\ Stage(d, "READ")
  /\ call[d].text.kind = "BIND"
  /\ LET t == call[d].text.token
     IN  /\ StillOpen(userToken[t])
         /\ ShopOf[userToken[t].user] \in ShopsHere(d)
         /\ identified' = Identify(call[d].sender, userToken[t].user)
         /\ stood' = [m \in ChatMessages |->
              IF m \in SaidBy(call[d].sender)
              THEN stood[m] \union {userToken[t].user} ELSE stood[m]]
         /\ userToken' = [userToken EXCEPT ![t].state = "CONSUMED"]
  /\ NextStage(d, "BOUND")
  /\ UNCHANGED <<groupCode, groupOf, said, served, zaloReply, receipt>>

AnyUserOf(d) == identified[call[d].sender]

\* The binding of the sender, in the shop of the group.
UserOfSender(d) == {u \in identified[call[d].sender] : ShopOf[u] \in ShopsHere(d)}

\* What a found user gets: a command may be locked by the tenant's settings.
Treatments(text) == IF text.kind = "MONEY" THEN {"SERVE", "LOCKED"} ELSE {"SERVE"}

\* A command or a link in a bound group: who is it?
ReadIdentity(d) ==
  /\ Stage(d, "READ")
  /\ call[d].text.kind \in {"MONEY", "URL"}
  /\ ShopsHere(d) # {}
  /\ \E step \in IF UserOfSender(d) = {} THEN {"ASK"} ELSE Treatments(call[d].text) :
       call' = [call EXCEPT ![d].user = UserOfSender(d), ![d].at = step]
  /\ UNCHANGED <<groupCode, userToken, groupOf, identified, said, stood, served, zaloReply, receipt>>

\* createZaloFinancialPortalGrant keeps the grant of an earlier delivery;
\* createAffiliateLink makes one link for each user a delivery finds.
Serve(d) ==
  /\ Stage(d, "SERVE")
  /\ served' = [served EXCEPT ![call[d].message] =
       IF call[d].text.kind = "MONEY" /\ @ # {} THEN @ ELSE @ \union call[d].user]
  /\ NextStage(d, "SERVED")
  /\ UNCHANGED <<groupCode, userToken, groupOf, identified, said, stood, zaloReply, receipt>>

\* queueReply: the first reply to a message stays.
QueueReply(d) ==
  /\ call[d].at \in {"BOUND", "ASK", "LOCKED", "SERVED"}
  /\ zaloReply' = [zaloReply EXCEPT ![call[d].message] = IF @ = {} THEN {call[d].at} ELSE @]
  /\ NextStage(d, "QUEUED")
  /\ UNCHANGED <<groupCode, userToken, groupOf, identified, said, stood, served, receipt>>

RecordAnyReceipt(d) ==
  /\ ~Stage(d, "NONE") /\ ~Stage(d, "READ")
  /\ receipt' = receipt \union {call[d].message}
  /\ CallOver(d)
  /\ UNCHANGED <<groupCode, userToken, groupOf, identified, said, stood, served, zaloReply>>

RecordReceipt(d) ==
  /\ Stage(d, "QUEUED")
  /\ receipt' = receipt \union {call[d].message}
  /\ CallOver(d)
  /\ UNCHANGED <<groupCode, userToken, groupOf, identified, said, stood, served, zaloReply>>

\* An error, a refusal or the death of the handler.
CallEnds(d) ==
  /\ call[d] # NoCall
  /\ CallOver(d)
  /\ UNCHANGED <<groupCode, userToken, groupOf, identified, said, stood, served, zaloReply, receipt>>

ZaloNext ==
  \/ \E c \in GroupCodes, shop \in ChatShops : CreateGroupCode(c, shop)
  \/ \E t \in UserTokens, u \in Members : CreateUserToken(t, u)
  \/ \E z \in Senders : ExpireIdentity(z)
  \/ \E d \in Deliveries :
       \/ \E m \in ChatMessages, g \in Chats, z \in Senders, text \in Texts :
            Deliver(d, m, g, z, text)
       \/ BindGroup(d) \/ BindUser(d) \/ ReadIdentity(d)
       \/ Serve(d) \/ QueueReply(d) \/ RecordReceipt(d) \/ CallEnds(d)

ZaloSpec == ZaloInit /\ [][ZaloNext]_zaloVars

-----------------------------------------------------------------------------
GroupMessage == [chat: Chats, sender: Senders, text: Texts]

\* Codes, bindings, messages and calls have their types.
ZaloTypeOK ==
  /\ groupCode \in [GroupCodes ->
       {Unused} \union [state: {"OPEN", "CONSUMED"}, shop: ChatShops]]
  /\ userToken \in [UserTokens ->
       {Unused} \union [state: {"OPEN", "CONSUMED"}, user: Members]]
  /\ groupOf \in [Chats -> SUBSET ChatShops]
  /\ identified \in [Senders -> SUBSET Members]
  /\ said \in [ChatMessages -> SUBSET GroupMessage]
  /\ stood \in [ChatMessages -> SUBSET Members]
  /\ served \in [ChatMessages -> SUBSET Members]
  /\ zaloReply \in [ChatMessages -> SUBSET {"BOUND", "ASK", "LOCKED", "SERVED"}]
  /\ receipt \subseteq ChatMessages
  /\ call \in [Deliveries -> {NoCall} \union
       [at: {"READ", "BOUND", "ASK", "LOCKED", "SERVE", "SERVED", "QUEUED"}, message: ChatMessages,
        chat: Chats, sender: Senders, text: Texts, user: SUBSET Members]]

\* A message whose repetition would be dropped as a duplicate has its reply in
\* the outbox, wherever its earlier deliveries died.
ReceiptsMeanReplies == \A m \in receipt : zaloReply[m] # {}

\* What is done for a message of a group is done for a user its sender stood for
\* since the message came, one user for a command, and of the group's own shop:
\* also when bindings of the same two race, or the sender's binding changes
\* between the deliveries of a message or under a handler (zalo.ts:128-150,
\* 423-430, 170-184).
ChatsServeTheirOwn ==
  /\ Apart(identified)
  /\ \A z \in Senders : Cardinality(identified[z]) <= 1
  /\ \A m \in ChatMessages : \A message \in said[m] :
       /\ \A u \in served[m] : u \in stood[m] /\ ShopOf[u] \in groupOf[message.chat]
       /\ message.text.kind = "MONEY" => Cardinality(served[m]) <= 1
=============================================================================
