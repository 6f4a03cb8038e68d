---------------------------- MODULE ProviderSync ----------------------------
(***************************************************************************)
(* How the jobs read an affiliate network (modules/jobs/runner.ts and the  *)
(* AccessTrade, Lazada and AddLiveTag connectors of modules/connectors).   *)
(* A sync run takes a window that ends when the run starts and begins a    *)
(* fixed overlap before the end of the last window that succeeded, reads   *)
(* it page by page, and stores the end of its window when the last page is *)
(* in.  AddLiveTag's clicks are read the same way, with a cursor of their  *)
(* own.  The order reconciliation reads one page of the order list per     *)
(* run, of the orders of the last Reach before the run.  No lock keeps two *)
(* runs of a job apart.  `feed' is the report that is read; it never       *)
(* changes.                                                                *)
(*                                                                         *)
(* The network's report is two stamps per row: the time of its transaction *)
(* and the time of its last change, each of which it may show up to Lag    *)
(* later.  The networks are asked by the time of the transaction, so that  *)
(* a row that changes long after its sale does not come back into a        *)
(* window.  Pages are numbered over whatever the window holds at the       *)
(* moment of the request, so a row that enters or leaves it between two    *)
(* requests shifts the rows behind it.                                     *)
(***************************************************************************)
EXTENDS Integers, FiniteSets

CONSTANTS
    SyncRuns,    \* concurrent executions of each job
    Rows,        \* rows of the network's report, 1..n
    Lag,         \* how late a change can show up in the report
    Overlap,     \* how far a window reaches back before the cursor (48 h)
    Reach,       \* how far one without a cursor, and the order list, reaches back
                 \* (60 days; clicks: 90)
    PageSize,    \* rows of one page (100; 4 in the order list)
    MaxPages,    \* pages after which a connector gives up (100)
    MaxSyncTime  \* bound of the model's clock

ASSUME LagWithinOverlap == Lag \in Nat /\ Overlap \in Nat /\ Lag <= Overlap
ASSUME RowsArePaged ==
    /\ Rows \subseteq Nat /\ IsFiniteSet(Rows)
    /\ PageSize \in Nat \ {0} /\ MaxPages \in Nat
ASSUME TimesAreNumbers == MaxSyncTime \in Nat /\ Reach \in Nat

VARIABLES
    feed,        \* the report: conversions of a network, or AddLiveTag's clicks
    syncTime,
    soldAt,      \* the network: time of each row's transaction, or Never
    rowStamp,    \* the network: time of each row's last change, or Never
    due,         \* newest change that a window of its time shows without fail
    ingested,    \* newest version of each row that ingestConversion has seen
    cursorEnd,   \* ConnectorCursor "conversions": windowEnd
    syncRun,     \* the executions of syncConversionsJob
    slipped,     \* rows a run passed over because its window changed under it
    orderCursor, \* ConnectorCursor "order-reconciliation": the page to read
    orderRun,    \* the executions of reconcileAccessTradeOrdersJob
    checked,     \* orders read since the round began
    lists,       \* the order lists that the runs of this round were shown
    overtaken    \* a run of an earlier round has set the cursor in this one

reportVars == <<soldAt, rowStamp, due>>
runVars == <<ingested, cursorEnd, syncRun, slipped>>
orderVars == <<orderCursor, orderRun, checked, lists, overtaken>>
syncVars == <<feed, syncTime, reportVars, runVars, orderVars>>

Feeds == {"ACCESSTRADE", "LAZADA", "ADDLIVETAG", "CLICKS"}
Never == -1
NoRun == [at |-> "NONE"]
Stamps == 0..MaxSyncTime
Shown == {r \in Rows : rowStamp[r] # Never}

SyncInit ==
    /\ feed \in Feeds
    /\ syncTime = 0
    /\ soldAt = [r \in Rows |-> Never]
    /\ rowStamp = [r \in Rows |-> Never]
    /\ due = [r \in Rows |-> Never]
    /\ ingested = [r \in Rows |-> Never]
    /\ cursorEnd = Never
    /\ syncRun = [n \in SyncRuns |-> NoRun]
    /\ slipped = {}
    /\ orderCursor = 1
    /\ orderRun = [n \in SyncRuns |-> NoRun]
    /\ checked = {}
    /\ lists = {}
    /\ overtaken = FALSE

-----------------------------------------------------------------------------
(* The network. *)

PassTime ==
    /\ syncTime < MaxSyncTime
    /\ syncTime' = syncTime + 1
    /\ UNCHANGED <<feed, reportVars, runVars, orderVars>>

Recent == {s \in Stamps : s <= syncTime /\ s >= syncTime - Lag}

\* A new row shows up.
ShowRow(r) ==
    /\ rowStamp[r] = Never
    /\ \E s \in Recent :
          /\ soldAt' = [soldAt EXCEPT ![r] = s]
          /\ rowStamp' = [rowStamp EXCEPT ![r] = s]
          /\ due' = [due EXCEPT ![r] = s]
    /\ UNCHANGED <<feed, syncTime, runVars, orderVars>>

\* The windows whose time a row's sale falls into have not all been asked for when
\* a change of this time shows up.
InTime(r, s) == s + Lag <= soldAt[r] + Overlap

\* A change of an old row; a click that was reported does not change.
ChangeRow(r) ==
    /\ feed # "CLICKS"
    /\ rowStamp[r] # Never
    /\ \E s \in Recent :
          /\ s > rowStamp[r]
          /\ rowStamp' = [rowStamp EXCEPT ![r] = s]
          /\ due' = [due EXCEPT ![r] = IF InTime(r, s) THEN s ELSE @]
    /\ UNCHANGED <<feed, syncTime, soldAt, runVars, orderVars>>

\* The rows a request is answered from.  The time asked for is the transaction's
\* (for Lazada in whole days, which the model's unit then is); AccessTrade is asked
\* for the same window of the last change as well, so that a row that changes while
\* it is being read leaves the window.
Sold(from, until) == {r \in Shown : soldAt[r] \in from..until}

Window(from, until) ==
    {r \in Sold(from, until) : feed = "ACCESSTRADE" => rowStamp[r] \in from..until}

Before(q, r) == \/ rowStamp[q] < rowStamp[r]
                \/ rowStamp[q] = rowStamp[r] /\ q < r

PageOf(rows, k) ==
    {r \in rows :
        Cardinality({q \in rows : Before(q, r)}) \div PageSize = k - 1}

-----------------------------------------------------------------------------
(* syncConversionsJob and syncAddLiveTagClicksJob. *)

\* Mutant: the window begins where the last one ended.
WindowWithoutOverlap(backfill) ==
    IF backfill \/ cursorEnd = Never THEN syncTime - Reach ELSE cursorEnd

\* The window: as far as it reaches on a backfill or without a cursor.
WindowStart(backfill) ==
    IF backfill \/ cursorEnd = Never THEN syncTime - Reach ELSE cursorEnd - Overlap

Begins(n, from) ==
    /\ syncRun[n] = NoRun
    /\ syncRun' = [syncRun EXCEPT ![n] =
          [at |-> "READ", from |-> from, until |-> syncTime,
           page |-> 1, got |-> 0, listing |-> {}, moved |-> FALSE]]
    /\ UNCHANGED <<feed, syncTime, reportVars, ingested, cursorEnd, slipped, orderVars>>

StartRun(n, backfill) == feed # "CLICKS" /\ Begins(n, WindowStart(backfill))

\* Clicks are never backfilled.
StartClicks(n) == feed = "CLICKS" /\ Begins(n, WindowStart(FALSE))

\* What the connector yields is ingested row by row; a click is marked once.
Ingest(rows) ==
    ingested' = [r \in Rows |-> IF r \in rows /\ rowStamp[r] > ingested[r]
                                THEN rowStamp[r] ELSE ingested[r]]

\* AccessTrade and AddLiveTag: the loop ends at an empty page or when it has
\* received as many rows as the network now counts.
AllReceived(got, page, rows) == page = {} \/ got >= Cardinality(rows)

\* Lazada: at a page that is not full or, where the answer tells the total, at
\* the page that reaches it.
ShortPage(k, page, rows) ==
    {Cardinality(page) < PageSize \/ (told /\ k * PageSize >= Cardinality(rows)) :
        told \in BOOLEAN}

Ended(run, page, rows) ==
    IF feed = "LAZADA" THEN ShortPage(run.page, page, rows)
    ELSE {AllReceived(run.got + Cardinality(page), page, rows)}

\* AddLiveTag's connector alone has no limit.
WithinLimit(run) == feed \in {"ACCESSTRADE", "LAZADA"} => run.page <= MaxPages

\* One request, and the rows of its answer.
ReadPage(n) ==
    LET run == syncRun[n]
        rows == Window(run.from, run.until)
        now == {<<r, rowStamp[r]>> : r \in rows}
        page == PageOf(rows, run.page)
    IN  /\ run.at = "READ"
        /\ WithinLimit(run)
        /\ Ingest(page)
        /\ slipped' = slipped \ page
        /\ \E last \in Ended(run, page, rows) :
              syncRun' = [syncRun EXCEPT ![n] =
                [run EXCEPT !.at = IF last THEN "COMMIT" ELSE "READ",
                            !.page = run.page + 1,
                            !.got = run.got + Cardinality(page),
                            !.listing = IF run.page = 1 THEN now ELSE run.listing,
                            !.moved = run.moved \/ (run.page > 1 /\ now # run.listing)]]
        /\ UNCHANGED <<feed, syncTime, reportVars, cursorEnd, orderVars>>

\* Rows of its time that the run has not read at a version it owed: its pages shifted,
\* or AccessTrade's row changed out of the window.
PassedOver(run) ==
    {r \in Sold(run.from, run.until) :
        /\ ingested[r] < due[r]
        /\ run.moved \/ (feed = "ACCESSTRADE" /\ rowStamp[r] > run.until)}

\* A run that started earlier may overwrite the cursor of one that started
\* later.
Commits(n) ==
    LET run == syncRun[n]
    IN  /\ run.at = "COMMIT"
        /\ cursorEnd' = run.until
        /\ slipped' = slipped \cup PassedOver(run)
        /\ syncRun' = [syncRun EXCEPT ![n] = NoRun]
        /\ UNCHANGED <<feed, syncTime, reportVars, ingested, orderVars>>

\* The run succeeded: SyncRun, cursor and (for conversions) health in one
\* transaction.
CommitRun(n) == feed # "CLICKS" /\ Commits(n)
CommitClicks(n) == feed = "CLICKS" /\ Commits(n)

\* Some rows of the page are in, and the cursor stays.
Fails(n) ==
    LET run == syncRun[n]
    IN  /\ run.at = "READ"
        /\ \E part \in SUBSET PageOf(Window(run.from, run.until), run.page) :
              /\ ~WithinLimit(run) => part = {}
              /\ Ingest(part)
              /\ slipped' = slipped \ part
        /\ syncRun' = [syncRun EXCEPT ![n] = NoRun]
        /\ UNCHANGED <<feed, syncTime, reportVars, cursorEnd, orderVars>>

\* A request, the ingestion of a row or the page limit throws, or the function
\* is killed.
FailRun(n) == feed # "CLICKS" /\ Fails(n)
FailClicks(n) == feed = "CLICKS" /\ Fails(n)

-----------------------------------------------------------------------------
(* reconcileAccessTradeOrdersJob: one page of the order list per run.      *)

\* The order list of a run's window, and the pages of a list.
OrderList(run) == Sold(run.from, run.until)

PageNumber(list, r) == Cardinality({q \in list : q < r}) \div PageSize + 1

OrderPage(list, k) == {r \in list : PageNumber(list, r) = k}

StartOrders(n) ==
    /\ orderRun[n] = NoRun
    /\ orderRun' = [orderRun EXCEPT ![n] =
          [at |-> "ORDERS", page |-> orderCursor, from |-> syncTime - Reach,
           until |-> syncTime, empty |-> FALSE, fresh |-> TRUE]]
    /\ UNCHANGED <<feed, syncTime, reportVars, runVars, orderCursor, checked, lists, overtaken>>

\* Every order of the page is checked against its products and details and
\* handed to ingestValidation; the run remembers how many it received.
ReadOrders(n) ==
    LET run == orderRun[n]
        list == OrderList(run)
        page == OrderPage(list, run.page)
    IN  /\ run.at = "ORDERS"
        /\ checked' = checked \cup page
        /\ lists' = IF run.fresh THEN lists \cup {list} ELSE lists
        /\ orderRun' = [orderRun EXCEPT ![n] = [run EXCEPT !.at = "NEXT", !.empty = (page = {})]]
        /\ UNCHANGED <<feed, syncTime, reportVars, runVars, orderCursor, overtaken>>

\* Mutant: pages counted from zero.
PageAfterFromZero(run) == IF run.empty THEN 0 ELSE run.page + 1

\* The next run reads the next page, or starts over after an empty one.
PageAfter(run) == IF run.empty THEN 1 ELSE run.page + 1

\* Any run overwrites the cursor.  Behind an empty page a round begins, in which every
\* run that has started is a run of an earlier one.
NextOrders(n) ==
    LET run == orderRun[n]
        rest == [orderRun EXCEPT ![n] = NoRun]
    IN  /\ run.at = "NEXT"
        /\ orderCursor' = PageAfter(run)
        /\ \/ /\ run.empty
              /\ orderRun' = [m \in SyncRuns |->
                    IF rest[m] = NoRun THEN NoRun ELSE [rest[m] EXCEPT !.fresh = FALSE]]
              /\ checked' = {} /\ lists' = {} /\ overtaken' = FALSE
           \/ /\ ~run.empty
              /\ orderRun' = rest
              /\ overtaken' = (overtaken \/ ~run.fresh)
              /\ UNCHANGED <<checked, lists>>
        /\ UNCHANGED <<feed, syncTime, reportVars, runVars>>

\* Mutant: a failed run moves to the next page as well.
FailOrdersOnward(n) ==
    /\ orderRun[n].at = "ORDERS"
    /\ orderCursor' = orderRun[n].page + 1
    /\ orderRun' = [orderRun EXCEPT ![n] = NoRun]
    /\ UNCHANGED <<feed, syncTime, reportVars, runVars, checked, lists, overtaken>>

\* A request or the ingestion of a row throws, or the function is killed: the
\* cursor stays, and the next run reads the same page again.
FailOrders(n) ==
    LET run == orderRun[n]
    IN  /\ run.at \in {"ORDERS", "NEXT"}
        /\ \E part \in SUBSET OrderPage(OrderList(run), run.page) :
              /\ run.at = "NEXT" => part = {}
              /\ checked' = checked \cup part
        /\ orderRun' = [orderRun EXCEPT ![n] = NoRun]
        /\ UNCHANGED <<feed, syncTime, reportVars, runVars, orderCursor, lists, overtaken>>

-----------------------------------------------------------------------------
NetworkNext ==
    \/ PassTime
    \/ \E r \in Rows : ShowRow(r) \/ ChangeRow(r)

SyncNext ==
    \/ NetworkNext
    \/ \E n \in SyncRuns :
          \/ \E backfill \in BOOLEAN : StartRun(n, backfill)
          \/ StartClicks(n)
          \/ ReadPage(n)
          \/ CommitRun(n) \/ CommitClicks(n)
          \/ FailRun(n) \/ FailClicks(n)

OrdersNext ==
    \/ NetworkNext
    \/ \E n \in SyncRuns :
          StartOrders(n) \/ ReadOrders(n) \/ NextOrders(n) \/ FailOrders(n)

SyncSpec == SyncInit /\ [][SyncNext \/ OrdersNext]_syncVars

-----------------------------------------------------------------------------
(* Properties. *)

SyncTypeOK ==
    /\ feed \in Feeds
    /\ syncTime \in Stamps
    /\ {soldAt, rowStamp, due, ingested} \subseteq [Rows -> Stamps \cup {Never}]
    /\ \A r \in Rows :
          /\ soldAt[r] <= due[r] /\ due[r] <= rowStamp[r]
          /\ ingested[r] <= rowStamp[r]
    /\ cursorEnd \in Stamps \cup {Never}
    /\ \A n \in SyncRuns : syncRun[n].at \in {"NONE", "READ", "COMMIT"}
    /\ slipped \subseteq Shown
    /\ orderCursor \in Nat \ {0}
    /\ \A n \in SyncRuns : orderRun[n].at \in {"NONE", "ORDERS", "NEXT"}
    /\ checked \subseteq Shown
    /\ lists \subseteq SUBSET Shown
    /\ overtaken \in BOOLEAN

\* No window to come reaches further back than the cursor less the overlap, so a row
\* sold before that has been ingested with every change that was due by then, as long
\* as it is not older than what any window reaches: with runs that overlap, fail
\* half-way or finish in the wrong order, and a network that is late, only a row
\* that a run passed over because the window changed under it is missing.  A change
\* that comes later than the overlap allows is not promised.
NothingMissedBehindTheCursor ==
    \A r \in Shown :
        \/ cursorEnd = Never
        \/ soldAt[r] >= cursorEnd - Overlap
        \/ soldAt[r] < syncTime - Reach
        \/ ingested[r] >= due[r]
        \/ r \in slipped

\* An order that stood on the same page whenever a run of this round asked for one.
StoodStill(r) ==
    \A l, m \in lists : r \in l /\ PageNumber(l, r) = PageNumber(m, r)

\* When a run finds no more orders, and is about to start the round over, every order
\* that stood still has been checked since the round began, whatever runs overlapped or
\* failed, and whatever came, went or changed around it: unless a run of an earlier
\* round has set the cursor meanwhile.
RoundsAreComplete ==
    \A n \in SyncRuns :
        orderRun[n].at = "NEXT" /\ orderRun[n].empty /\ orderRun[n].fresh /\ ~overtaken =>
          \A r \in UNION lists : StoodStill(r) => r \in checked
=============================================================================
