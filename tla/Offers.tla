-------------------------------- MODULE Offers --------------------------------
(***************************************************************************)
(* The offers of the networks that the public pages show (syncOffersJob of *)
(* modules/jobs/runner.ts, listOffers of the connectors, app/deals).  A    *)
(* run asks a network for a page of its offers, stores them one by one,    *)
(* each with its own time to live, and asks for the next page; between two *)
(* of these steps the network may change or withdraw what it answered.     *)
(* Nothing removes an offer that is no longer listed: it stops being shown *)
(* when its time is over.                                                  *)
(*                                                                         *)
(* `shelf' is the network that is asked; it never changes.  Snapshots of   *)
(* two networks have different keys, and a run goes on to the next network *)
(* whatever came of this one.                                              *)
(***************************************************************************)
EXTENDS Integers, FiniteSets

CONSTANTS
  Deals,          \* offers of the network in its order, 1..n
  DealTexts,      \* what an offer can say: its price, its link
  OfferRuns,      \* concurrent runs of the job
  OfferPage,      \* offers of one page (100)
  MaxOfferPages,  \* pages a run asks for (20)
  MaxTries,       \* attempts of one request (2)
  OfferLife,      \* how long a snapshot is shown (24 h)
  OfferTime,      \* maxDuration of the jobs' route (300 s)
  MaxOfferClock   \* bound: the clock

ASSUME OffersAssumption ==
  /\ Deals \subseteq Nat
  /\ OfferLife \in Nat /\ OfferTime \in Nat /\ MaxOfferClock \in Nat

VARIABLES
  shelf,
  offerClock,
  market,         \* the network: what each offer says now, or Withdrawn
  lastSaid,       \* when an offer last said so at the network
  snapshot,       \* OfferSnapshot rows
  offerRun        \* the runs of syncOffersJob

offersVars == <<shelf, offerClock, market, lastSaid, snapshot, offerRun>>

Shelves == {"ACCESSTRADE", "ADDLIVETAG", "LAZADA"}
Withdrawn == "WITHDRAWN"
NeverSaid == -1
NoSnapshot == [says |-> Withdrawn, expires |-> 0]
NoOfferRun == [at |-> "NO_RUN"]

OffersInit ==
  /\ shelf \in Shelves
  /\ offerClock = 0
  /\ market = [d \in Deals |-> Withdrawn]
  /\ lastSaid = [d \in Deals |-> [c \in DealTexts |-> NeverSaid]]
  /\ snapshot = [d \in Deals |-> NoSnapshot]
  /\ offerRun = [n \in OfferRuns |-> NoOfferRun]

-----------------------------------------------------------------------------
(* Time, and the network.                                                  *)

OffersTick ==
  /\ offerClock < MaxOfferClock
  /\ \A n \in OfferRuns :
       offerRun[n] # NoOfferRun => offerClock < offerRun[n].since + OfferTime
  /\ offerClock' = offerClock + 1
  /\ lastSaid' = [d \in Deals |-> [c \in DealTexts |->
       IF market[d] = c THEN offerClock + 1 ELSE lastSaid[d][c]]]
  /\ UNCHANGED <<shelf, market, snapshot, offerRun>>

OfferChanges(d, content) ==
  /\ market[d] # content
  /\ market' = [market EXCEPT ![d] = content]
  /\ lastSaid' = [lastSaid EXCEPT ![d][content] = offerClock]
  /\ UNCHANGED <<shelf, offerClock, snapshot, offerRun>>

OfferLeaves(d) ==
  /\ market[d] # Withdrawn
  /\ market' = [market EXCEPT ![d] = Withdrawn]
  /\ UNCHANGED <<shelf, offerClock, lastSaid, snapshot, offerRun>>

\* What the network lists.
OnOffer == {d \in Deals : market[d] # Withdrawn}

-----------------------------------------------------------------------------
(* listOffers.                                                             *)

\* The k-th page of what is on offer at this moment.
OffersOfPage(k) ==
  {d \in OnOffer : Cardinality({e \in OnOffer : e < d}) \div OfferPage = k - 1}

\* AccessTrade's pages; AddLiveTag's one page, cut off at the limit; the other
\* connectors list nothing.
AccessTradePage(k) == OffersOfPage(k)
AddLiveTagPage == OffersOfPage(1)
NoOffers == {}

Answered(k) ==
  IF shelf = "ACCESSTRADE" THEN AccessTradePage(k)
  ELSE IF shelf = "ADDLIVETAG" THEN AddLiveTagPage
  ELSE NoOffers

\* Whether AccessTrade's answer names a next page: by the total, where it has one.
NextPages(k) ==
  {shelf = "ACCESSTRADE" /\ told /\ Cardinality(OnOffer) > k * OfferPage : told \in BOOLEAN}

-----------------------------------------------------------------------------
(* syncOffersJob, for one network.                                         *)

\* The connector is enabled and in mode ACTIVE or SHADOW.
StartOffers(n) ==
  /\ offerRun[n] = NoOfferRun
  /\ offerRun' = [offerRun EXCEPT ![n] =
       [at |-> "ASKS", since |-> offerClock, page |-> 1, tries |-> 1]]
  /\ UNCHANGED <<shelf, offerClock, market, lastSaid, snapshot>>

\* requestProviderJson: no answer in time, or one of the statuses worth a second
\* attempt.
TryAgain(n) ==
  LET run == offerRun[n] IN
  /\ run.at = "ASKS"
  /\ run.tries < MaxTries
  /\ offerRun' = [offerRun EXCEPT ![n].tries = run.tries + 1]
  /\ UNCHANGED <<shelf, offerClock, market, lastSaid, snapshot>>

ReadOffers(n) ==
  LET run == offerRun[n] IN
  /\ run.at = "ASKS"
  /\ \E more \in NextPages(run.page) :
       offerRun' = [offerRun EXCEPT ![n] =
         [at |-> "STORES", since |-> run.since, page |-> run.page, more |-> more,
          answer |-> [d \in Answered(run.page) |-> market[d]]]]
  /\ UNCHANGED <<shelf, offerClock, market, lastSaid, snapshot>>

\* Mutant: an offer the network did not change keeps its row for good.
KeptForGood(content) == [says |-> content, expires |-> MaxOfferClock + 1]

\* The row an offer gets: whatever it was before, its time starts now.
Snapshot(content) == [says |-> content, expires |-> offerClock + OfferLife]

\* The offers of the page, one upsert after the other in the answer's order.
StoreOffer(n) ==
  LET run == offerRun[n] IN
  /\ run.at = "STORES"
  /\ \E d \in DOMAIN run.answer :
       /\ \A e \in DOMAIN run.answer : d <= e
       /\ snapshot' = [snapshot EXCEPT ![d] = Snapshot(run.answer[d])]
       /\ offerRun' = [offerRun EXCEPT ![n].answer =
            [e \in DOMAIN run.answer \ {d} |-> run.answer[e]]]
  /\ UNCHANGED <<shelf, offerClock, market, lastSaid>>

TurnPage(n) ==
  LET run == offerRun[n] IN
  /\ run.at = "STORES"
  /\ DOMAIN run.answer = {}
  /\ offerRun' = [offerRun EXCEPT ![n] =
       IF run.more /\ run.page < MaxOfferPages
       THEN [at |-> "ASKS", since |-> run.since, page |-> run.page + 1, tries |-> 1]
       ELSE NoOfferRun]
  /\ UNCHANGED <<shelf, offerClock, market, lastSaid, snapshot>>

\* The request or a write throws, or the function is killed: what is stored stays.
\* AddLiveTag's connector answers an empty list to a request that fails, which
\* ends the run as well.
OffersFail(n) ==
  /\ offerRun[n] # NoOfferRun
  /\ offerRun' = [offerRun EXCEPT ![n] = NoOfferRun]
  /\ UNCHANGED <<shelf, offerClock, market, lastSaid, snapshot>>

OffersNext ==
  \/ OffersTick
  \/ \E d \in Deals : OfferLeaves(d) \/ \E c \in DealTexts : OfferChanges(d, c)
  \/ \E n \in OfferRuns :
       StartOffers(n) \/ TryAgain(n) \/ ReadOffers(n) \/ StoreOffer(n) \/ TurnPage(n) \/ OffersFail(n)

OffersSpec == OffersInit /\ [][OffersNext]_offersVars

-----------------------------------------------------------------------------
(* The pages.                                                              *)

\* The public list of offers: what is not over, of Shopee and AccessTrade.
Live(d) == /\ shelf \in {"ADDLIVETAG", "ACCESSTRADE"}
           /\ snapshot[d] # NoSnapshot
           /\ offerClock < snapshot[d].expires

\* DealsPage asks for the same.
OnThePage(d) == Live(d)

-----------------------------------------------------------------------------
\* Every variable holds a value of its kind.
OffersTypeOK ==
  /\ shelf \in Shelves
  /\ offerClock \in 0..MaxOfferClock
  /\ market \in [Deals -> DealTexts \union {Withdrawn}]
  /\ lastSaid \in [Deals -> [DealTexts -> Nat \union {NeverSaid}]]
  /\ snapshot \in [Deals -> [says: DealTexts \union {Withdrawn}, expires: Nat]]
  /\ \A n \in OfferRuns : offerRun[n].at \in {"NO_RUN", "ASKS", "STORES"}

SaidWithin(d, content, time) ==
  lastSaid[d][content] # NeverSaid /\ offerClock - lastSaid[d][content] <= time

\* What a page shows of an offer, the network did say, and not longer ago than a
\* snapshot lives and a run lasts: also when the offer changed or went away while
\* its page was being stored, when two runs store the pages they read in the wrong
\* order, and when a run ends half-way (runner.ts:541-580, deals/page.tsx:14-20).
DealsAreCurrent ==
  \A d \in Deals : OnThePage(d) => SaidWithin(d, snapshot[d].says, OfferLife + OfferTime)
=============================================================================
