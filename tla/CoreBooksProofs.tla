-------------------------- MODULE CoreBooksProofs ---------------------------
(***************************************************************************)
(* Proofs about the core's books, CoreConversion and BalanceAdjustment, for*)
(* every set of users, orders, sources, calls, adjustments and staff, and  *)
(* whatever the conversions do to the wallets between two adjustments.     *)
(***************************************************************************)
EXTENDS BalanceAdjustment, SumLemmas, TLAPS

-----------------------------------------------------------------------------
(* Who is behind an adjustment.                                            *)

\* A review that was read, and one that was written, is not the creator's own:
\* the creator of an adjustment never changes.
ReviewsAreByOthers ==
  /\ \A s \in Staff : \A a \in reviewing[s] :
       adjustment[a] # NoAdjustment /\ adjustment[a].creator # s
  /\ \A a \in Adjustments :
       adjustment[a] # NoAdjustment => adjustment[a].creator \notin adjustment[a].reviewer

AdjustmentInv == AdjustmentTypeOK /\ ReviewsAreByOthers /\ PostedByThreePeople

-----------------------------------------------------------------------------
LEMMA RowsAreThere ==
  ASSUME AdjustmentTypeOK, NEW a \in Adjustments
  PROVE  /\ adjustment[a] = NoAdjustment \/ adjustment[a] \in AdjustmentRow
         /\ \A row \in AdjustmentRow : row # NoAdjustment
         /\ adjustment[a].status # "NONE" => adjustment[a] \in AdjustmentRow
<1>1. adjustment[a] = NoAdjustment \/ adjustment[a] \in AdjustmentRow
  BY DEF AdjustmentTypeOK
<1>2. \A row \in AdjustmentRow : row # NoAdjustment
  BY DEF AdjustmentRow, NoAdjustment
<1>3. NoAdjustment.status = "NONE"
  BY DEF NoAdjustment
<1> QED
  BY <1>1, <1>2, <1>3

LEMMA AdjustmentInitInvariant == BooksInit => AdjustmentInv
<1> SUFFICES ASSUME AdjustmentInit PROVE AdjustmentInv
  BY DEF BooksInit
<1>1. AdjustmentTypeOK
  BY DEF AdjustmentInit, AdjustmentTypeOK
<1>2. ReviewsAreByOthers /\ PostedByThreePeople
  BY DEF AdjustmentInit, ReviewsAreByOthers, PostedByThreePeople
<1> QED
  BY <1>1, <1>2 DEF AdjustmentInv

-----------------------------------------------------------------------------
LEMMA DraftKeeps ==
  ASSUME AdjustmentInv, NEW a \in Adjustments, NEW s \in Staff, NEW u \in CoreUsers,
         NEW amount \in AdjustmentAmounts, DraftAdjustment(a, s, u, amount)
  PROVE  AdjustmentInv'
<1>1. /\ adjustment'[a] \in AdjustmentRow
      /\ adjustment'[a].creator = s /\ adjustment'[a].reviewer = {}
  BY DEF DraftAdjustment, AdjustmentInv, AdjustmentTypeOK, AdjustmentRow
<1>2. \A b \in Adjustments : b # a => adjustment'[b] = adjustment[b]
  BY DEF DraftAdjustment, AdjustmentInv, AdjustmentTypeOK
<1>3. AdjustmentTypeOK'
  BY <1>1 DEF DraftAdjustment, AdjustmentInv, AdjustmentTypeOK
<1>4. \A p \in Staff : \A b \in reviewing[p] : b # a /\ b \in Adjustments
  BY DEF DraftAdjustment, AdjustmentInv, ReviewsAreByOthers, AdjustmentTypeOK
<1>5. ReviewsAreByOthers'
  BY <1>1, <1>2, <1>4 DEF DraftAdjustment, AdjustmentInv, ReviewsAreByOthers
<1> QED
  BY <1>3, <1>5 DEF DraftAdjustment, AdjustmentInv, PostedByThreePeople

LEMMA ReviewReadKeeps ==
  ASSUME AdjustmentInv, NEW a \in Adjustments, NEW s \in Staff, ReviewRead(a, s)
  PROVE  AdjustmentInv'
<1>1. adjustment[a] \in AdjustmentRow /\ adjustment[a] # NoAdjustment
  BY RowsAreThere DEF ReviewRead, AdjustmentInv
<1>2. \A p \in Staff : reviewing'[p] = IF p = s THEN reviewing[p] \union {a} ELSE reviewing[p]
  BY DEF ReviewRead, AdjustmentInv, AdjustmentTypeOK
<1>3. AdjustmentTypeOK'
  BY DEF ReviewRead, AdjustmentInv, AdjustmentTypeOK
<1>4. ReviewsAreByOthers'
  BY <1>1, <1>2 DEF ReviewRead, AdjustmentInv, ReviewsAreByOthers
<1> QED
  BY <1>3, <1>4 DEF ReviewRead, AdjustmentInv, PostedByThreePeople

\* A late review writes over whatever the adjustment has become, even a posted
\* one; it stays a review by another than the creator.
LEMMA ReviewWriteKeeps ==
  ASSUME AdjustmentInv, NEW a \in Adjustments, NEW s \in Staff, ReviewWrite(a, s)
  PROVE  AdjustmentInv'
<1>1. adjustment[a] \in AdjustmentRow /\ adjustment[a].creator # s
  BY RowsAreThere DEF ReviewWrite, AdjustmentInv, ReviewsAreByOthers
<1>2. adjustment'[a] = [adjustment[a] EXCEPT !.status = "REVIEWED", !.reviewer = {s}]
  BY DEF ReviewWrite, AdjustmentInv, AdjustmentTypeOK
<1>3. /\ adjustment'[a] \in AdjustmentRow
      /\ adjustment'[a].creator = adjustment[a].creator /\ adjustment'[a].reviewer = {s}
  <2>1. adjustment'[a] = [status |-> "REVIEWED", user |-> adjustment[a].user,
                          amount |-> adjustment[a].amount, creator |-> adjustment[a].creator,
                          reviewer |-> {s}, approver |-> adjustment[a].approver]
    BY <1>1, <1>2 DEF AdjustmentRow
  <2> QED
    BY <1>1, <2>1 DEF AdjustmentRow
<1>4. \A b \in Adjustments : b # a => adjustment'[b] = adjustment[b]
  BY DEF ReviewWrite, AdjustmentInv, AdjustmentTypeOK
<1>5. AdjustmentTypeOK'
  BY <1>3 DEF ReviewWrite, AdjustmentInv, AdjustmentTypeOK
<1>6. \A p \in Staff : reviewing'[p] \subseteq reviewing[p] /\ reviewing[p] \subseteq Adjustments
  BY DEF ReviewWrite, AdjustmentInv, AdjustmentTypeOK
<1>7. adjustment'[a] # NoAdjustment
  BY <1>3 DEF AdjustmentRow, NoAdjustment
<1>8. ReviewsAreByOthers'
  <2>1. ASSUME NEW p \in Staff, NEW b \in reviewing'[p]
        PROVE  adjustment'[b] # NoAdjustment /\ adjustment'[b].creator # p
    <3>1. b \in reviewing[p] /\ b \in Adjustments
      BY <2>1, <1>6
    <3>2. adjustment[b] # NoAdjustment /\ adjustment[b].creator # p
      BY <3>1 DEF AdjustmentInv, ReviewsAreByOthers
    <3> QED
      BY <3>1, <3>2, <1>3, <1>4, <1>7
  <2>2. ASSUME NEW b \in Adjustments, adjustment'[b] # NoAdjustment
        PROVE  adjustment'[b].creator \notin adjustment'[b].reviewer
    <3>1. CASE b = a
      BY <3>1, <1>1, <1>3
    <3>2. CASE b # a
      BY <3>2, <2>2, <1>4 DEF AdjustmentInv, ReviewsAreByOthers
    <3> QED
      BY <3>1, <3>2
  <2> QED
    BY <2>1, <2>2 DEF ReviewsAreByOthers
<1> QED
  BY <1>5, <1>8 DEF ReviewWrite, AdjustmentInv, PostedByThreePeople

LEMMA PostKeeps ==
  ASSUME AdjustmentInv, NEW a \in Adjustments, NEW s \in Staff, PostAdjustment(a, s)
  PROVE  AdjustmentInv'
<1>1. adjustment[a] \in AdjustmentRow /\ adjustment[a] # NoAdjustment
  BY RowsAreThere DEF PostAdjustment, Approvable, AdjustmentInv
<1>2. /\ adjustment[a].reviewer # {}
      /\ s \notin adjustment[a].reviewer
      /\ adjustment[a].creator # s
      /\ adjustment[a].creator \notin adjustment[a].reviewer
  BY <1>1 DEF PostAdjustment, Approvable, AdjustmentInv, ReviewsAreByOthers
<1>3. adjustment'[a] = [adjustment[a] EXCEPT !.status = "POSTED", !.approver = {s}]
  BY DEF PostAdjustment, AdjustmentInv, AdjustmentTypeOK
<1>4. /\ adjustment'[a] \in AdjustmentRow
      /\ adjustment'[a].creator = adjustment[a].creator
      /\ adjustment'[a].reviewer = adjustment[a].reviewer
  <2>1. adjustment'[a] = [status |-> "POSTED", user |-> adjustment[a].user,
                          amount |-> adjustment[a].amount, creator |-> adjustment[a].creator,
                          reviewer |-> adjustment[a].reviewer, approver |-> {s}]
    BY <1>1, <1>3 DEF AdjustmentRow
  <2> QED
    BY <1>1, <2>1 DEF AdjustmentRow
<1>5. \A b \in Adjustments : b # a => adjustment'[b] = adjustment[b]
  BY DEF PostAdjustment, AdjustmentInv, AdjustmentTypeOK
<1>6. posting'[a] = Posting(a, s) /\ \A b \in Adjustments : b # a => posting'[b] = posting[b]
  BY DEF PostAdjustment, AdjustmentInv, AdjustmentTypeOK
<1>7. Posting(a, s) \in SUBSET PostingRow
  BY <1>1 DEF Posting, PostingRow, AdjustmentRow
<1>8. AdjustmentTypeOK'
  BY <1>4, <1>7 DEF PostAdjustment, AdjustmentInv, AdjustmentTypeOK
<1>9. adjustment'[a] # NoAdjustment
  BY <1>4 DEF AdjustmentRow, NoAdjustment
<1>10. ReviewsAreByOthers'
  <2>1. ASSUME NEW p \in Staff, NEW b \in reviewing[p]
        PROVE  adjustment'[b] # NoAdjustment /\ adjustment'[b].creator # p
    <3>1. b \in Adjustments
      BY <2>1 DEF AdjustmentInv, AdjustmentTypeOK
    <3>2. adjustment[b] # NoAdjustment /\ adjustment[b].creator # p
      BY <2>1 DEF AdjustmentInv, ReviewsAreByOthers
    <3> QED
      BY <3>1, <3>2, <1>4, <1>5, <1>9
  <2>2. ASSUME NEW b \in Adjustments, adjustment'[b] # NoAdjustment
        PROVE  adjustment'[b].creator \notin adjustment'[b].reviewer
    BY <2>2, <1>2, <1>4, <1>5 DEF AdjustmentInv, ReviewsAreByOthers
  <2> QED
    BY <2>1, <2>2 DEF ReviewsAreByOthers, PostAdjustment
<1>11. \A j \in Posting(a, s) :
         /\ j.reviewer # {} /\ j.approver # j.creator
         /\ j.approver \notin j.reviewer /\ j.creator \notin j.reviewer
  BY <1>2 DEF Posting
<1>12. PostedByThreePeople'
  BY <1>6, <1>11 DEF AdjustmentInv, PostedByThreePeople
<1> QED
  BY <1>8, <1>10, <1>12 DEF AdjustmentInv

\* Every step keeps the strengthened invariant; the conversions' steps do not
\* touch adjustments.
LEMMA AdjustmentStepInvariant == AdjustmentInv /\ [BooksNext]_booksVars => AdjustmentInv'
<1> SUFFICES ASSUME AdjustmentInv, [BooksNext]_booksVars PROVE AdjustmentInv'
  OBVIOUS
<1>1. ASSUME UNCHANGED adjustmentVars PROVE AdjustmentInv'
  BY <1>1 DEF adjustmentVars, AdjustmentInv, AdjustmentTypeOK, ReviewsAreByOthers, PostedByThreePeople
<1>2. ASSUME AdjustmentNext PROVE AdjustmentInv'
  BY <1>2, DraftKeeps, ReviewReadKeeps, ReviewWriteKeeps, PostKeeps DEF AdjustmentNext
<1> QED
  BY <1>1, <1>2 DEF BooksNext, booksVars

\* Money moves by an adjustment only with three different people behind it,
\* though a review reads and writes without a lock and may write over a posted
\* adjustment (adjustments.ts:54-140).
THEOREM ThreePeoplePost == BooksSpec => []PostedByThreePeople
<1>1. AdjustmentInv => PostedByThreePeople
  BY DEF AdjustmentInv
<1> QED
  BY AdjustmentInitInvariant, AdjustmentStepInvariant, <1>1, PTL DEF BooksSpec
-----------------------------------------------------------------------------
(* The conversions: what a row says, and what calls under way may rely on. *)

\* Only a validated conversion may be settled, nothing is settled twice, and an
\* order under a safety hold was delivered on the first day.
RowHolds(row) ==
  /\ row.settlement = "UNBILLED" => row.availableOn = NoDate
  /\ row.validation = "VALIDATED" => row.status = "VALIDATED"
  /\ row.validation = "VALIDATION_HOLD" => row.due = HoldDays

RowsHold == \A c \in ConversionIds : conversion[c] \in ConversionRow => RowHolds(conversion[c])

\* A conversion is known by its own identity first, and whatever an identity, a
\* call or the hold job names is there.
NamesHold ==
  /\ \A c \in ConversionIds : conversion[c] \in ConversionRow => identity[c] # {}
  /\ \A i \in ConversionIds : \A c \in identity[i] : conversion[c] \in ConversionRow
  /\ \A w \in Ingesters : ingest[w].step = "SAME" => conversion[ingest[w].of] \in ConversionRow
  /\ \A c \in ConversionIds :
       holdJob[c] # Idle => conversion[c] \in ConversionRow /\ HoldDays <= clock

Rows(v) == v \in [ConversionIds -> ConversionRow \union {NoConversion}]
MadeOf(v) == {c \in ConversionIds : v[c] \in ConversionRow}

\* However many orders there may be, only so many have been reported.
CoreInv == CoreTypeOK /\ RowsHold /\ NamesHold /\ IsFiniteSet(MadeOf(conversion))

LEMMA MadeRows ==
  ASSUME CoreTypeOK
  PROVE  /\ \A c \in ConversionIds : conversion[c].made <=> conversion[c] \in ConversionRow
         /\ MadeConversions = {c \in ConversionIds : conversion[c] \in ConversionRow}
         /\ NoConversion \notin ConversionRow
<1>1. NoConversion \notin ConversionRow /\ ~NoConversion.made
  BY DEF NoConversion, ConversionRow
<1>2. \A row \in ConversionRow : row.made
  BY DEF ConversionRow
<1>3. \A c \in ConversionIds : conversion[c] \in ConversionRow \/ conversion[c] = NoConversion
  BY DEF CoreTypeOK
<1> QED
  BY <1>1, <1>2, <1>3 DEF MadeConversions

LEMMA CashbackIsNat == \A n \in Nat : CashbackOf(n) \in Nat /\ CashbackOf(n) <= n
  BY SMT DEF CashbackOf

LEMMA HoldDaysFact == HoldDays \in Nat /\ HoldDays # NoDate /\ NoDate \notin Nat
  BY DEF HoldDays, NoDate

\* What a report may say.
LEMMA ReportFacts ==
  ASSUME NEW report \in Reports
  PROVE  /\ ConversionStatusOf(report) \in {"PENDING", "VALIDATED", "REJECTED"}
         /\ ValidationStatusOf(report) \in
              {"TRACKED", "VALIDATION_HOLD", "VALIDATED", "REVIEW_REQUIRED", "REJECTED"}
         /\ DueOf(report) \in Nat \union {NoDate}
         /\ report.net \in Nat /\ EffectiveNet(report) \in Nat
         /\ CashbackOf(EffectiveNet(report)) \in Nat /\ CashbackOf(report.net) \in Nat
         /\ ValidationStatusOf(report) = "VALIDATED" => ConversionStatusOf(report) = "VALIDATED"
         /\ ValidationStatusOf(report) = "VALIDATION_HOLD" => DueOf(report) = HoldDays
         /\ ConversionStatusOf(report) = "REJECTED" <=> report.status = "rejected"
         /\ ConversionStatusOf(report) = "REJECTED" => CashbackOf(EffectiveNet(report)) = 0
<1>1. report.status \in KnownStatuses /\ report.net \in Nat
  BY CoreConstantsAssumption DEF Reports
<1>2. EffectiveNet(report) \in Nat /\ (report.status = "rejected" => EffectiveNet(report) = 0)
  BY <1>1 DEF EffectiveNet
<1>3. DueOf(report) \in Nat \union {NoDate}
  BY HoldDaysFact DEF DueOf
<1>4. CashbackOf(0) = 0
  BY SMT DEF CashbackOf
<1>5. CashbackOf(EffectiveNet(report)) \in Nat /\ CashbackOf(report.net) \in Nat
  BY <1>1, <1>2, CashbackIsNat
<1>6. /\ ConversionStatusOf(report) \in {"PENDING", "VALIDATED", "REJECTED"}
      /\ ValidationStatusOf(report) \in
           {"TRACKED", "VALIDATION_HOLD", "VALIDATED", "REVIEW_REQUIRED", "REJECTED"}
  BY <1>1 DEF KnownStatuses, ConversionStatusOf, ValidationStatusOf
<1>7. /\ ValidationStatusOf(report) = "VALIDATED" => ConversionStatusOf(report) = "VALIDATED"
      /\ ValidationStatusOf(report) = "VALIDATION_HOLD" => DueOf(report) = HoldDays
      /\ ConversionStatusOf(report) = "REJECTED" <=> report.status = "rejected"
  BY <1>1 DEF KnownStatuses, ConversionStatusOf, ValidationStatusOf, DueOf
<1> QED
  BY <1>1, <1>2, <1>3, <1>4, <1>5, <1>6, <1>7

LEMMA RowFields ==
  ASSUME NEW row \in ConversionRow
  PROVE  /\ row.made \in {TRUE} /\ row.status \in {"PENDING", "VALIDATED", "REJECTED"}
         /\ row.validation \in
              {"TRACKED", "VALIDATION_HOLD", "VALIDATED", "REVIEW_REQUIRED", "REJECTED"}
         /\ row.settlement \in {"UNBILLED", "RELEASED", "REVERSED"}
         /\ row.authority \in 1..3 /\ row.net \in Nat /\ row.cashback \in Nat
         /\ row.availableOn \in Nat \union {NoDate} /\ row.due \in Nat \union {NoDate}
         /\ row.captured \in Nat /\ row.revisions \in Nat
         /\ row.hold \in {"NONE", "HELD", "RELEASED", "CANCELLED", "REVIEW_REQUIRED"}
         /\ row.openCase \in BOOLEAN
  BY DEF ConversionRow

\* What the operations make of a row.
Revised(row, report, weight, shift, open) ==
  [RowAfter(row, report, weight, shift) EXCEPT !.openCase = open]
Stamped(row, stamp, open) == [row EXCEPT !.captured = stamp, !.openCase = open]
Judged(row, status, validation, hold) ==
  [row EXCEPT !.status = status, !.validation = validation, !.hold = hold]
Settled(row, day) == [row EXCEPT !.settlement = "RELEASED", !.availableOn = day]

\* A revised row is a row; it keeps its day of release, and says REJECTED only
\* with nothing to pay.
LEMMA RevisedRow ==
  ASSUME NEW row \in ConversionRow, RowHolds(row), NEW report \in Reports, NEW weight \in 1..3,
         NEW shift, NEW open \in BOOLEAN, clock \in Nat,
         NEW new, new = Revised(row, report, weight, shift, open)
  PROVE  /\ new \in ConversionRow
         /\ RowHolds(new)
         /\ new.availableOn = row.availableOn
         /\ new.status = ConversionStatusOf(report)
         /\ new.cashback = CashbackOf(EffectiveNet(report))
         /\ new.revisions # row.revisions
<1> DEFINE status == ConversionStatusOf(report)
           validation == ValidationStatusOf(report)
           settlement == CorrectedSettlement(row, status)
           net == EffectiveNet(report)
           cashback == CashbackOf(net)
           due == DueOf(report)
           hold == HoldAfter(row, report)
           count == row.revisions + 1
<1>1. new = [made |-> row.made, status |-> status, validation |-> validation,
             settlement |-> settlement, authority |-> weight, net |-> net,
             cashback |-> cashback, availableOn |-> row.availableOn, due |-> due,
             captured |-> clock, revisions |-> count, hold |-> hold, openCase |-> open]
  BY DEF Revised, RowAfter, ConversionRow
<1>2. settlement \in {"UNBILLED", "RELEASED", "REVERSED"}
  BY DEF CorrectedSettlement, ConversionRow
<1>3. settlement = "UNBILLED" => row.settlement = "UNBILLED"
  BY DEF CorrectedSettlement
<1>4. hold \in {"NONE", "HELD", "RELEASED", "CANCELLED", "REVIEW_REQUIRED"}
  BY DEF HoldAfter, ConversionRow
<1>6. /\ row.made = TRUE /\ row.availableOn \in Nat \union {NoDate} /\ row.revisions \in Nat
      /\ row.settlement = "UNBILLED" => row.availableOn = NoDate
  BY DEF ConversionRow, RowHolds
<1>7. count \in Nat /\ count # row.revisions
  BY <1>6
<1>8. /\ status \in {"PENDING", "VALIDATED", "REJECTED"}
      /\ validation \in {"TRACKED", "VALIDATION_HOLD", "VALIDATED", "REVIEW_REQUIRED", "REJECTED"}
      /\ net \in Nat /\ cashback \in Nat /\ due \in Nat \union {NoDate}
      /\ validation = "VALIDATED" => status = "VALIDATED"
      /\ validation = "VALIDATION_HOLD" => due = HoldDays
  BY ReportFacts
<1> HIDE DEF status, validation, settlement, net, cashback, due, hold, count
<1>9. /\ new.availableOn = row.availableOn /\ new.status = status /\ new.cashback = cashback
      /\ new.revisions = count /\ new.validation = validation /\ new.due = due
      /\ new.settlement = settlement
  BY <1>1
<1>10. new \in ConversionRow
  <2>1. row \in ConversionRow /\ weight \in 1..3 /\ clock \in Nat /\ open \in BOOLEAN
    OBVIOUS
  <2>2. PICK judged : judged = [row EXCEPT !.status = status, !.validation = validation]
    OBVIOUS
  <2>3. judged \in ConversionRow
    BY ONLY <1>8, <2>1, <2>2 DEF ConversionRow
  <2>4. PICK moved : moved = [judged EXCEPT !.settlement = settlement, !.authority = weight]
    OBVIOUS
  <2>5. moved \in ConversionRow
    BY ONLY <1>2, <2>1, <2>3, <2>4 DEF ConversionRow
  <2>6. PICK priced : priced = [moved EXCEPT !.net = net, !.cashback = cashback, !.due = due]
    OBVIOUS
  <2>7. priced \in ConversionRow
    BY ONLY <1>8, <2>5, <2>6 DEF ConversionRow
  <2>8. PICK counted : counted = [priced EXCEPT !.captured = clock, !.revisions = count,
                                                !.hold = hold, !.openCase = open]
    OBVIOUS
  <2>9. counted \in ConversionRow
    BY ONLY <1>4, <1>7, <2>1, <2>7, <2>8 DEF ConversionRow
  <2>10. counted = new
    <3>1. moved = [made |-> row.made, status |-> status, validation |-> validation,
                   settlement |-> settlement, authority |-> weight, net |-> row.net,
                   cashback |-> row.cashback, availableOn |-> row.availableOn,
                   due |-> row.due, captured |-> row.captured,
                   revisions |-> row.revisions, hold |-> row.hold,
                   openCase |-> row.openCase]
      BY ONLY <2>1, <2>2, <2>4 DEF ConversionRow
    <3>2. priced = [made |-> row.made, status |-> status, validation |-> validation,
                    settlement |-> settlement, authority |-> weight, net |-> net,
                    cashback |-> cashback, availableOn |-> row.availableOn,
                    due |-> due, captured |-> row.captured,
                    revisions |-> row.revisions, hold |-> row.hold,
                    openCase |-> row.openCase]
      BY ONLY <2>6, <3>1
    <3>3. counted = [made |-> row.made, status |-> status, validation |-> validation,
                     settlement |-> settlement, authority |-> weight, net |-> net,
                     cashback |-> cashback, availableOn |-> row.availableOn,
                     due |-> due, captured |-> clock, revisions |-> count, hold |-> hold,
                     openCase |-> open]
      BY ONLY <2>8, <3>2
    <3> QED
      BY ONLY <1>1, <3>3
  <2> QED
    BY <2>9, <2>10
<1>11. RowHolds(new)
  BY <1>3, <1>6, <1>8, <1>9 DEF RowHolds
<1> QED
  BY <1>7, <1>9, <1>10, <1>11 DEF status, cashback, net

\* A report that changes nothing only stamps the row.
LEMMA StampedRow ==
  ASSUME NEW row \in ConversionRow, RowHolds(row), NEW stamp \in Nat, NEW open \in BOOLEAN,
         NEW new, new = Stamped(row, stamp, open)
  PROVE  /\ new \in ConversionRow /\ RowHolds(new)
         /\ new.availableOn = row.availableOn /\ new.status = row.status
         /\ new.cashback = row.cashback /\ new.revisions = row.revisions
<1>1. new = [made |-> row.made, status |-> row.status, validation |-> row.validation,
             settlement |-> row.settlement, authority |-> row.authority, net |-> row.net,
             cashback |-> row.cashback, availableOn |-> row.availableOn, due |-> row.due,
             captured |-> stamp, revisions |-> row.revisions, hold |-> row.hold,
             openCase |-> open]
  BY DEF Stamped, ConversionRow
<1>2. new \in ConversionRow
  <2>1. row \in ConversionRow /\ stamp \in Nat /\ open \in BOOLEAN
    OBVIOUS
  <2> QED
    BY ONLY <2>1, new = Stamped(row, stamp, open) DEF Stamped, ConversionRow
<1> QED
  BY <1>1, <1>2 DEF RowHolds

\* The hold job sends a row to a review, or validates it.
LEMMA JudgedRow ==
  ASSUME NEW row \in ConversionRow, RowHolds(row), NEW status, NEW validation, NEW hold,
         hold \in {"NONE", "HELD", "RELEASED", "CANCELLED", "REVIEW_REQUIRED"},
         \/ status = row.status /\ validation = "REVIEW_REQUIRED"
         \/ status = "VALIDATED" /\ validation = "VALIDATED",
         NEW new, new = Judged(row, status, validation, hold)
  PROVE  /\ new \in ConversionRow /\ RowHolds(new)
         /\ new.availableOn = row.availableOn /\ new.status = status
         /\ new.cashback = row.cashback /\ new.revisions = row.revisions
<1>1. new = [made |-> row.made, status |-> status, validation |-> validation,
             settlement |-> row.settlement, authority |-> row.authority, net |-> row.net,
             cashback |-> row.cashback, availableOn |-> row.availableOn, due |-> row.due,
             captured |-> row.captured, revisions |-> row.revisions, hold |-> hold,
             openCase |-> row.openCase]
  BY DEF Judged, ConversionRow
<1>2. new \in ConversionRow
  <2>1. /\ row \in ConversionRow
        /\ hold \in {"NONE", "HELD", "RELEASED", "CANCELLED", "REVIEW_REQUIRED"}
        /\ status \in {"PENDING", "VALIDATED", "REJECTED"}
        /\ validation \in {"VALIDATED", "REVIEW_REQUIRED"}
    BY RowFields
  <2> QED
    BY ONLY <2>1, new = Judged(row, status, validation, hold) DEF Judged, ConversionRow
<1>3. RowHolds(new)
  BY <1>1 DEF RowHolds
<1> QED
  BY <1>1, <1>2, <1>3

\* A settled row has its day of release and is no longer to be billed.
LEMMA SettledRow ==
  ASSUME NEW row \in ConversionRow, RowHolds(row), NEW day \in Nat,
         NEW new, new = Settled(row, day)
  PROVE  /\ new \in ConversionRow /\ RowHolds(new)
         /\ new.availableOn = day /\ new.status = row.status
         /\ new.cashback = row.cashback /\ new.revisions = row.revisions
<1>1. new = [made |-> row.made, status |-> row.status, validation |-> row.validation,
             settlement |-> "RELEASED", authority |-> row.authority, net |-> row.net,
             cashback |-> row.cashback, availableOn |-> day, due |-> row.due,
             captured |-> row.captured, revisions |-> row.revisions, hold |-> row.hold,
             openCase |-> row.openCase]
  BY DEF Settled, ConversionRow
<1>2. new \in ConversionRow
  <2>1. row \in ConversionRow /\ day \in Nat
    OBVIOUS
  <2> QED
    BY ONLY <2>1, new = Settled(row, day) DEF Settled, ConversionRow
<1> QED
  BY <1>1, <1>2 DEF RowHolds

\* What a first report makes.
LEMMA FirstRow ==
  ASSUME NEW report \in Reports, NEW weight \in 1..3, clock \in Nat
  PROVE  /\ NewRow(report, weight) \in ConversionRow
         /\ RowHolds(NewRow(report, weight))
         /\ NewRow(report, weight).availableOn = NoDate
         /\ NewRow(report, weight).cashback = CashbackOf(report.net)
         /\ NewRow(report, weight).status = ConversionStatusOf(report)
  BY ReportFacts DEF NewRow, ConversionRow, RowHolds

-----------------------------------------------------------------------------
(* Sums of cashback.                                                       *)

\* What a row adds to the pending and to the available side of its user.
Owing(row) == IF row.status # "REJECTED" /\ row.availableOn = NoDate THEN row.cashback ELSE 0
Freed(row) == IF row.availableOn # NoDate THEN row.cashback ELSE 0
OwingOf(v, u) ==
  [c \in ConversionIds |-> IF v[c] \in ConversionRow /\ UserOf(c) = u THEN Owing(v[c]) ELSE 0]
FreedOf(v, u) ==
  [c \in ConversionIds |-> IF v[c] \in ConversionRow /\ UserOf(c) = u THEN Freed(v[c]) ELSE 0]

Cashbacks(v, S) == MapThenSumSet(LAMBDA c : v[c].cashback, S)

LEMMA CashbackIsTotal ==
  ASSUME NEW v, NEW S, IsFiniteSet(S)
  PROVE  Cashbacks(v, S) = Total([c \in S |-> v[c].cashback], S)
<1> DEFINE f == [c \in S |-> v[c].cashback]
           h == CHOOSE iter : iter = [s \in SUBSET S |->
                   IF s = {} THEN 0 ELSE v[Some(s)].cashback + iter[Rest(s)]]
<1>1. \A s \in SUBSET S : s # {} => Some(s) \in S /\ f[Some(s)] = v[Some(s)].cashback
  BY DEF Some
<1>2. \A g : [s \in SUBSET S |-> IF s = {} THEN 0 ELSE f[Some(s)] + g[Rest(s)]]
              = [s \in SUBSET S |-> IF s = {} THEN 0 ELSE v[Some(s)].cashback + g[Rest(s)]]
  BY <1>1
<1>3. PICK g : Summer(g, f, S)
  BY SummerExists
<1>4. g = [s \in SUBSET S |-> IF s = {} THEN 0 ELSE v[Some(s)].cashback + g[Rest(s)]]
  BY <1>2, <1>3 DEF Summer
<1>5. h = [s \in SUBSET S |-> IF s = {} THEN 0 ELSE v[Some(s)].cashback + h[Rest(s)]]
  BY <1>4
<1>6. Cashbacks(v, S) = h[S]
  BY DEF Cashbacks, MapThenSumSet, MapThenFoldSet, Some, Rest
<1>7. Summer(h, f, S)
  BY <1>2, <1>5 DEF Summer
<1>8. PICK k : Summer(k, f, S) /\ Total(f, S) = k[S]
  BY TotalByFold
<1>9. h[S] = k[S]
  BY <1>7, <1>8, SummersAgree
<1> QED
  BY <1>6, <1>8, <1>9

\* Whatever is summed over some conversions is a sum over all that were made.
LEMMA CashbackOfSome ==
  ASSUME NEW v, Rows(v), IsFiniteSet(MadeOf(v)), NEW S, S \subseteq MadeOf(v),
         NEW f, \A c \in MadeOf(v) : f[c] = IF c \in S THEN v[c].cashback ELSE 0
  PROVE  Cashbacks(v, S) = Total(f, MadeOf(v))
<1>1. IsFiniteSet(S)
  BY FS_Subset
<1>2. Cashbacks(v, S) = Total([c \in S |-> v[c].cashback], S)
  BY <1>1, CashbackIsTotal
<1>3. Total([c \in S |-> v[c].cashback], S) = Total(f, S)
  BY <1>1, TotalExtends
<1>4. \A c \in MadeOf(v) : f[c] \in Int
  <2>1. \A row \in ConversionRow : row.cashback \in Int
    BY DEF ConversionRow
  <2> QED
    BY <2>1 DEF MadeOf
<1>5. Total(f, MadeOf(v)) = Total(f, S)
  BY <1>4, TotalWithin
<1> QED
  BY <1>2, <1>3, <1>5

LEMMA OwedIsTotal ==
  ASSUME CoreTypeOK, IsFiniteSet(MadeOf(conversion)), NEW u \in CoreUsers
  PROVE  /\ Owed(u) = Total(OwingOf(conversion, u), MadeOf(conversion))
         /\ Released(u) = Total(FreedOf(conversion, u), MadeOf(conversion))
<1> DEFINE S == {c \in MadeConversions : /\ UserOf(c) = u
                                         /\ conversion[c].status # "REJECTED"
                                         /\ conversion[c].availableOn = NoDate}
           T == {c \in MadeConversions : UserOf(c) = u /\ conversion[c].availableOn # NoDate}
<1>1. Rows(conversion) /\ MadeConversions = MadeOf(conversion)
  BY MadeRows DEF Rows, MadeOf, CoreTypeOK
<1>2. Owed(u) = Cashbacks(conversion, S) /\ Released(u) = Cashbacks(conversion, T)
  BY DEF Owed, Released, CashbackSum, Cashbacks
<1>3. S \subseteq MadeOf(conversion) /\ T \subseteq MadeOf(conversion)
  BY <1>1
<1>4. \A c \in MadeOf(conversion) :
        /\ OwingOf(conversion, u)[c] = IF c \in S THEN conversion[c].cashback ELSE 0
        /\ FreedOf(conversion, u)[c] = IF c \in T THEN conversion[c].cashback ELSE 0
  BY <1>1 DEF OwingOf, FreedOf, Owing, Freed, MadeOf
<1> HIDE DEF S, T
<1>5. Cashbacks(conversion, S) = Total(OwingOf(conversion, u), MadeOf(conversion))
  BY <1>1, <1>3, <1>4, CashbackOfSome
<1>6. Cashbacks(conversion, T) = Total(FreedOf(conversion, u), MadeOf(conversion))
  BY <1>1, <1>3, <1>4, CashbackOfSome
<1> QED
  BY <1>2, <1>5, <1>6

LEMMA SharesAreInts ==
  ASSUME NEW v, Rows(v), NEW u, NEW c \in MadeOf(v)
  PROVE  /\ OwingOf(v, u)[c] \in Nat /\ FreedOf(v, u)[c] \in Nat
         /\ OwingOf(v, u)[c] = IF UserOf(c) = u THEN Owing(v[c]) ELSE 0
         /\ FreedOf(v, u)[c] = IF UserOf(c) = u THEN Freed(v[c]) ELSE 0
         /\ c \in ConversionIds
<1>1. \A row \in ConversionRow : row.cashback \in Nat
  BY DEF ConversionRow
<1>2. c \in ConversionIds /\ v[c] \in ConversionRow
  BY DEF MadeOf
<1>3. Owing(v[c]) \in Nat /\ Freed(v[c]) \in Nat
  BY <1>1, <1>2 DEF Owing, Freed
<1> QED
  BY <1>2, <1>3 DEF OwingOf, FreedOf

\* A step that rewrites one row moves what its user is owed or was given by what
\* that row did.
LEMMA OneRowChanges ==
  ASSUME NEW v, Rows(v), IsFiniteSet(MadeOf(v)), NEW c \in MadeOf(v), NEW row \in ConversionRow,
         NEW w, Rows(w), w[c] = row, \A d \in ConversionIds : d # c => w[d] = v[d], NEW u
  PROVE  /\ MadeOf(w) = MadeOf(v)
         /\ Total(OwingOf(w, u), MadeOf(w)) =
              Total(OwingOf(v, u), MadeOf(v))
                + (IF UserOf(c) = u THEN Owing(row) - Owing(v[c]) ELSE 0)
         /\ Total(FreedOf(w, u), MadeOf(w)) =
              Total(FreedOf(v, u), MadeOf(v))
                + (IF UserOf(c) = u THEN Freed(row) - Freed(v[c]) ELSE 0)
         /\ Total(OwingOf(v, u), MadeOf(v)) \in Int /\ Total(FreedOf(v, u), MadeOf(v)) \in Int
<1>1. Rows(w) /\ MadeOf(w) = MadeOf(v) /\ w[c] = row /\ \A d \in MadeOf(v) : d # c => w[d] = v[d]
  BY DEF Rows, MadeOf
<1>2. \A d \in MadeOf(v) :
        /\ OwingOf(v, u)[d] \in Int /\ FreedOf(v, u)[d] \in Int
        /\ OwingOf(v, u)[d] = IF UserOf(d) = u THEN Owing(v[d]) ELSE 0
        /\ FreedOf(v, u)[d] = IF UserOf(d) = u THEN Freed(v[d]) ELSE 0
  BY SharesAreInts
<1>3. \A d \in MadeOf(v) :
        /\ OwingOf(w, u)[d] \in Int /\ FreedOf(w, u)[d] \in Int
        /\ OwingOf(w, u)[d] = IF UserOf(d) = u THEN Owing(w[d]) ELSE 0
        /\ FreedOf(w, u)[d] = IF UserOf(d) = u THEN Freed(w[d]) ELSE 0
  <2>1. Rows(w)
    BY <1>1
  <2>2. ASSUME NEW d \in MadeOf(w)
        PROVE  /\ OwingOf(w, u)[d] \in Int /\ FreedOf(w, u)[d] \in Int
               /\ OwingOf(w, u)[d] = IF UserOf(d) = u THEN Owing(w[d]) ELSE 0
               /\ FreedOf(w, u)[d] = IF UserOf(d) = u THEN Freed(w[d]) ELSE 0
    BY ONLY <2>1, <2>2, SharesAreInts
  <2> QED
    BY <1>1, <2>2
<1> DEFINE S == MadeOf(v)
           owing == OwingOf(v, u)
           freed == FreedOf(v, u)
           owing2 == OwingOf(w, u)
           freed2 == FreedOf(w, u)
<1>4. /\ owing[c] = IF UserOf(c) = u THEN Owing(v[c]) ELSE 0
      /\ freed[c] = IF UserOf(c) = u THEN Freed(v[c]) ELSE 0
      /\ owing2[c] = IF UserOf(c) = u THEN Owing(row) ELSE 0
      /\ freed2[c] = IF UserOf(c) = u THEN Freed(row) ELSE 0
      /\ owing[c] \in Int /\ freed[c] \in Int /\ owing2[c] \in Int /\ freed2[c] \in Int
  BY <1>1, <1>2, <1>3
<1>5. /\ \A x \in S : owing[x] \in Int /\ owing2[x] \in Int
      /\ \A x \in S : freed[x] \in Int /\ freed2[x] \in Int
      /\ \A x \in S : x # c => owing2[x] = owing[x]
      /\ \A x \in S : x # c => freed2[x] = freed[x]
      /\ IsFiniteSet(S) /\ c \in S
  BY <1>1, <1>2, <1>3
<1>6. Rows(w) /\ MadeOf(w) = S
  BY <1>1
<1> HIDE DEF S, owing, freed, owing2, freed2
<1>7. Total(owing, S) \in Int /\ Total(freed, S) \in Int
  BY <1>5, TotalInt
<1>8. Total(owing2, S) = Total(owing, S) + owing2[c] - owing[c]
  BY <1>5, TotalChange
<1>9. Total(freed2, S) = Total(freed, S) + freed2[c] - freed[c]
  BY <1>5, TotalChange
<1>10. /\ Total(owing2, S) = Total(owing, S)
             + (IF UserOf(c) = u THEN Owing(row) - Owing(v[c]) ELSE 0)
       /\ Total(freed2, S) = Total(freed, S)
             + (IF UserOf(c) = u THEN Freed(row) - Freed(v[c]) ELSE 0)
  BY <1>4, <1>7, <1>8, <1>9
<1> QED
  BY <1>6, <1>7, <1>10 DEF S, owing, freed, owing2, freed2

\* A first report adds one row, owed to the user behind its click.
LEMMA OneRowAdded ==
  ASSUME NEW v, Rows(v), IsFiniteSet(MadeOf(v)), NEW c \in ConversionIds, c \notin MadeOf(v),
         NEW row \in ConversionRow, NEW w, Rows(w), w[c] = row,
         \A d \in ConversionIds : d # c => w[d] = v[d], NEW u
  PROVE  /\ MadeOf(w) = MadeOf(v) \union {c} /\ IsFiniteSet(MadeOf(w))
         /\ Total(OwingOf(w, u), MadeOf(w)) =
              Total(OwingOf(v, u), MadeOf(v)) + (IF UserOf(c) = u THEN Owing(row) ELSE 0)
         /\ Total(FreedOf(w, u), MadeOf(w)) =
              Total(FreedOf(v, u), MadeOf(v)) + (IF UserOf(c) = u THEN Freed(row) ELSE 0)
         /\ Total(OwingOf(v, u), MadeOf(v)) \in Int /\ Total(FreedOf(v, u), MadeOf(v)) \in Int
<1>1. /\ Rows(w) /\ MadeOf(w) = MadeOf(v) \union {c} /\ w[c] = row
      /\ \A d \in MadeOf(v) : w[d] = v[d]
  BY DEF Rows, MadeOf
<1>2. IsFiniteSet(MadeOf(v) \union {c})
  BY FS_AddElement
<1>3. \A d \in MadeOf(v) :
        /\ OwingOf(v, u)[d] \in Int /\ FreedOf(v, u)[d] \in Int
        /\ OwingOf(v, u)[d] = IF UserOf(d) = u THEN Owing(v[d]) ELSE 0
        /\ FreedOf(v, u)[d] = IF UserOf(d) = u THEN Freed(v[d]) ELSE 0
  BY SharesAreInts
<1>4. ASSUME NEW d \in MadeOf(w)
      PROVE  /\ OwingOf(w, u)[d] \in Int /\ FreedOf(w, u)[d] \in Int
             /\ OwingOf(w, u)[d] = IF UserOf(d) = u THEN Owing(w[d]) ELSE 0
             /\ FreedOf(w, u)[d] = IF UserOf(d) = u THEN Freed(w[d]) ELSE 0
  <2>1. Rows(w)
    BY <1>1
  <2> QED
    BY ONLY <2>1, <1>4, SharesAreInts
<1> DEFINE S == MadeOf(v)
           owing == OwingOf(v, u)
           freed == FreedOf(v, u)
           owing2 == OwingOf(w, u)
           freed2 == FreedOf(w, u)
<1>5. /\ \A x \in S : owing2[x] \in Int
      /\ \A x \in S : freed2[x] \in Int
      /\ \A x \in S : owing[x] \in Int
      /\ \A x \in S : freed[x] \in Int
      /\ \A x \in S : owing2[x] = owing[x]
      /\ \A x \in S : freed2[x] = freed[x]
      /\ IsFiniteSet(S) /\ c \notin S
  BY <1>1, <1>3, <1>4
<1>6. /\ owing2[c] = IF UserOf(c) = u THEN Owing(row) ELSE 0
      /\ freed2[c] = IF UserOf(c) = u THEN Freed(row) ELSE 0
      /\ owing2[c] \in Int /\ freed2[c] \in Int
  BY <1>1, <1>4
<1>7. Rows(w) /\ MadeOf(w) = S \union {c} /\ IsFiniteSet(S \union {c})
  BY <1>1, <1>2
<1> HIDE DEF S, owing, freed, owing2, freed2
<1>8. Total(owing, S) \in Int /\ Total(freed, S) \in Int
  BY <1>5, TotalInt
<1>9. Total(owing2, S) = Total(owing, S) /\ Total(freed2, S) = Total(freed, S)
  BY <1>5, TotalExtends
<1>10. Total(owing2, S \union {c}) = owing2[c] + Total(owing2, S)
  BY <1>5, <1>6, TotalAdd
<1>11. Total(freed2, S \union {c}) = freed2[c] + Total(freed2, S)
  BY <1>5, <1>6, TotalAdd
<1>12. /\ Total(owing2, S \union {c}) =
            Total(owing, S) + (IF UserOf(c) = u THEN Owing(row) ELSE 0)
       /\ Total(freed2, S \union {c}) =
            Total(freed, S) + (IF UserOf(c) = u THEN Freed(row) ELSE 0)
  BY <1>6, <1>8, <1>9, <1>10, <1>11
<1> QED
  BY <1>7, <1>8, <1>12 DEF S, owing, freed, owing2, freed2

\* The rows cs go from the pending to the available side, the others stay.
Releases(v, w, cs) ==
  /\ \A c \in ConversionIds \ cs : w[c] = v[c]
  /\ \A c \in cs : /\ w[c] \in ConversionRow
                   /\ Owing(v[c]) = v[c].cashback /\ Freed(v[c]) = 0
                   /\ Owing(w[c]) = 0 /\ Freed(w[c]) = v[c].cashback

\* A settlement moves what it settles from the pending to the available side.
LEMMA SomeAreReleased ==
  ASSUME NEW v, Rows(v), IsFiniteSet(MadeOf(v)), NEW cs, cs \subseteq MadeOf(v), NEW w, Rows(w),
         Releases(v, w, cs), NEW u, NEW x, x = Cashbacks(v, OfUser(cs, u))
  PROVE  /\ MadeOf(w) = MadeOf(v)
         /\ Total(OwingOf(w, u), MadeOf(w)) = Total(OwingOf(v, u), MadeOf(v)) - x
         /\ Total(FreedOf(w, u), MadeOf(w)) = Total(FreedOf(v, u), MadeOf(v)) + x
         /\ Total(OwingOf(v, u), MadeOf(v)) \in Int /\ Total(FreedOf(v, u), MadeOf(v)) \in Int
         /\ x \in Nat
<1>0. /\ \A c \in ConversionIds \ cs : w[c] = v[c]
      /\ \A c \in cs : /\ w[c] \in ConversionRow
                       /\ Owing(v[c]) = v[c].cashback /\ Freed(v[c]) = 0
                       /\ Owing(w[c]) = 0 /\ Freed(w[c]) = v[c].cashback
  BY DEF Releases
<1>1. MadeOf(w) = MadeOf(v) /\ cs \subseteq ConversionIds
  BY <1>0 DEF Rows, MadeOf
<1>2. \A row \in ConversionRow : row.cashback \in Nat
  BY DEF ConversionRow
<1>3. \A d \in MadeOf(v) :
        /\ OwingOf(v, u)[d] \in Int /\ FreedOf(v, u)[d] \in Int
        /\ OwingOf(v, u)[d] = IF UserOf(d) = u THEN Owing(v[d]) ELSE 0
        /\ FreedOf(v, u)[d] = IF UserOf(d) = u THEN Freed(v[d]) ELSE 0
        /\ d \in ConversionIds
  BY SharesAreInts
<1>4. ASSUME NEW d \in MadeOf(w)
      PROVE  /\ OwingOf(w, u)[d] \in Int /\ FreedOf(w, u)[d] \in Int
             /\ OwingOf(w, u)[d] = IF UserOf(d) = u THEN Owing(w[d]) ELSE 0
             /\ FreedOf(w, u)[d] = IF UserOf(d) = u THEN Freed(w[d]) ELSE 0
  <2>1. Rows(w)
    OBVIOUS
  <2> QED
    BY ONLY <2>1, <1>4, SharesAreInts
<1> DEFINE S == MadeOf(v)
           T == OfUser(cs, u)
           d == [c \in MadeOf(v) |-> IF c \in T THEN v[c].cashback ELSE 0]
           owing == OwingOf(v, u)
           freed == FreedOf(v, u)
           owing2 == OwingOf(w, u)
           freed2 == FreedOf(w, u)
<1>5. /\ T \subseteq MadeOf(v) /\ \A c : c \in T <=> c \in cs /\ UserOf(c) = u
      /\ \A c \in MadeOf(v) : d[c] = IF c \in T THEN v[c].cashback ELSE 0
  BY DEF OfUser
<1>6. \A c \in S : d[c] \in Nat
  BY <1>2 DEF MadeOf
<1>7. Total(d, S) = x
  <2> HIDE DEF d, T
  <2>1. Cashbacks(v, T) = Total(d, S)
    BY <1>5, CashbackOfSome
  <2> QED
    BY <2>1 DEF T
<1>8. ASSUME NEW c \in S
      PROVE  owing[c] = owing2[c] + d[c] /\ freed2[c] = freed[c] + d[c]
  <2>1. c \in MadeOf(w) /\ c \in ConversionIds
    BY <1>1, <1>3, <1>8
  <2>2. CASE c \in cs
    BY <1>0, <1>2, <1>3, <1>4, <1>5, <2>1, <2>2 DEF MadeOf
  <2>3. CASE c \notin cs
    BY <1>0, <1>3, <1>4, <1>5, <2>1, <2>3
  <2> QED
    BY <2>2, <2>3
<1>9. /\ \A c \in S : owing2[c] \in Int /\ d[c] \in Int /\ owing[c] = owing2[c] + d[c]
      /\ \A c \in S : freed[c] \in Int /\ d[c] \in Int /\ freed2[c] = freed[c] + d[c]
      /\ \A c \in S : owing[c] \in Int
      /\ \A c \in S : owing2[c] \in Int
      /\ \A c \in S : freed[c] \in Int
      /\ IsFiniteSet(S) /\ MadeOf(w) = S
  BY <1>1, <1>3, <1>4, <1>6, <1>8
<1> HIDE DEF S, d, T, owing, freed, owing2, freed2
<1>10. Total(d, S) \in Nat
  BY <1>6, <1>9, TotalNat
<1>11. Total(owing, S) \in Int /\ Total(freed, S) \in Int /\ Total(owing2, S) \in Int
  BY <1>9, TotalInt
<1>12. Total(owing, S) = Total(owing2, S) + Total(d, S)
  BY <1>9, TotalPlus
<1>13. Total(freed2, S) = Total(freed, S) + Total(d, S)
  BY <1>9, TotalPlus
<1>14. Total(owing2, S) = Total(owing, S) - x /\ Total(freed2, S) = Total(freed, S) + x /\ x \in Nat
  BY <1>7, <1>10, <1>11, <1>12, <1>13
<1> QED
  BY <1>9, <1>11, <1>14 DEF S, owing, freed, owing2, freed2

-----------------------------------------------------------------------------
(* Revisions.                                                              *)

LEMMA ShiftFacts ==
  ASSUME NEW row \in ConversionRow, NEW balance \in Nat, NEW report \in Reports,
         NEW change, change = CashbackOf(EffectiveNet(report)) - row.cashback
  PROVE  /\ Shift(row, balance, report).net \in Int
         /\ Shift(row, balance, report).cashback \in Int
         /\ Shift(row, balance, report).recovery \in Nat
         /\ balance + Shift(row, balance, report).balance \in Nat
         /\ Shift(row, balance, report).balance \in Int
         /\ Shift(row, balance, report).balance - Shift(row, balance, report).recovery = change
         /\ balance + change >= 0 => Shift(row, balance, report).recovery = 0
<1>1. row.net \in Nat /\ row.cashback \in Nat
  BY DEF ConversionRow
<1>2. EffectiveNet(report) \in Nat /\ CashbackOf(EffectiveNet(report)) \in Nat
  BY ReportFacts
<1>3. change \in Int
  BY <1>1, <1>2
<1> DEFINE debit == IF change < 0 THEN LessOf(-change, balance) ELSE 0
<1>4. /\ debit \in Nat /\ debit <= balance /\ (change < 0 => debit <= -change)
      /\ (balance + change >= 0 /\ change < 0 => debit = -change)
  BY <1>3 DEF LessOf
<1>5. Shift(row, balance, report) =
        [net |-> EffectiveNet(report) - row.net, cashback |-> change,
         balance |-> IF change < 0 THEN -debit ELSE change,
         recovery |-> IF change < 0 THEN -change - debit ELSE 0]
  BY DEF Shift
<1> HIDE DEF debit
<1> QED
  BY <1>1, <1>2, <1>3, <1>4, <1>5

CoreAccounts == UserAccounts \union PlatformAccounts

\* Accounts of users and of the platform are different accounts.
LEMMA AccountsDiffer ==
  /\ \A u \in CoreUsers : /\ <<"pending", u>> \in CoreAccounts /\ <<"available", u>> \in CoreAccounts
                          /\ <<"treasury", u>> \in CoreAccounts /\ <<"recovery", u>> \in CoreAccounts
  /\ \A k \in {<<"receivable">>, <<"revenue">>, <<"adjustment">>} :
       /\ k \in CoreAccounts
       /\ \A n \in {"pending", "available", "treasury", "recovery"}, u \in CoreUsers : k # <<n, u>>
  /\ \A m, n \in {"pending", "available", "treasury", "recovery"}, u, v \in CoreUsers :
       <<m, u>> = <<n, v>> <=> m = n /\ u = v
  BY DEF CoreAccounts, UserAccounts, PlatformAccounts

LedgerAfter(ledger, bucket, u, a, b, c, d) ==
  [ledger EXCEPT ![<<"receivable">>] = @ - a, ![<<bucket, u>>] = @ + b,
                 ![<<"recovery", u>>] = @ - c, ![<<"revenue">>] = @ + a - d]

LEMMA RevisedLedger ==
  ASSUME NEW ledger \in [CoreAccounts -> Int], NEW bucket \in {"pending", "available"},
         NEW u \in CoreUsers, NEW a \in Int, NEW b \in Int, NEW c \in Int, NEW d \in Int,
         NEW after, after = LedgerAfter(ledger, bucket, u, a, b, c, d)
  PROVE  /\ after \in [CoreAccounts -> Int]
         /\ \A v \in CoreUsers : after[<<"treasury", v>>] = ledger[<<"treasury", v>>]
         /\ \A v \in CoreUsers :
              after[<<"recovery", v>>] = ledger[<<"recovery", v>>] - (IF u = v THEN c ELSE 0)
<1> DEFINE r == <<"receivable">>  k == <<bucket, u>>  o == <<"recovery", u>>  e == <<"revenue">>
<1>1. /\ r \in CoreAccounts /\ k \in CoreAccounts /\ o \in CoreAccounts /\ e \in CoreAccounts
      /\ \A v \in CoreUsers : /\ <<"treasury", v>> \notin {r, k, o, e}
                              /\ <<"treasury", v>> \in CoreAccounts
                              /\ <<"recovery", v>> \notin {r, k, e}
                              /\ <<"recovery", v>> \in CoreAccounts
                              /\ <<"recovery", v>> = o <=> u = v
      /\ o \notin {r, k, e} /\ k \notin {r, e} /\ r # e
  BY AccountsDiffer
<1>2. after = [ledger EXCEPT ![r] = @ - a, ![k] = @ + b, ![o] = @ - c, ![e] = @ + a - d]
  BY DEF LedgerAfter
<1> HIDE DEF r, k, o, e
<1>3. DOMAIN after = CoreAccounts /\ after = [x \in CoreAccounts |-> after[x]]
  BY <1>2
<1>4. /\ after[r] = ledger[r] - a /\ after[k] = ledger[k] + b /\ after[o] = ledger[o] - c
      /\ after[e] = ledger[e] + a - d
  BY <1>1, <1>2
<1>5. \A x \in CoreAccounts : x \notin {r, k, o, e} => after[x] = ledger[x]
  BY <1>1, <1>2
<1>6. \A x \in CoreAccounts : after[x] \in Int
  BY <1>1, <1>4, <1>5
<1>7. \A v \in CoreUsers : after[<<"treasury", v>>] = ledger[<<"treasury", v>>]
  BY <1>1, <1>5
<1>8. ASSUME NEW v \in CoreUsers
      PROVE  after[<<"recovery", v>>] = ledger[<<"recovery", v>>] - (IF u = v THEN c ELSE 0)
  <2>1. CASE u = v
    BY <1>4, <2>1 DEF o
  <2>2. CASE u # v
    <3>1. after[<<"recovery", v>>] = ledger[<<"recovery", v>>] /\ ledger[<<"recovery", v>>] \in Int
      BY <1>1, <1>5, <2>2
    <3> QED
      BY <2>2, <3>1
  <2> QED
    BY <2>1, <2>2
<1> QED
  BY <1>3, <1>7, <1>8, <1>6

\* The row c becomes row: what a revision, whatever it says, may do to it.
RowMoves(c, row) ==
  /\ row \in ConversionRow /\ RowHolds(row)
  /\ conversion' = [conversion EXCEPT ![c] = row]
  /\ row.availableOn = conversion[c].availableOn
  /\ row.revisions = conversion[c].revisions =>
       row.status = conversion[c].status /\ row.cashback = conversion[c].cashback
  /\ row.status = "REJECTED" =>
       \/ row.cashback = 0
       \/ row.status = conversion[c].status /\ row.cashback = conversion[c].cashback

\* The user of c is paid, in the bucket of the row, or has a debt.
MoneyMoves(c, paid, debt) ==
  LET pending == conversion[c].availableOn = NoDate
  IN  /\ coreWallet' \in [CoreUsers -> [pending: Nat, available: Nat]]
      /\ coreLedger' \in [CoreAccounts -> Int]
      /\ \A v \in CoreUsers :
           /\ coreWallet'[v].pending =
                coreWallet[v].pending + (IF v = UserOf(c) /\ pending THEN paid ELSE 0)
           /\ coreWallet'[v].available =
                coreWallet[v].available + (IF v = UserOf(c) /\ ~pending THEN paid ELSE 0)
           /\ coreLedger'[<<"treasury", v>>] = coreLedger[<<"treasury", v>>]
           /\ coreLedger'[<<"recovery", v>>] =
                coreLedger[<<"recovery", v>>] - (IF v = UserOf(c) THEN debt ELSE 0)

LEMMA ReviseMoves ==
  ASSUME CoreTypeOK, NEW c \in ConversionIds, conversion[c] \in ConversionRow,
         RowHolds(conversion[c]), NEW report \in Reports, NEW weight \in 1..3,
         NEW reviewed \in BOOLEAN, Revise(c, report, weight, reviewed)
  PROVE  \E row \in ConversionRow, paid \in Int, debt \in Nat :
           /\ RowMoves(c, row)
           /\ MoneyMoves(c, paid, debt)
           /\ paid - debt = row.cashback - conversion[c].cashback
           /\ /\ conversion[c].availableOn = NoDate
              /\ coreWallet[UserOf(c)].pending + row.cashback >= conversion[c].cashback
              => debt = 0
<1>1. PICK row, u, bucket, balance, shift :
        /\ row = conversion[c] /\ u = UserOf(c) /\ bucket = BucketOf(row)
        /\ balance = coreWallet[u][bucket] /\ shift = Shift(row, balance, report)
  OBVIOUS
<1>2. /\ row \in ConversionRow /\ RowHolds(row) /\ u \in CoreUsers
      /\ clock \in Nat /\ coreLedger \in [CoreAccounts -> Int]
  <2>1. u \in CoreUsers
    BY <1>1, CoreConstantsAssumption DEF ConversionIds, UserOf
  <2>2. clock \in Nat /\ coreLedger \in [CoreAccounts -> Int]
    BY DEF CoreTypeOK, CoreAccounts
  <2> QED
    BY <1>1, <2>1, <2>2
<1>3. /\ bucket \in {"pending", "available"}
      /\ bucket = "pending" <=> row.availableOn = NoDate
  BY <1>1 DEF BucketOf
<1>4. /\ \A v \in CoreUsers : coreWallet[v].pending \in Nat /\ coreWallet[v].available \in Nat
      /\ balance \in Nat
      /\ bucket = "pending" => balance = coreWallet[u].pending
      /\ bucket = "available" => balance = coreWallet[u].available
      /\ row.cashback \in Nat
  <2>1. \A v \in CoreUsers : coreWallet[v].pending \in Nat /\ coreWallet[v].available \in Nat
    BY DEF CoreTypeOK
  <2>2. /\ bucket = "pending" => balance = coreWallet[u].pending
        /\ bucket = "available" => balance = coreWallet[u].available
    BY <1>1, SMT
  <2>3. row.cashback \in Nat
    BY <1>2 DEF ConversionRow
  <2> QED
    BY <1>2, <1>3, <2>1, <2>2, <2>3
<1>5. CASE Unchanged(row, report, weight)
  <2> DEFINE open == row.openCase \/ reviewed
  <2>0. open \in BOOLEAN /\ conversion' = [conversion EXCEPT ![c] = Stamped(row, clock, open)]
    BY <1>1, <1>5, Zenon DEF Revise, CoreTypeOK, Stamped
  <2> HIDE DEF open
  <2> DEFINE new == Stamped(row, clock, open)
  <2>1. /\ open \in BOOLEAN /\ new = Stamped(row, clock, open)
        /\ conversion' = [conversion EXCEPT ![c] = new]
    BY <2>0
  <2> HIDE DEF new
  <2>2. /\ new \in ConversionRow /\ RowHolds(new)
        /\ new.availableOn = row.availableOn /\ new.status = row.status
        /\ new.cashback = row.cashback /\ new.revisions = row.revisions
    BY ONLY <1>2, <2>1, StampedRow
  <2>3. UNCHANGED <<coreWallet, coreLedger>>
    BY <1>1, <1>5 DEF Revise
  <2>4. RowMoves(c, new)
    BY <1>1, <2>1, <2>2 DEF RowMoves
  <2>5. MoneyMoves(c, 0, 0)
    <3>1. \A v \in CoreUsers : coreLedger[<<"recovery", v>>] \in Int
      BY <1>2, AccountsDiffer
    <3> QED
      BY <1>2, <1>4, <2>3, <3>1 DEF MoneyMoves, CoreTypeOK
  <2> QED
    BY <1>1, <1>4, <2>2, <2>4, <2>5
<1>6. CASE ~Unchanged(row, report, weight)
  <2> DEFINE openNow == RowAfter(row, report, weight, shift).openCase \/ reviewed
  <2>0. openNow \in BOOLEAN
    BY Zenon
  <2>1. PICK new, paid, debt, net, gain :
          /\ new = Revised(row, report, weight, shift, openNow)
          /\ paid = shift.balance /\ debt = shift.recovery
          /\ net = shift.net /\ gain = shift.cashback
    OBVIOUS
  <2>2. /\ conversion' = [conversion EXCEPT ![c] = new]
        /\ coreWallet' = [coreWallet EXCEPT ![u][bucket] = @ + paid]
        /\ coreLedger' = [coreLedger EXCEPT
             ![<<"receivable">>] = @ - net, ![<<bucket, u>>] = @ + paid,
             ![<<"recovery", u>>] = @ - debt, ![<<"revenue">>] = @ + net - gain]
    <3>1. conversion' = [conversion EXCEPT ![c] = new]
      BY <1>1, <1>6, <2>1, Zenon DEF Revise, Revised
    <3> QED
      BY <1>1, <1>6, <2>1, <3>1 DEF Revise
  <2> HIDE DEF openNow
  <2>3. /\ new \in ConversionRow /\ RowHolds(new)
        /\ new.availableOn = row.availableOn /\ new.status = ConversionStatusOf(report)
        /\ new.cashback = CashbackOf(EffectiveNet(report)) /\ new.revisions # row.revisions
    BY <1>2, <2>0, <2>1, RevisedRow
  <2>4. new.status = "REJECTED" => new.cashback = 0
    BY <2>3, ReportFacts
  <2>5. RowMoves(c, new)
    <3>1. /\ new.availableOn = conversion[c].availableOn
          /\ new.revisions # conversion[c].revisions
      BY ONLY <1>1, <2>3
    <3> QED
      BY ONLY <2>2, <2>3, <2>4, <3>1 DEF RowMoves
  <2>6. PICK change : change = CashbackOf(EffectiveNet(report)) - row.cashback
    OBVIOUS
  <2>7. /\ net \in Int /\ gain \in Int /\ debt \in Nat /\ paid \in Int
        /\ balance + paid \in Nat /\ paid - debt = change
        /\ balance + change >= 0 => debt = 0
    BY <1>1, <1>2, <1>4, <2>1, <2>6, ShiftFacts
  <2>8. /\ paid - debt = new.cashback - row.cashback
        /\ balance + new.cashback >= row.cashback => debt = 0
        /\ new.cashback \in Nat
    <3>1. new.cashback \in Nat
      BY <2>3 DEF ConversionRow
    <3> QED
      BY <1>4, <2>3, <2>6, <2>7, <3>1
  <2>9. debt \in Int /\ coreLedger' = LedgerAfter(coreLedger, bucket, u, net, paid, debt, gain)
    BY <2>2, <2>7 DEF LedgerAfter
  <2>10. /\ coreLedger' \in [CoreAccounts -> Int]
         /\ \A v \in CoreUsers : coreLedger'[<<"treasury", v>>] = coreLedger[<<"treasury", v>>]
         /\ \A v \in CoreUsers : coreLedger'[<<"recovery", v>>] =
              coreLedger[<<"recovery", v>>] - (IF u = v THEN debt ELSE 0)
    BY ONLY <1>2, <1>3, <2>7, <2>9, RevisedLedger
  <2>11. CASE bucket = "pending"
    <3>1. coreWallet' = [coreWallet EXCEPT ![u].pending = @ + paid]
      BY <2>2, <2>11
    <3>2. coreWallet[u].pending + paid \in Nat
      BY <1>4, <2>7, <2>11
    <3>3. coreWallet' \in [CoreUsers -> [pending: Nat, available: Nat]]
      BY <1>2, <3>1, <3>2 DEF CoreTypeOK
    <3>4. \A v \in CoreUsers :
            /\ coreWallet'[v].pending =
                 coreWallet[v].pending + (IF v = u THEN paid ELSE 0)
            /\ coreWallet'[v].available = coreWallet[v].available + 0
      BY <1>2, <2>7, <3>1 DEF CoreTypeOK
    <3>5. MoneyMoves(c, paid, debt)
      BY <1>1, <1>3, <2>10, <2>11, <3>3, <3>4 DEF MoneyMoves
    <3> QED
      BY <1>1, <1>4, <2>3, <2>5, <2>7, <2>8, <2>11, <3>5
  <2>12. CASE bucket = "available"
    <3>1. coreWallet' = [coreWallet EXCEPT ![u].available = @ + paid]
      BY <2>2, <2>12
    <3>2. coreWallet[u].available + paid \in Nat
      BY <1>4, <2>7, <2>12
    <3>3. coreWallet' \in [CoreUsers -> [pending: Nat, available: Nat]]
      BY <1>2, <3>1, <3>2 DEF CoreTypeOK
    <3>4. \A v \in CoreUsers :
            /\ coreWallet'[v].available =
                 coreWallet[v].available + (IF v = u THEN paid ELSE 0)
            /\ coreWallet'[v].pending = coreWallet[v].pending + 0
      BY <1>2, <2>7, <3>1 DEF CoreTypeOK
    <3>5. MoneyMoves(c, paid, debt)
      BY <1>1, <1>3, <2>10, <2>12, <3>3, <3>4 DEF MoneyMoves
    <3> QED
      BY <1>1, <1>3, <1>4, <2>3, <2>5, <2>7, <2>8, <2>12, <3>5
  <2> QED
    BY <1>3, <2>11, <2>12
<1> QED
  BY <1>5, <1>6

-----------------------------------------------------------------------------
(* The books' types, and what rows and names say, step by step.            *)

\* Rewriting a row that is there leaves the others, and what is there, alone.
LEMMA OneRowKeeps ==
  ASSUME CoreTypeOK, RowsHold, NEW c \in ConversionIds, conversion[c] \in ConversionRow,
         NEW row \in ConversionRow, RowHolds(row), conversion' = [conversion EXCEPT ![c] = row]
  PROVE  /\ Rows(conversion') /\ RowsHold'
         /\ conversion'[c] = row
         /\ \A d \in ConversionIds : d # c => conversion'[d] = conversion[d]
         /\ MadeOf(conversion') = MadeOf(conversion)
<1>1. /\ Rows(conversion') /\ conversion'[c] = row
      /\ \A d \in ConversionIds : d # c => conversion'[d] = conversion[d]
  BY DEF Rows, CoreTypeOK
<1>2. MadeOf(conversion') = MadeOf(conversion)
  BY <1>1 DEF MadeOf
<1>3. RowsHold'
  BY <1>1 DEF RowsHold
<1> QED
  BY <1>1, <1>2, <1>3

\* A step that makes no conversion and names none.
LEMMA SameNames ==
  ASSUME CoreInv, MadeOf(conversion') = MadeOf(conversion), clock' \in Nat, clock <= clock',
         UNCHANGED <<identity, ingest, holdJob>>
  PROVE  NamesHold' /\ IsFiniteSet(MadeOf(conversion'))
<1>1. \A d \in ConversionIds : conversion'[d] \in ConversionRow <=> conversion[d] \in ConversionRow
  BY DEF MadeOf
<1>2. clock \in Nat /\ HoldDays \in Nat
  BY HoldDaysFact DEF CoreInv, CoreTypeOK
<1>3. \A i \in ConversionIds : \A c \in identity[i] : c \in ConversionIds
  BY DEF CoreInv, CoreTypeOK
<1>4. \A w \in Ingesters : ingest[w].step = "SAME" => ingest[w].of \in ConversionIds
  BY DEF CoreInv, CoreTypeOK, IngestCalls, Idle
<1> QED
  BY <1>1, <1>2, <1>3, <1>4 DEF CoreInv, NamesHold

\* A revision of a conversion that is there, by whoever reports it.
LEMMA ReviseKeeps ==
  ASSUME CoreInv, NEW c \in ConversionIds, conversion[c] \in ConversionRow,
         NEW report \in Reports, NEW weight \in 1..3, NEW reviewed \in BOOLEAN,
         Revise(c, report, weight, reviewed)
  PROVE  /\ Rows(conversion') /\ RowsHold'
         /\ MadeOf(conversion') = MadeOf(conversion)
         /\ coreWallet' \in [CoreUsers -> [pending: Nat, available: Nat]]
         /\ coreLedger' \in [UserAccounts \union PlatformAccounts -> Int]
<1>1. CoreTypeOK /\ RowsHold /\ RowHolds(conversion[c])
  BY DEF CoreInv, RowsHold
<1>2. PICK row \in ConversionRow, paid \in Int, debt \in Nat :
        RowMoves(c, row) /\ MoneyMoves(c, paid, debt)
  BY <1>1, ReviseMoves
<1>3. /\ RowHolds(row) /\ conversion' = [conversion EXCEPT ![c] = row]
      /\ coreWallet' \in [CoreUsers -> [pending: Nat, available: Nat]]
      /\ coreLedger' \in [UserAccounts \union PlatformAccounts -> Int]
  BY <1>2 DEF RowMoves, MoneyMoves, CoreAccounts
<1> QED
  BY <1>1, <1>3, OneRowKeeps

LEMMA WeightFacts == \A s \in CoreSources : Authority[s] \in 1..3
  BY CoreConstantsAssumption

\* What an identity names is a conversion that is there.
LEMMA KnownFacts ==
  ASSUME CoreInv, NEW o \in CoreOrders, NEW s \in CoreSources
  PROVE  /\ <<o, s>> \in ConversionIds
         /\ \A c \in identity[<<o, s>>] : c \in ConversionIds /\ conversion[c] \in ConversionRow
<1>1. <<o, s>> \in ConversionIds
  BY DEF ConversionIds
<1> QED
  BY <1>1 DEF CoreInv, CoreTypeOK, NamesHold

LEMMA KnownKeeps ==
  ASSUME CoreInv, NEW o \in CoreOrders, NEW s \in CoreSources, NEW report \in Reports,
         NEW c \in identity[<<o, s>>], Revise(c, report, Authority[s], FALSE),
         UNCHANGED <<identity, ingest, holdJob, clock>>
  PROVE  CoreInv'
<1>1. c \in ConversionIds /\ conversion[c] \in ConversionRow /\ Authority[s] \in 1..3
  BY KnownFacts, WeightFacts
<1>2. /\ Rows(conversion') /\ RowsHold'
      /\ MadeOf(conversion') = MadeOf(conversion)
      /\ coreWallet' \in [CoreUsers -> [pending: Nat, available: Nat]]
      /\ coreLedger' \in [UserAccounts \union PlatformAccounts -> Int]
  BY <1>1, ReviseKeeps
<1>3. CoreTypeOK'
  BY <1>2 DEF CoreInv, CoreTypeOK, Rows
<1>4. clock \in Nat
  BY DEF CoreInv, CoreTypeOK
<1>5. NamesHold' /\ IsFiniteSet(MadeOf(conversion'))
  BY <1>2, <1>4, SameNames
<1> QED
  BY <1>2, <1>3, <1>5 DEF CoreInv, MadeOf

LEMMA ReadKeeps ==
  ASSUME CoreInv, NEW w \in Ingesters, NEW o \in CoreOrders, NEW s \in CoreSources,
         NEW report \in Reports, IngestRead(w, o, s, report)
  PROVE  CoreInv'
<1>1. PICK call \in IngestCalls :
        /\ ingest' = [ingest EXCEPT ![w] = call]
        /\ call.step = "SAME" => call.of \in ConversionIds /\ conversion[call.of] \in ConversionRow
  <2>1. CASE ingest' = [ingest EXCEPT ![w] =
               [step |-> "NEW", order |-> o, source |-> s, report |-> report]]
    <3> DEFINE call == [step |-> "NEW", order |-> o, source |-> s, report |-> report]
    <3>1. call \in IngestCalls /\ call.step # "SAME"
      BY DEF IngestCalls
    <3> QED
      BY <2>1, <3>1
  <2>2. ASSUME NEW c \in KnownAs(o),
               ingest' = [ingest EXCEPT ![w] =
                 [step |-> "SAME", order |-> o, source |-> s, report |-> report, of |-> c,
                  authority |-> conversion[c].authority, net |-> conversion[c].net,
                  status |-> conversion[c].status]]
        PROVE  \E call \in IngestCalls :
                 /\ ingest' = [ingest EXCEPT ![w] = call]
                 /\ call.step = "SAME" =>
                      call.of \in ConversionIds /\ conversion[call.of] \in ConversionRow
    <3>1. PICK t \in CoreSources : c \in identity[<<o, t>>]
      BY <2>2 DEF KnownAs
    <3>2. c \in ConversionIds /\ conversion[c] \in ConversionRow
      BY <3>1, KnownFacts
    <3> DEFINE call == [step |-> "SAME", order |-> o, source |-> s, report |-> report, of |-> c,
                        authority |-> conversion[c].authority, net |-> conversion[c].net,
                        status |-> conversion[c].status]
    <3>3. /\ conversion[c].authority \in 1..3 /\ conversion[c].net \in Nat
          /\ conversion[c].status \in {"PENDING", "VALIDATED", "REJECTED"}
      BY <3>2, RowFields
    <3>4. call \in IngestCalls /\ call.of = c
      BY <3>2, <3>3 DEF IngestCalls
    <3> QED
      BY <2>2, <3>2, <3>4
  <2> QED
    BY <2>1, <2>2 DEF IngestRead
<1>2. UNCHANGED <<conversion, identity, holdJob, coreWallet, coreLedger, clock>>
  BY DEF IngestRead
<1>3. CoreTypeOK'
  BY <1>1, <1>2 DEF CoreInv, CoreTypeOK
<1>4. \A x \in Ingesters : ingest'[x] = IF x = w THEN call ELSE ingest[x]
  BY <1>1 DEF CoreInv, CoreTypeOK
<1>5. NamesHold'
  BY <1>1, <1>2, <1>4 DEF CoreInv, NamesHold
<1> QED
  BY <1>2, <1>3, <1>5 DEF CoreInv, RowsHold, MadeOf

\* A call that is over says nothing.
LEMMA CallOver ==
  ASSUME CoreInv, NEW w \in Ingesters, ingest' = [ingest EXCEPT ![w] = Idle]
  PROVE  /\ ingest' \in [Ingesters -> IngestCalls]
         /\ \A x \in Ingesters :
              ingest'[x].step = "SAME" => ingest'[x] = ingest[x] /\ ingest[x].step = "SAME"
         /\ \A x \in Ingesters :
              ingest'[x].step = "NEW" => ingest'[x] = ingest[x] /\ ingest[x].step = "NEW"
<1>1. \A x \in Ingesters : ingest'[x] = IF x = w THEN Idle ELSE ingest[x]
  BY DEF CoreInv, CoreTypeOK
<1>2. Idle.step = "IDLE" /\ Idle \in IngestCalls
  BY DEF Idle, IngestCalls
<1>3. ingest' \in [Ingesters -> IngestCalls]
  BY <1>2 DEF CoreInv, CoreTypeOK
<1> QED
  BY <1>1, <1>2, <1>3

LEMMA RefusedKeeps ==
  ASSUME CoreInv, NEW w \in Ingesters, IngestRefused(w)
  PROVE  CoreInv'
<1>1. /\ ingest' = [ingest EXCEPT ![w] = Idle]
      /\ UNCHANGED <<conversion, identity, holdJob, coreWallet, coreLedger, clock>>
  BY DEF IngestRefused
<1>2. /\ ingest' \in [Ingesters -> IngestCalls]
      /\ \A x \in Ingesters :
           ingest'[x].step = "SAME" => ingest'[x] = ingest[x] /\ ingest[x].step = "SAME"
  BY <1>1, CallOver
<1>3. CoreTypeOK'
  BY <1>1, <1>2 DEF CoreInv, CoreTypeOK
<1>4. NamesHold'
  BY <1>1, <1>2 DEF CoreInv, NamesHold
<1> QED
  BY <1>1, <1>3, <1>4 DEF CoreInv, RowsHold, MadeOf

LEMMA NewCallFacts ==
  ASSUME CoreTypeOK, NEW w \in Ingesters, ingest[w].step = "NEW"
  PROVE  /\ ingest[w].order \in CoreOrders /\ ingest[w].source \in CoreSources
         /\ ingest[w].report \in Reports
         /\ <<ingest[w].order, ingest[w].source>> \in ConversionIds
  BY DEF CoreTypeOK, IngestCalls, Idle, ConversionIds

LEMMA SameCallFacts ==
  ASSUME CoreTypeOK, NEW w \in Ingesters, ingest[w].step = "SAME"
  PROVE  /\ ingest[w].order \in CoreOrders /\ ingest[w].source \in CoreSources
         /\ ingest[w].report \in Reports /\ ingest[w].of \in ConversionIds
         /\ <<ingest[w].order, ingest[w].source>> \in ConversionIds
  BY DEF CoreTypeOK, IngestCalls, Idle, ConversionIds

\* What a first report pays, and into which column and accounts.
FirstPay(report) == IF report.status = "rejected" THEN 0 ELSE CashbackOf(report.net)

LEMMA PostPendingMoves ==
  ASSUME CoreTypeOK, NEW u \in CoreUsers, NEW report \in Reports, PostPending(u, report)
  PROVE  /\ coreWallet' \in [CoreUsers -> [pending: Nat, available: Nat]]
         /\ coreLedger' \in [UserAccounts \union PlatformAccounts -> Int]
         /\ \A v \in CoreUsers :
              /\ coreWallet'[v].pending =
                   coreWallet[v].pending + (IF v = u THEN FirstPay(report) ELSE 0)
              /\ coreWallet'[v].available = coreWallet[v].available
              /\ coreLedger'[<<"treasury", v>>] = coreLedger[<<"treasury", v>>]
              /\ coreLedger'[<<"recovery", v>>] = coreLedger[<<"recovery", v>>]
<1>1. report.net \in Nat /\ CashbackOf(report.net) \in Nat
  BY ReportFacts
<1>2. \A v \in CoreUsers : coreWallet[v].pending \in Nat /\ coreWallet[v].available \in Nat
  BY DEF CoreTypeOK
<1>3. CASE CashbackOf(report.net) = 0 \/ report.status = "rejected"
  <2>1. UNCHANGED <<coreWallet, coreLedger>> /\ FirstPay(report) = 0
    BY <1>3 DEF PostPending, FirstPay
  <2> QED
    BY <1>2, <2>1 DEF CoreTypeOK
<1>4. CASE ~(CashbackOf(report.net) = 0 \/ report.status = "rejected")
  <2>1. PICK pay, net : pay = CashbackOf(report.net) /\ net = report.net
    OBVIOUS
  <2>2. /\ coreWallet' = [coreWallet EXCEPT ![u].pending = @ + pay]
        /\ coreLedger' = [coreLedger EXCEPT
             ![<<"receivable">>] = @ - net, ![<<"pending", u>>] = @ + pay,
             ![<<"revenue">>] = @ + net - pay]
        /\ FirstPay(report) = pay
    BY <1>4, <2>1 DEF PostPending, FirstPay
  <2>3. pay \in Nat /\ net \in Nat
    BY <1>1, <2>1
  <2> DEFINE r == <<"receivable">>  k == <<"pending", u>>  e == <<"revenue">>
  <2>4. /\ r \in CoreAccounts /\ k \in CoreAccounts /\ e \in CoreAccounts
        /\ r # k /\ r # e /\ k # e
        /\ \A v \in CoreUsers : /\ <<"treasury", v>> \notin {r, k, e}
                                /\ <<"treasury", v>> \in CoreAccounts
                                /\ <<"recovery", v>> \notin {r, k, e}
                                /\ <<"recovery", v>> \in CoreAccounts
    BY AccountsDiffer
  <2>5. coreLedger' = [coreLedger EXCEPT ![r] = @ - net, ![k] = @ + pay, ![e] = @ + net - pay]
    BY <2>2
  <2>6. coreLedger \in [CoreAccounts -> Int]
    BY DEF CoreTypeOK, CoreAccounts
  <2> HIDE DEF r, k, e
  <2>7. /\ coreLedger' \in [CoreAccounts -> Int]
        /\ \A x \in CoreAccounts : x \notin {r, k, e} => coreLedger'[x] = coreLedger[x]
    BY ONLY <2>3, <2>4, <2>5, <2>6
  <2>8. coreWallet' \in [CoreUsers -> [pending: Nat, available: Nat]]
    BY <1>2, <2>2, <2>3 DEF CoreTypeOK
  <2>9. \A v \in CoreUsers :
          /\ coreWallet'[v].pending = coreWallet[v].pending + (IF v = u THEN pay ELSE 0)
          /\ coreWallet'[v].available = coreWallet[v].available
    BY <1>2, <2>2, <2>3 DEF CoreTypeOK
  <2>10. coreLedger' \in [UserAccounts \union PlatformAccounts -> Int]
    BY <2>7 DEF CoreAccounts
  <2> QED
    BY ONLY <2>2, <2>4, <2>7, <2>8, <2>9, <2>10
<1> QED
  BY <1>3, <1>4

\* A first report makes a conversion of the identity it makes.
LEMMA CreateFacts ==
  ASSUME CoreInv, NEW w \in Ingesters, IngestCreate(w),
         NEW c, c = <<ingest[w].order, ingest[w].source>>,
         NEW report, report = ingest[w].report, NEW row, row = NewRow(report, Authority[c[2]])
  PROVE  /\ c \in ConversionIds /\ c \notin MadeOf(conversion)
         /\ report \in Reports /\ UserOf(c) \in CoreUsers
         /\ row \in ConversionRow /\ RowHolds(row) /\ row.availableOn = NoDate
         /\ row.cashback = CashbackOf(report.net) /\ row.status = ConversionStatusOf(report)
         /\ conversion' = [conversion EXCEPT ![c] = row]
         /\ identity' = [identity EXCEPT ![c] = {c}]
         /\ ingest' = [ingest EXCEPT ![w] = Idle]
         /\ PostPending(UserOf(c), report)
         /\ UNCHANGED <<holdJob, clock>>
<1>1. /\ ingest[w].step = "NEW" /\ identity[c] = {}
      /\ conversion' = [conversion EXCEPT ![c] = row]
      /\ identity' = [identity EXCEPT ![c] = {c}]
      /\ PostPending(UserOf(c), report)
      /\ ingest' = [ingest EXCEPT ![w] = Idle]
      /\ UNCHANGED <<holdJob, clock>>
  BY DEF IngestCreate
<1>2. c \in ConversionIds /\ report \in Reports /\ c[2] \in CoreSources /\ c[1] \in CoreOrders
  BY <1>1, NewCallFacts DEF CoreInv
<1>3. c \notin MadeOf(conversion)
  BY <1>1, <1>2 DEF CoreInv, NamesHold, MadeOf
<1>4. Authority[c[2]] \in 1..3 /\ UserOf(c) \in CoreUsers /\ clock \in Nat
  BY <1>2, WeightFacts, CoreConstantsAssumption DEF UserOf, CoreInv, CoreTypeOK
<1>5. /\ row \in ConversionRow /\ RowHolds(row) /\ row.availableOn = NoDate
      /\ row.cashback = CashbackOf(report.net) /\ row.status = ConversionStatusOf(report)
  BY <1>2, <1>4, FirstRow
<1> QED
  BY <1>1, <1>2, <1>3, <1>4, <1>5

LEMMA CreateKeeps ==
  ASSUME CoreInv, NEW w \in Ingesters, IngestCreate(w)
  PROVE  CoreInv'
<1>1. PICK c, report, row : /\ c = <<ingest[w].order, ingest[w].source>>
                            /\ report = ingest[w].report /\ row = NewRow(report, Authority[c[2]])
  OBVIOUS
<1>2. /\ c \in ConversionIds /\ c \notin MadeOf(conversion)
      /\ report \in Reports /\ UserOf(c) \in CoreUsers
      /\ row \in ConversionRow /\ RowHolds(row)
      /\ conversion' = [conversion EXCEPT ![c] = row]
      /\ identity' = [identity EXCEPT ![c] = {c}]
      /\ ingest' = [ingest EXCEPT ![w] = Idle]
      /\ PostPending(UserOf(c), report)
      /\ UNCHANGED <<holdJob, clock>>
  BY <1>1, CreateFacts
<1>3. /\ coreWallet' \in [CoreUsers -> [pending: Nat, available: Nat]]
      /\ coreLedger' \in [UserAccounts \union PlatformAccounts -> Int]
  BY <1>2, PostPendingMoves DEF CoreInv
<1>4. /\ ingest' \in [Ingesters -> IngestCalls]
      /\ \A x \in Ingesters :
           ingest'[x].step = "SAME" => ingest'[x] = ingest[x] /\ ingest[x].step = "SAME"
  BY <1>2, CallOver
<1>5. /\ conversion' \in [ConversionIds -> ConversionRow \union {NoConversion}]
      /\ identity' \in [ConversionIds -> SUBSET ConversionIds]
      /\ conversion'[c] = row /\ identity'[c] = {c}
      /\ \A d \in ConversionIds : d # c => conversion'[d] = conversion[d] /\ identity'[d] = identity[d]
  BY <1>2 DEF CoreInv, CoreTypeOK
<1>6. CoreTypeOK'
  BY <1>2, <1>3, <1>4, <1>5 DEF CoreInv, CoreTypeOK
<1>7. RowsHold'
  BY <1>2, <1>5 DEF CoreInv, RowsHold
<1>8. \A d \in ConversionIds : conversion[d] \in ConversionRow => conversion'[d] \in ConversionRow
  BY <1>2, <1>5
<1>9. NamesHold'
  <2>1. \A d \in ConversionIds : conversion'[d] \in ConversionRow => identity'[d] # {}
    BY <1>5 DEF CoreInv, NamesHold
  <2>2. ASSUME NEW i \in ConversionIds, NEW d \in identity'[i]
        PROVE  conversion'[d] \in ConversionRow
    <3>1. CASE i = c
      BY <1>2, <1>5, <2>2, <3>1
    <3>2. CASE i # c
      <4>1. d \in identity[i] /\ d \in ConversionIds
        BY <1>5, <2>2, <3>2 DEF CoreInv, CoreTypeOK
      <4> QED
        BY <1>8, <4>1 DEF CoreInv, NamesHold
    <3> QED
      BY <3>1, <3>2
  <2>3. ASSUME NEW x \in Ingesters, ingest'[x].step = "SAME"
        PROVE  conversion'[ingest'[x].of] \in ConversionRow
    <3>1. ingest'[x] = ingest[x] /\ ingest[x].step = "SAME"
      BY <1>4, <2>3
    <3>2. ingest[x].of \in ConversionIds /\ conversion[ingest[x].of] \in ConversionRow
      BY <3>1, SameCallFacts DEF CoreInv, NamesHold
    <3> QED
      BY <1>8, <3>1, <3>2
  <2>4. \A d \in ConversionIds :
          holdJob'[d] # Idle => conversion'[d] \in ConversionRow /\ HoldDays <= clock'
    BY <1>2, <1>8 DEF CoreInv, NamesHold
  <2> QED
    BY <2>1, <2>2, <2>3, <2>4 DEF NamesHold
<1>10. IsFiniteSet(MadeOf(conversion'))
  <2>1. MadeOf(conversion') = MadeOf(conversion) \union {c}
    BY <1>2, <1>5 DEF MadeOf
  <2> QED
    BY <2>1, FS_AddElement DEF CoreInv
<1> QED
  BY <1>6, <1>7, <1>9, <1>10 DEF CoreInv, MadeOf

\* The second source of an order takes its identity, and revises the conversion
\* or leaves it.
LEMMA MergeFacts ==
  ASSUME CoreInv, NEW w \in Ingesters, IngestMerge(w), NEW c, c = ingest[w].of,
         NEW i, i = <<ingest[w].order, ingest[w].source>>
  PROVE  /\ c \in ConversionIds /\ conversion[c] \in ConversionRow /\ i \in ConversionIds
         /\ identity' = [identity EXCEPT ![i] = {c}]
         /\ ingest' = [ingest EXCEPT ![w] = Idle]
         /\ UNCHANGED <<holdJob, clock>>
         /\ \/ \E report \in Reports, weight \in 1..3, reviewed \in BOOLEAN :
                 Revise(c, report, weight, reviewed)
            \/ UNCHANGED <<conversion, coreWallet, coreLedger>>
<1>1. /\ ingest[w].step = "SAME"
      /\ identity' = [identity EXCEPT ![i] = {c}]
      /\ ingest' = [ingest EXCEPT ![w] = Idle]
      /\ UNCHANGED <<holdJob, clock>>
  BY DEF IngestMerge
<1>2. /\ c \in ConversionIds /\ conversion[c] \in ConversionRow /\ i \in ConversionIds
      /\ ingest[w].report \in Reports /\ Authority[ingest[w].source] \in 1..3
  BY <1>1, SameCallFacts, WeightFacts DEF CoreInv, NamesHold
<1> DEFINE differs == \/ ingest[w].report.net # ingest[w].net
                      \/ ConversionStatusOf(ingest[w].report) # ingest[w].status
<1>3. \/ Revise(c, ingest[w].report, Authority[ingest[w].source], differs)
      \/ UNCHANGED <<conversion, coreWallet, coreLedger>>
  BY Zenon DEF IngestMerge
<1>4. differs \in BOOLEAN
  BY Zenon
<1> HIDE DEF differs
<1> QED
  BY <1>1, <1>2, <1>3, <1>4

LEMMA MergeKeeps ==
  ASSUME CoreInv, NEW w \in Ingesters, IngestMerge(w)
  PROVE  CoreInv'
<1>1. PICK c, i : c = ingest[w].of /\ i = <<ingest[w].order, ingest[w].source>>
  OBVIOUS
<1>2. /\ c \in ConversionIds /\ conversion[c] \in ConversionRow /\ i \in ConversionIds
      /\ identity' = [identity EXCEPT ![i] = {c}]
      /\ ingest' = [ingest EXCEPT ![w] = Idle]
      /\ UNCHANGED <<holdJob, clock>>
      /\ \/ \E report \in Reports, weight \in 1..3, reviewed \in BOOLEAN :
              Revise(c, report, weight, reviewed)
         \/ UNCHANGED <<conversion, coreWallet, coreLedger>>
  BY <1>1, MergeFacts
<1>3. /\ Rows(conversion') /\ RowsHold'
      /\ MadeOf(conversion') = MadeOf(conversion)
      /\ coreWallet' \in [CoreUsers -> [pending: Nat, available: Nat]]
      /\ coreLedger' \in [UserAccounts \union PlatformAccounts -> Int]
  <2>1. CASE UNCHANGED <<conversion, coreWallet, coreLedger>>
    BY <2>1 DEF CoreInv, CoreTypeOK, Rows, RowsHold, MadeOf
  <2>2. CASE \E report \in Reports, weight \in 1..3, reviewed \in BOOLEAN :
               Revise(c, report, weight, reviewed)
    BY <1>2, <2>2, ReviseKeeps
  <2> QED
    BY <1>2, <2>1, <2>2
<1>4. /\ ingest' \in [Ingesters -> IngestCalls]
      /\ \A x \in Ingesters :
           ingest'[x].step = "SAME" => ingest'[x] = ingest[x] /\ ingest[x].step = "SAME"
  BY <1>2, CallOver
<1>5. /\ identity' \in [ConversionIds -> SUBSET ConversionIds]
      /\ \A d \in ConversionIds : identity'[d] = IF d = i THEN {c} ELSE identity[d]
  BY <1>2 DEF CoreInv, CoreTypeOK
<1>6. CoreTypeOK'
  BY <1>2, <1>3, <1>4, <1>5 DEF CoreInv, CoreTypeOK, Rows
<1>7. \A d \in ConversionIds : conversion[d] \in ConversionRow <=> conversion'[d] \in ConversionRow
  BY <1>3 DEF MadeOf
<1>8. NamesHold'
  <2>1. \A d \in ConversionIds : conversion'[d] \in ConversionRow => identity'[d] # {}
    BY <1>5, <1>7 DEF CoreInv, NamesHold
  <2>2. ASSUME NEW d \in ConversionIds, NEW e \in identity'[d]
        PROVE  conversion'[e] \in ConversionRow
    <3>1. CASE d = i
      BY <1>2, <1>5, <1>7, <2>2, <3>1
    <3>2. CASE d # i
      <4>1. e \in identity[d] /\ e \in ConversionIds
        BY <1>5, <2>2, <3>2 DEF CoreInv, CoreTypeOK
      <4> QED
        BY <1>7, <4>1 DEF CoreInv, NamesHold
    <3> QED
      BY <3>1, <3>2
  <2>3. ASSUME NEW x \in Ingesters, ingest'[x].step = "SAME"
        PROVE  conversion'[ingest'[x].of] \in ConversionRow
    <3>1. ingest'[x] = ingest[x] /\ ingest[x].step = "SAME"
      BY <1>4, <2>3
    <3>2. ingest[x].of \in ConversionIds /\ conversion[ingest[x].of] \in ConversionRow
      BY <3>1, SameCallFacts DEF CoreInv, NamesHold
    <3> QED
      BY <1>7, <3>1, <3>2
  <2>4. \A d \in ConversionIds :
          holdJob'[d] # Idle => conversion'[d] \in ConversionRow /\ HoldDays <= clock'
    BY <1>2, <1>7 DEF CoreInv, NamesHold
  <2> QED
    BY <2>1, <2>2, <2>3, <2>4 DEF NamesHold
<1> QED
  BY <1>3, <1>6, <1>8 DEF CoreInv, MadeOf

-----------------------------------------------------------------------------
\* The hold job decides on a row that is there and whose hold is due.
LEMMA JobReadKeeps ==
  ASSUME CoreInv, NEW c \in ConversionIds, NEW healthy \in BOOLEAN, HoldJobRead(c, healthy)
  PROVE  CoreInv'
<1>1. PICK decision \in [step: {"VALIDATE", "REVIEW"}, held: BOOLEAN] :
        holdJob' = [holdJob EXCEPT ![c] = decision]
  <2> DEFINE held == conversion[c].hold # "NONE"
             sure == healthy /\ conversion[c].captured >= conversion[c].due
             step == IF sure /\ conversion[c].authority >= 2 /\ ~conversion[c].openCase
                     THEN "VALIDATE" ELSE "REVIEW"
  <2>1. holdJob' = [holdJob EXCEPT ![c] = [step |-> step, held |-> held]]
    BY Zenon DEF HoldJobRead
  <2>2. step \in {"VALIDATE", "REVIEW"} /\ held \in BOOLEAN
    OBVIOUS
  <2> HIDE DEF held, sure, step
  <2> QED
    BY <2>1, <2>2
<1>2. /\ conversion[c].made /\ conversion[c].validation = "VALIDATION_HOLD"
      /\ conversion[c].due <= clock
      /\ UNCHANGED <<conversion, identity, ingest, coreWallet, coreLedger, clock>>
  BY DEF HoldJobRead
<1>3. conversion[c] \in ConversionRow /\ HoldDays <= clock
  <2>1. conversion[c] \in ConversionRow
    BY <1>2, MadeRows DEF CoreInv
  <2> QED
    BY <1>2, <2>1 DEF CoreInv, RowsHold, RowHolds
<1>4. CoreTypeOK'
  BY <1>1, <1>2 DEF CoreInv, CoreTypeOK
<1>5. \A d \in ConversionIds : d # c => holdJob'[d] = holdJob[d]
  BY <1>1 DEF CoreInv, CoreTypeOK
<1>6. NamesHold'
  BY <1>2, <1>3, <1>5 DEF CoreInv, NamesHold
<1> QED
  BY <1>2, <1>4, <1>6 DEF CoreInv, RowsHold, MadeOf

\* What it writes: a review, or a validation of a hold that is due.
LEMMA JobWrites ==
  ASSUME CoreInv, NEW c \in ConversionIds, HoldJobReview(c) \/ HoldJobValidate(c)
  PROVE  /\ conversion[c] \in ConversionRow
         /\ holdJob' = [holdJob EXCEPT ![c] = Idle]
         /\ UNCHANGED <<identity, ingest, coreWallet, coreLedger, clock>>
         /\ \/ UNCHANGED conversion
            \/ \E row \in ConversionRow :
                 /\ RowHolds(row) /\ conversion' = [conversion EXCEPT ![c] = row]
                 /\ row.availableOn = conversion[c].availableOn
                 /\ row.cashback = conversion[c].cashback
                 /\ \/ row.status = conversion[c].status
                    \/ /\ row.status = "VALIDATED"
                       /\ conversion[c].validation = "VALIDATION_HOLD"
                       /\ conversion[c].due = HoldDays /\ HoldDays <= clock
<1>1. /\ holdJob[c] # Idle
      /\ holdJob' = [holdJob EXCEPT ![c] = Idle]
      /\ UNCHANGED <<identity, ingest, coreWallet, coreLedger, clock>>
  BY DEF HoldJobReview, HoldJobValidate, Idle
<1>2. PICK row : row = conversion[c]
  OBVIOUS
<1>3. row \in ConversionRow /\ RowHolds(row) /\ HoldDays <= clock
  BY <1>1, <1>2 DEF CoreInv, NamesHold, RowsHold
<1>4. CASE HoldJobReview(c)
  <2>1. PICK hold, new :
          /\ hold = IF holdJob[c].held THEN "REVIEW_REQUIRED" ELSE row.hold
          /\ new = Judged(row, row.status, "REVIEW_REQUIRED", hold)
    OBVIOUS
  <2>2. hold \in {"NONE", "HELD", "RELEASED", "CANCELLED", "REVIEW_REQUIRED"}
    BY <1>3, <2>1, RowFields
  <2>3. conversion' = [conversion EXCEPT ![c] = new]
    <3>1. conversion' = [conversion EXCEPT
            ![c] = [row EXCEPT !.validation = "REVIEW_REQUIRED", !.hold = hold]]
      BY <1>2, <1>4, <2>1 DEF HoldJobReview
    <3>2. [row EXCEPT !.validation = "REVIEW_REQUIRED", !.hold = hold] = new
      BY <1>3, <2>1 DEF Judged, ConversionRow
    <3> QED
      BY <3>1, <3>2
  <2>4. /\ new \in ConversionRow /\ RowHolds(new)
        /\ new.availableOn = row.availableOn /\ new.status = row.status
        /\ new.cashback = row.cashback
    BY <1>3, <2>1, <2>2, JudgedRow
  <2> QED
    BY ONLY <1>1, <1>2, <1>3, <2>3, <2>4
<1>5. CASE HoldJobValidate(c)
  <2>1. CASE row.validation # "VALIDATION_HOLD"
    <3>1. UNCHANGED conversion
      BY <1>2, <1>5, <2>1 DEF HoldJobValidate
    <3> QED
      BY <1>1, <1>2, <1>3, <3>1
  <2>2. CASE row.validation = "VALIDATION_HOLD"
    <3>1. PICK hold, new :
            /\ hold = IF holdJob[c].held THEN "RELEASED" ELSE row.hold
            /\ new = Judged(row, "VALIDATED", "VALIDATED", hold)
      OBVIOUS
    <3>2. hold \in {"NONE", "HELD", "RELEASED", "CANCELLED", "REVIEW_REQUIRED"}
      BY <1>3, <3>1, RowFields
    <3>3. conversion' = [conversion EXCEPT ![c] = new]
      <4>1. conversion' = [conversion EXCEPT
              ![c] = [row EXCEPT !.status = "VALIDATED", !.validation = "VALIDATED", !.hold = hold]]
        BY <1>2, <1>5, <2>2, <3>1 DEF HoldJobValidate
      <4> QED
        BY <4>1, <3>1 DEF Judged
    <3>4. /\ new \in ConversionRow /\ RowHolds(new)
          /\ new.availableOn = row.availableOn /\ new.status = "VALIDATED"
          /\ new.cashback = row.cashback
      BY <1>3, <3>1, <3>2, JudgedRow
    <3>5. row.due = HoldDays
      BY <1>3, <2>2 DEF RowHolds
    <3> QED
      BY ONLY <1>1, <1>2, <1>3, <2>2, <3>3, <3>4, <3>5
  <2> QED
    BY <2>1, <2>2
<1> QED
  BY <1>4, <1>5

LEMMA JobWriteKeeps ==
  ASSUME CoreInv, NEW c \in ConversionIds, HoldJobReview(c) \/ HoldJobValidate(c)
  PROVE  CoreInv'
<1>1. /\ conversion[c] \in ConversionRow
      /\ holdJob' = [holdJob EXCEPT ![c] = Idle]
      /\ UNCHANGED <<identity, ingest, coreWallet, coreLedger, clock>>
      /\ \/ UNCHANGED conversion
         \/ \E row \in ConversionRow : RowHolds(row) /\ conversion' = [conversion EXCEPT ![c] = row]
  BY JobWrites
<1>2. Rows(conversion') /\ RowsHold' /\ MadeOf(conversion') = MadeOf(conversion)
  <2>1. CASE UNCHANGED conversion
    BY <2>1 DEF CoreInv, CoreTypeOK, Rows, RowsHold, MadeOf
  <2>2. CASE \E row \in ConversionRow :
               RowHolds(row) /\ conversion' = [conversion EXCEPT ![c] = row]
    BY <1>1, <2>2, OneRowKeeps DEF CoreInv
  <2> QED
    BY <1>1, <2>1, <2>2
<1>3. /\ holdJob' \in [ConversionIds -> {Idle} \union [step: {"VALIDATE", "REVIEW"}, held: BOOLEAN]]
      /\ \A d \in ConversionIds : holdJob'[d] # Idle => holdJob[d] # Idle
  BY <1>1 DEF CoreInv, CoreTypeOK
<1>4. CoreTypeOK'
  BY <1>1, <1>2, <1>3 DEF CoreInv, CoreTypeOK, Rows
<1>5. \A d \in ConversionIds : conversion[d] \in ConversionRow <=> conversion'[d] \in ConversionRow
  BY <1>2 DEF MadeOf
<1>6. /\ \A i \in ConversionIds : \A d \in identity[i] : d \in ConversionIds
      /\ \A w \in Ingesters : ingest[w].step = "SAME" => ingest[w].of \in ConversionIds
  BY SameCallFacts DEF CoreInv, CoreTypeOK
<1>7. NamesHold'
  BY <1>1, <1>3, <1>5, <1>6 DEF CoreInv, NamesHold
<1> QED
  BY <1>2, <1>4, <1>7 DEF CoreInv, MadeOf

-----------------------------------------------------------------------------
Batch(s, orders) == UNION {identity[<<o, s>>] : o \in orders}
AmountOf(cs) == [u \in CoreUsers |-> Cashbacks(conversion, OfUser(cs, u))]

\* A settlement releases conversions that are there, validated and not released,
\* by no more than the pending column holds.
LEMMA SettleFacts ==
  ASSUME CoreInv, NEW s \in CoreSources, NEW orders \in SUBSET CoreOrders, Settle(s, orders),
         NEW cs, cs = Batch(s, orders),
         NEW amount, amount = AmountOf(cs)
  PROVE  /\ cs \subseteq MadeOf(conversion)
         /\ Rows(conversion') /\ RowsHold' /\ MadeOf(conversion') = MadeOf(conversion)
         /\ \A c \in ConversionIds \ cs : conversion'[c] = conversion[c]
         /\ \A c \in cs :
              /\ conversion'[c] \in ConversionRow
              /\ conversion[c].status = "VALIDATED" /\ conversion[c].availableOn = NoDate
              /\ conversion'[c].status = "VALIDATED" /\ conversion'[c].availableOn # NoDate
              /\ conversion'[c].cashback = conversion[c].cashback
         /\ \A u \in CoreUsers : amount[u] \in Nat /\ amount[u] <= coreWallet[u].pending
         /\ ReleaseCashback(amount)
         /\ UNCHANGED <<identity, ingest, holdJob, clock>>
<1>1. /\ \A c \in cs : Settleable(c)
      /\ \A u \in CoreUsers : amount[u] <= coreWallet[u].pending
      /\ CloseBatch(cs) /\ ReleaseCashback(amount)
      /\ UNCHANGED <<identity, ingest, holdJob, clock>>
  <2>1. amount = [u \in CoreUsers |-> CashbackSum(OfUser(cs, u))]
    BY DEF CashbackSum, OfUser, Cashbacks, AmountOf
  <2> QED
    BY <2>1 DEF Settle, MayBeSettled, Batch
<1>2. cs \subseteq MadeOf(conversion) /\ cs \subseteq ConversionIds
  <2>1. ASSUME NEW c \in cs PROVE c \in ConversionIds /\ conversion[c] \in ConversionRow
    <3>1. PICK o \in orders : c \in identity[<<o, s>>]
      BY DEF Batch
    <3> QED
      BY <3>1, KnownFacts
  <2> QED
    BY <2>1 DEF MadeOf
<1>3. clock \in Nat /\ Rows(conversion)
  BY DEF CoreInv, CoreTypeOK, Rows
<1>4. \A c \in cs :
        /\ conversion[c] \in ConversionRow /\ RowHolds(conversion[c])
        /\ conversion[c].status = "VALIDATED" /\ conversion[c].availableOn = NoDate
  <2>1. \A c \in cs : conversion[c] \in ConversionRow /\ RowHolds(conversion[c])
    BY <1>2 DEF MadeOf, CoreInv, RowsHold
  <2> QED
    BY <1>1, <2>1 DEF Settleable, RowHolds
<1>5. \A c \in ConversionIds :
        conversion'[c] = IF c \in cs THEN Settled(conversion[c], clock) ELSE conversion[c]
  BY <1>1 DEF CloseBatch, Settled
<1>6. ASSUME NEW c \in cs
      PROVE  /\ conversion'[c] \in ConversionRow /\ RowHolds(conversion'[c])
             /\ conversion'[c].status = "VALIDATED" /\ conversion'[c].availableOn # NoDate
             /\ conversion'[c].cashback = conversion[c].cashback
  <2>1. PICK row, new : row = conversion[c] /\ new = Settled(row, clock)
    OBVIOUS
  <2>2. row \in ConversionRow /\ RowHolds(row) /\ row.status = "VALIDATED" /\ conversion'[c] = new
    BY <1>2, <1>4, <1>5, <2>1
  <2>3. /\ new \in ConversionRow /\ RowHolds(new) /\ new.availableOn = clock
        /\ new.status = row.status /\ new.cashback = row.cashback
    BY ONLY <1>3, <2>1, <2>2, SettledRow
  <2> QED
    BY <1>3, <2>1, <2>2, <2>3, HoldDaysFact
<1>7. Rows(conversion')
  <2>1. conversion' = [c \in ConversionIds |-> conversion'[c]]
    BY <1>1 DEF CloseBatch
  <2>2. \A c \in ConversionIds : conversion'[c] \in ConversionRow \union {NoConversion}
    BY <1>3, <1>5, <1>6 DEF Rows
  <2> QED
    BY <2>1, <2>2 DEF Rows
<1>8. MadeOf(conversion') = MadeOf(conversion)
  BY <1>2, <1>4, <1>5, <1>6 DEF MadeOf
<1>9. RowsHold'
  BY <1>5, <1>6 DEF CoreInv, RowsHold
<1>10. \A u \in CoreUsers : amount[u] \in Nat
  <2>1. ASSUME NEW u \in CoreUsers PROVE Cashbacks(conversion, OfUser(cs, u)) \in Nat
    <3> DEFINE T == OfUser(cs, u)
               f == [c \in MadeOf(conversion) |-> IF c \in T THEN conversion[c].cashback ELSE 0]
    <3>1. T \subseteq MadeOf(conversion)
      BY <1>2 DEF OfUser
    <3>2. /\ \A c \in MadeOf(conversion) : f[c] = IF c \in T THEN conversion[c].cashback ELSE 0
          /\ \A c \in MadeOf(conversion) : f[c] \in Nat
      BY RowFields DEF MadeOf
    <3>3. IsFiniteSet(MadeOf(conversion))
      BY DEF CoreInv
    <3> HIDE DEF T, f
    <3>4. Cashbacks(conversion, T) = Total(f, MadeOf(conversion))
      BY <1>3, <3>1, <3>2, <3>3, CashbackOfSome
    <3>5. Total(f, MadeOf(conversion)) \in Nat
      BY <3>2, <3>3, TotalNat
    <3> QED
      BY <3>4, <3>5 DEF T
  <2> QED
    BY <2>1 DEF AmountOf
<1> QED
  BY <1>1, <1>2, <1>4, <1>5, <1>6, <1>7, <1>8, <1>9, <1>10

LEMMA ReleaseMoves ==
  ASSUME CoreTypeOK, NEW amount, ReleaseCashback(amount),
         \A u \in CoreUsers : amount[u] \in Nat /\ amount[u] <= coreWallet[u].pending
  PROVE  /\ coreWallet' \in [CoreUsers -> [pending: Nat, available: Nat]]
         /\ coreLedger' \in [UserAccounts \union PlatformAccounts -> Int]
         /\ \A u \in CoreUsers :
              /\ coreWallet'[u].pending = coreWallet[u].pending - amount[u]
              /\ coreWallet'[u].available = coreWallet[u].available + amount[u]
              /\ coreLedger'[<<"treasury", u>>] = coreLedger[<<"treasury", u>>]
              /\ coreLedger'[<<"recovery", u>>] = coreLedger[<<"recovery", u>>]
<1>1. \A u \in CoreUsers : coreWallet[u].pending \in Nat /\ coreWallet[u].available \in Nat
  BY DEF CoreTypeOK
<1>2. \A u \in CoreUsers :
        /\ coreWallet'[u].pending = coreWallet[u].pending - amount[u]
        /\ coreWallet'[u].available = coreWallet[u].available + amount[u]
  BY DEF ReleaseCashback
<1>3. coreWallet' \in [CoreUsers -> [pending: Nat, available: Nat]]
  BY <1>1 DEF ReleaseCashback
<1>4. coreLedger \in [CoreAccounts -> Int]
  BY DEF CoreTypeOK, CoreAccounts
<1>5. \A a \in CoreAccounts :
        coreLedger'[a] = IF a[1] = "pending" THEN coreLedger[a] - amount[a[2]]
                         ELSE IF a[1] = "available" THEN coreLedger[a] + amount[a[2]]
                         ELSE coreLedger[a]
  BY <1>4 DEF ReleaseCashback
<1>6. \A a \in CoreAccounts : a[1] \in {"pending", "available"} => a[2] \in CoreUsers
  BY DEF CoreAccounts, UserAccounts, PlatformAccounts
<1>7. \A a \in CoreAccounts : coreLedger'[a] \in Int
  BY <1>4, <1>5, <1>6
<1>8. coreLedger' \in [CoreAccounts -> Int]
  <2>1. coreLedger' = [a \in CoreAccounts |-> coreLedger'[a]]
    BY <1>4 DEF ReleaseCashback
  <2> QED
    BY <1>7, <2>1
<1>9. \A u \in CoreUsers :
        /\ coreLedger'[<<"treasury", u>>] = coreLedger[<<"treasury", u>>]
        /\ coreLedger'[<<"recovery", u>>] = coreLedger[<<"recovery", u>>]
  BY <1>5, AccountsDiffer
<1> QED
  BY <1>2, <1>3, <1>8, <1>9 DEF CoreAccounts

LEMMA SettleKeeps ==
  ASSUME CoreInv, NEW s \in CoreSources, NEW orders \in SUBSET CoreOrders, Settle(s, orders)
  PROVE  CoreInv'
<1>1. PICK cs, amount :
        /\ cs = Batch(s, orders)
        /\ amount = AmountOf(cs)
  OBVIOUS
<1>2. /\ Rows(conversion') /\ RowsHold' /\ MadeOf(conversion') = MadeOf(conversion)
      /\ \A u \in CoreUsers : amount[u] \in Nat /\ amount[u] <= coreWallet[u].pending
      /\ ReleaseCashback(amount)
      /\ UNCHANGED <<identity, ingest, holdJob, clock>>
  BY <1>1, SettleFacts
<1>3. /\ coreWallet' \in [CoreUsers -> [pending: Nat, available: Nat]]
      /\ coreLedger' \in [UserAccounts \union PlatformAccounts -> Int]
  BY <1>2, ReleaseMoves DEF CoreInv
<1>4. CoreTypeOK'
  BY <1>2, <1>3 DEF CoreInv, CoreTypeOK, Rows
<1>5. clock \in Nat
  BY DEF CoreInv, CoreTypeOK
<1>6. NamesHold' /\ IsFiniteSet(MadeOf(conversion'))
  BY <1>2, <1>5, SameNames
<1> QED
  BY <1>2, <1>4, <1>6 DEF CoreInv, MadeOf

-----------------------------------------------------------------------------
\* The desk closes a case: only the case changes.
LEMMA ResolveFacts ==
  ASSUME CoreInv, NEW c \in ConversionIds, ResolveCase(c)
  PROVE  /\ conversion[c] \in ConversionRow
         /\ \E row \in ConversionRow :
              /\ RowHolds(row) /\ conversion' = [conversion EXCEPT ![c] = row]
              /\ row.availableOn = conversion[c].availableOn
              /\ row.status = conversion[c].status /\ row.cashback = conversion[c].cashback
         /\ UNCHANGED <<identity, ingest, holdJob, coreWallet, coreLedger, clock>>
<1>1. conversion[c] \in ConversionRow /\ RowHolds(conversion[c])
  BY MadeRows DEF ResolveCase, CoreInv, RowsHold
<1>2. PICK row, stamp, open, new :
        /\ row = conversion[c] /\ stamp = row.captured /\ open = FALSE
        /\ new = Stamped(row, stamp, open)
  OBVIOUS
<1>3. row \in ConversionRow /\ RowHolds(row) /\ stamp \in Nat /\ open \in BOOLEAN
  BY <1>1, <1>2, RowFields
<1>4. /\ new \in ConversionRow /\ RowHolds(new)
      /\ new.availableOn = row.availableOn /\ new.status = row.status
      /\ new.cashback = row.cashback
  BY ONLY <1>2, <1>3, StampedRow
<1>5. conversion' = [conversion EXCEPT ![c] = new]
  <2>1. conversion' = [conversion EXCEPT ![c] = [row EXCEPT !.openCase = FALSE]]
    BY <1>2 DEF ResolveCase
  <2>2. [row EXCEPT !.openCase = FALSE] = new
    BY <1>2, <1>3 DEF Stamped, ConversionRow
  <2> QED
    BY <2>1, <2>2
<1>6. UNCHANGED <<identity, ingest, holdJob, coreWallet, coreLedger, clock>>
  BY DEF ResolveCase
<1> QED
  BY ONLY <1>1, <1>2, <1>4, <1>5, <1>6

LEMMA ResolveKeeps ==
  ASSUME CoreInv, NEW c \in ConversionIds, ResolveCase(c)
  PROVE  CoreInv'
<1>1. /\ conversion[c] \in ConversionRow
      /\ \E row \in ConversionRow : RowHolds(row) /\ conversion' = [conversion EXCEPT ![c] = row]
      /\ UNCHANGED <<identity, ingest, holdJob, coreWallet, coreLedger, clock>>
  BY ResolveFacts
<1>2. Rows(conversion') /\ RowsHold' /\ MadeOf(conversion') = MadeOf(conversion)
  BY <1>1, OneRowKeeps DEF CoreInv
<1>3. CoreTypeOK'
  BY <1>1, <1>2 DEF CoreInv, CoreTypeOK, Rows
<1>4. clock \in Nat
  BY DEF CoreInv, CoreTypeOK
<1>5. NamesHold' /\ IsFiniteSet(MadeOf(conversion'))
  BY <1>1, <1>2, <1>4, SameNames
<1> QED
  BY <1>2, <1>3, <1>5 DEF CoreInv, MadeOf

\* What is available goes to the treasury.
LEMMA SpendMoves ==
  ASSUME CoreTypeOK, NEW u \in CoreUsers, SpendAvailable(u)
  PROVE  /\ coreWallet' \in [CoreUsers -> [pending: Nat, available: Nat]]
         /\ coreLedger' \in [UserAccounts \union PlatformAccounts -> Int]
         /\ \A v \in CoreUsers :
              /\ coreWallet'[v].pending = coreWallet[v].pending
              /\ coreWallet'[v].available + coreLedger'[<<"treasury", v>>] =
                   coreWallet[v].available + coreLedger[<<"treasury", v>>]
              /\ coreLedger'[<<"recovery", v>>] = coreLedger[<<"recovery", v>>]
         /\ UNCHANGED <<conversion, identity, ingest, holdJob, clock>>
<1>1. \A v \in CoreUsers : coreWallet[v].pending \in Nat /\ coreWallet[v].available \in Nat
  BY DEF CoreTypeOK
<1>2. coreLedger \in [CoreAccounts -> Int]
  BY DEF CoreTypeOK, CoreAccounts
<1>3. PICK x : x = coreWallet[u].available
  OBVIOUS
<1> DEFINE k == <<"available", u>>  t == <<"treasury", u>>
<1>4. /\ coreWallet' = [coreWallet EXCEPT ![u].available = 0]
      /\ coreLedger' = [coreLedger EXCEPT ![k] = @ - x, ![t] = @ + x]
      /\ UNCHANGED <<conversion, identity, ingest, holdJob, clock>>
  BY <1>3 DEF SpendAvailable
<1>5. /\ k \in CoreAccounts /\ t \in CoreAccounts /\ k # t
      /\ \A v \in CoreUsers : /\ <<"treasury", v>> \in CoreAccounts /\ <<"treasury", v>> # k
                              /\ <<"treasury", v>> = t <=> v = u
                              /\ <<"recovery", v>> \in CoreAccounts
                              /\ <<"recovery", v>> \notin {k, t}
  BY AccountsDiffer
<1>6. x \in Nat
  BY <1>1, <1>3
<1> HIDE DEF k, t
<1>7. /\ coreLedger' \in [CoreAccounts -> Int]
      /\ \A a \in CoreAccounts : coreLedger'[a] =
           IF a = k THEN coreLedger[a] - x ELSE IF a = t THEN coreLedger[a] + x ELSE coreLedger[a]
  BY ONLY <1>2, <1>4, <1>5, <1>6
<1>8. coreWallet' \in [CoreUsers -> [pending: Nat, available: Nat]]
  BY <1>1, <1>4 DEF CoreTypeOK
<1>9. \A v \in CoreUsers :
        /\ coreWallet'[v].pending = coreWallet[v].pending
        /\ coreWallet'[v].available = IF v = u THEN 0 ELSE coreWallet[v].available
  BY <1>1, <1>4 DEF CoreTypeOK
<1>10. \A v \in CoreUsers :
         /\ v = u => coreLedger'[<<"treasury", v>>] = coreLedger[<<"treasury", v>>] + x
         /\ v # u => coreLedger'[<<"treasury", v>>] = coreLedger[<<"treasury", v>>]
         /\ coreLedger'[<<"recovery", v>>] = coreLedger[<<"recovery", v>>]
         /\ coreLedger[<<"treasury", v>>] \in Int
  BY ONLY <1>2, <1>5, <1>7
<1>11. ASSUME NEW v \in CoreUsers
       PROVE  coreWallet'[v].available + coreLedger'[<<"treasury", v>>] =
                coreWallet[v].available + coreLedger[<<"treasury", v>>]
  <2>1. CASE v = u
    <3>1. /\ coreWallet'[v].available = 0 /\ coreWallet[v].available = x
          /\ coreLedger'[<<"treasury", v>>] = coreLedger[<<"treasury", v>>] + x
          /\ coreLedger[<<"treasury", v>>] \in Int
      BY <1>3, <1>9, <1>10, <2>1
    <3> QED
      BY ONLY <1>6, <3>1
  <2>2. CASE v # u
    BY <1>9, <1>10, <2>2
  <2> QED
    BY <2>1, <2>2
<1>12. coreLedger' \in [UserAccounts \union PlatformAccounts -> Int]
  BY <1>7 DEF CoreAccounts
<1> QED
  BY <1>4, <1>8, <1>9, <1>10, <1>11, <1>12

LEMMA SpendKeeps ==
  ASSUME CoreInv, NEW u \in CoreUsers, SpendAvailable(u)
  PROVE  CoreInv'
<1>1. /\ coreWallet' \in [CoreUsers -> [pending: Nat, available: Nat]]
      /\ coreLedger' \in [UserAccounts \union PlatformAccounts -> Int]
      /\ UNCHANGED <<conversion, identity, ingest, holdJob, clock>>
  BY SpendMoves DEF CoreInv
<1>2. CoreTypeOK' /\ RowsHold' /\ NamesHold' /\ IsFiniteSet(MadeOf(conversion))'
  BY <1>1 DEF CoreInv, CoreTypeOK, RowsHold, NamesHold, MadeOf
<1> QED
  BY <1>2 DEF CoreInv

LEMMA DayKeeps ==
  ASSUME CoreInv, NextDay
  PROVE  CoreInv'
<1>1. /\ clock \in Nat /\ clock' = clock + 1 /\ clock' \in 0..MaxClock /\ MaxClock \in Nat
      /\ UNCHANGED <<conversion, identity, ingest, holdJob, coreWallet, coreLedger>>
  BY CoreConstantsAssumption DEF NextDay, CoreInv, CoreTypeOK
<1>2. CoreTypeOK' /\ RowsHold'
  BY <1>1 DEF CoreInv, CoreTypeOK, RowsHold
<1>3. NamesHold' /\ IsFiniteSet(MadeOf(conversion'))
  BY <1>1, SameNames
<1> QED
  BY <1>1, <1>2, <1>3 DEF CoreInv, MadeOf

\* An adjustment pays into the available column or takes from it, by its amount.
LEMMA PostMoves ==
  ASSUME CoreTypeOK, AdjustmentInv, NEW a \in Adjustments, NEW s \in Staff, PostAdjustment(a, s)
  PROVE  /\ coreWallet' \in [CoreUsers -> [pending: Nat, available: Nat]]
         /\ coreLedger' \in [UserAccounts \union PlatformAccounts -> Int]
         /\ adjustment[a] \in AdjustmentRow /\ adjustment[a].amount \in Int
         /\ \A v \in CoreUsers :
              /\ coreWallet'[v].pending = coreWallet[v].pending
              /\ coreWallet'[v].available = coreWallet[v].available
                   + (IF v = adjustment[a].user THEN adjustment[a].amount ELSE 0)
              /\ coreLedger'[<<"treasury", v>>] = coreLedger[<<"treasury", v>>]
              /\ coreLedger'[<<"recovery", v>>] = coreLedger[<<"recovery", v>>]
<1>1. adjustment[a] \in AdjustmentRow
  BY RowsAreThere DEF PostAdjustment, Approvable, AdjustmentInv
<1>2. PICK u, x : u = adjustment[a].user /\ x = adjustment[a].amount
  OBVIOUS
<1>3. u \in CoreUsers /\ x \in Int
  BY <1>1, <1>2, AdjustmentAssumption DEF AdjustmentRow
<1>4. \A v \in CoreUsers : coreWallet[v].pending \in Nat /\ coreWallet[v].available \in Nat
  BY DEF CoreTypeOK
<1>5. coreLedger \in [CoreAccounts -> Int]
  BY DEF CoreTypeOK, CoreAccounts
<1> DEFINE k == <<"available", u>>  t == <<"adjustment">>
<1>6. /\ coreWallet[u].available + x >= 0
      /\ coreWallet' = [coreWallet EXCEPT ![u].available = @ + x]
      /\ coreLedger' = [coreLedger EXCEPT ![k] = @ + x, ![t] = @ - x]
  BY <1>2 DEF PostAdjustment, MoveAdjusted
<1>7. /\ k \in CoreAccounts /\ t \in CoreAccounts /\ k # t
      /\ \A v \in CoreUsers : /\ <<"treasury", v>> \in CoreAccounts
                              /\ <<"treasury", v>> \notin {k, t}
                              /\ <<"recovery", v>> \in CoreAccounts
                              /\ <<"recovery", v>> \notin {k, t}
  BY <1>3, AccountsDiffer
<1> HIDE DEF k, t
<1>8. /\ coreLedger' \in [CoreAccounts -> Int]
      /\ \A y \in CoreAccounts : y \notin {k, t} => coreLedger'[y] = coreLedger[y]
  BY ONLY <1>3, <1>5, <1>6, <1>7
<1>9. coreWallet[u].available + x \in Nat
  BY <1>3, <1>4, <1>6
<1>10. coreWallet' \in [CoreUsers -> [pending: Nat, available: Nat]]
  BY <1>3, <1>4, <1>6, <1>9 DEF CoreTypeOK
<1>11. \A v \in CoreUsers :
         /\ coreWallet'[v].pending = coreWallet[v].pending
         /\ coreWallet'[v].available = coreWallet[v].available + (IF v = u THEN x ELSE 0)
  BY <1>3, <1>4, <1>6, <1>9 DEF CoreTypeOK
<1>12. coreLedger' \in [UserAccounts \union PlatformAccounts -> Int]
  BY <1>8 DEF CoreAccounts
<1> QED
  BY <1>1, <1>2, <1>3, <1>7, <1>8, <1>10, <1>11, <1>12

-----------------------------------------------------------------------------
(* Every step of the books keeps them typed.                               *)

BooksInv == CoreInv /\ AdjustmentInv

LEMMA BooksInitInvariant == BooksInit => BooksInv
<1> SUFFICES ASSUME BooksInit PROVE CoreInv
  BY AdjustmentInitInvariant DEF BooksInv
<1>1. CoreInit
  BY DEF BooksInit
<1>2. NoConversion \notin ConversionRow
  BY DEF NoConversion, ConversionRow
<1>3. Idle \in IngestCalls /\ Idle.step = "IDLE" /\ 0 \in 0..MaxClock
  BY CoreConstantsAssumption DEF IngestCalls, Idle
<1>4. CoreTypeOK
  BY <1>1, <1>3 DEF CoreInit, CoreTypeOK
<1>5. \A c \in ConversionIds : conversion[c] \notin ConversionRow
  BY <1>1, <1>2 DEF CoreInit
<1>6. RowsHold
  BY <1>5 DEF RowsHold
<1>7. NamesHold
  BY <1>1, <1>3, <1>5 DEF CoreInit, NamesHold
<1>8. IsFiniteSet(MadeOf(conversion))
  <2>1. MadeOf(conversion) = {}
    BY <1>5 DEF MadeOf
  <2> QED
    BY <2>1, FS_EmptySet
<1> QED
  BY <1>4, <1>6, <1>7, <1>8 DEF CoreInv

LEMMA CoreStepKeeps ==
  ASSUME CoreInv, CoreNext
  PROVE  CoreInv'
<1>1. CASE IngestNext
  <2>1. ASSUME NEW o \in CoreOrders, NEW s \in CoreSources, NEW report \in Reports,
               IngestKnown(o, s, report) \/ IngestValidation(o, s, report)
        PROVE  CoreInv'
    <3>1. PICK c \in identity[<<o, s>>] : Revise(c, report, Authority[s], FALSE)
      BY <2>1 DEF IngestKnown, IngestValidation
    <3>2. UNCHANGED <<identity, ingest, holdJob, clock>>
      BY <2>1 DEF IngestKnown, IngestValidation
    <3> QED
      BY <3>1, <3>2, KnownKeeps
  <2> QED
    BY <1>1, <2>1, ReadKeeps, RefusedKeeps, CreateKeeps, MergeKeeps DEF IngestNext
<1>2. CASE HoldJobNext
  BY <1>2, JobReadKeeps, JobWriteKeeps DEF HoldJobNext
<1>3. CASE \E s \in CoreSources, orders \in SUBSET CoreOrders : Settle(s, orders)
  BY <1>3, SettleKeeps
<1>4. CASE \E c \in ConversionIds : ResolveCase(c)
  BY <1>4, ResolveKeeps
<1>5. CASE \E u \in CoreUsers : SpendAvailable(u)
  BY <1>5, SpendKeeps
<1>6. CASE NextDay
  BY <1>6, DayKeeps
<1> QED
  BY <1>1, <1>2, <1>3, <1>4, <1>5, <1>6 DEF CoreNext

\* What the adjustments do to the conversions: nothing but to the wallets.
LEMMA AdjustmentKeepsCore ==
  ASSUME CoreInv, AdjustmentInv, AdjustmentNext
  PROVE  CoreInv'
<1>1. ASSUME UNCHANGED coreVars PROVE CoreInv'
  BY <1>1 DEF coreVars, CoreInv, CoreTypeOK, RowsHold, NamesHold, MadeOf
<1>2. ASSUME NEW a \in Adjustments, NEW s \in Staff, PostAdjustment(a, s) PROVE CoreInv'
  <2>1. /\ coreWallet' \in [CoreUsers -> [pending: Nat, available: Nat]]
        /\ coreLedger' \in [UserAccounts \union PlatformAccounts -> Int]
    BY <1>2, PostMoves DEF CoreInv
  <2>2. UNCHANGED <<conversion, identity, ingest, holdJob, clock>>
    BY <1>2 DEF PostAdjustment
  <2>3. CoreTypeOK' /\ RowsHold' /\ NamesHold' /\ IsFiniteSet(MadeOf(conversion))'
    BY <2>1, <2>2 DEF CoreInv, CoreTypeOK, RowsHold, NamesHold, MadeOf
  <2> QED
    BY <2>3 DEF CoreInv
<1> QED
  BY <1>1, <1>2 DEF AdjustmentNext, DraftAdjustment, ReviewRead, ReviewWrite

LEMMA BooksStepInvariant == BooksInv /\ [BooksNext]_booksVars => BooksInv'
<1> SUFFICES ASSUME BooksInv, [BooksNext]_booksVars PROVE CoreInv'
  BY AdjustmentStepInvariant DEF BooksInv
<1>1. ASSUME UNCHANGED coreVars PROVE CoreInv'
  BY <1>1 DEF BooksInv, coreVars, CoreInv, CoreTypeOK, RowsHold, NamesHold, MadeOf
<1> QED
  BY <1>1, CoreStepKeeps, AdjustmentKeepsCore DEF BooksInv, BooksNext, booksVars

\* Rows, calls, wallets, journals and ledger accounts have their types whatever
\* interleaves; in particular no wallet column is ever negative, though a
\* correction, a settlement or an adjustment each takes away from it what
\* another read (conversions/service.ts, settlement/service.ts, ledger/service.ts).
THEOREM BooksAreTyped == BooksSpec => []BooksTypeOK
<1>1. BooksInv => BooksTypeOK
  BY DEF BooksInv, CoreInv, AdjustmentInv, BooksTypeOK
<1> QED
  BY BooksInitInvariant, BooksStepInvariant, <1>1, PTL DEF BooksSpec

-----------------------------------------------------------------------------
(* What is released was validated.                                         *)

\* ReleasesValidated for one conversion and one step.
MovesWell(c) ==
  conversion[c].made =>
    /\ /\ conversion[c].availableOn = NoDate
       /\ conversion'[c].availableOn # NoDate
       => conversion[c].status = "VALIDATED"
    /\ /\ conversion[c].status # "VALIDATED"
       /\ conversion'[c].status = "VALIDATED"
       /\ conversion'[c].revisions = conversion[c].revisions
       => conversion[c].due # NoDate /\ conversion[c].due <= clock

LEMMA RowMovesWell ==
  ASSUME CoreInv, NEW c \in ConversionIds, NEW row, conversion' = [conversion EXCEPT ![c] = row],
         row.availableOn = conversion[c].availableOn,
         \/ row.revisions = conversion[c].revisions => row.status = conversion[c].status
         \/ conversion[c].due = HoldDays /\ HoldDays <= clock,
         NEW d \in ConversionIds
  PROVE  MovesWell(d)
<1>1. conversion'[d] = IF d = c THEN row ELSE conversion[d]
  BY DEF CoreInv, CoreTypeOK
<1> QED
  BY <1>1, HoldDaysFact DEF MovesWell

LEMMA ReviseMovesWell ==
  ASSUME CoreInv, NEW c \in ConversionIds, conversion[c] \in ConversionRow,
         NEW report \in Reports, NEW weight \in 1..3, NEW reviewed \in BOOLEAN,
         Revise(c, report, weight, reviewed), NEW d \in ConversionIds
  PROVE  MovesWell(d)
<1>1. CoreTypeOK /\ RowHolds(conversion[c])
  BY DEF CoreInv, RowsHold
<1>2. PICK row \in ConversionRow : RowMoves(c, row)
  BY <1>1, ReviseMoves
<1>3. /\ conversion' = [conversion EXCEPT ![c] = row]
      /\ row.availableOn = conversion[c].availableOn
      /\ row.revisions = conversion[c].revisions => row.status = conversion[c].status
  BY <1>2 DEF RowMoves
<1> QED
  BY ONLY <1>3, CoreInv, c \in ConversionIds, d \in ConversionIds, RowMovesWell

LEMMA SameMovesWell ==
  ASSUME UNCHANGED conversion, NEW d \in ConversionIds
  PROVE  MovesWell(d)
  BY DEF MovesWell

LEMMA StepMovesWell ==
  ASSUME BooksInv, [BooksNext]_booksVars, NEW d \in ConversionIds
  PROVE  MovesWell(d)
<1>1. CoreInv
  BY DEF BooksInv
<1>2. ASSUME IngestNext PROVE MovesWell(d)
  <2>1. ASSUME NEW o \in CoreOrders, NEW s \in CoreSources, NEW report \in Reports,
               IngestKnown(o, s, report) \/ IngestValidation(o, s, report)
        PROVE  MovesWell(d)
    <3>1. PICK c \in identity[<<o, s>>] : Revise(c, report, Authority[s], FALSE)
      BY <2>1 DEF IngestKnown, IngestValidation
    <3>2. c \in ConversionIds /\ conversion[c] \in ConversionRow /\ Authority[s] \in 1..3
      BY <1>1, <3>1, KnownFacts, WeightFacts
    <3> QED
      BY <1>1, <3>1, <3>2, ReviseMovesWell
  <2>2. ASSUME NEW w \in Ingesters, IngestMerge(w) PROVE MovesWell(d)
    <3>1. PICK c, i : c = ingest[w].of /\ i = <<ingest[w].order, ingest[w].source>>
      OBVIOUS
    <3>2. /\ c \in ConversionIds /\ conversion[c] \in ConversionRow
          /\ \/ \E report \in Reports, weight \in 1..3, reviewed \in BOOLEAN :
                  Revise(c, report, weight, reviewed)
             \/ UNCHANGED conversion
      BY <1>1, <2>2, <3>1, MergeFacts
    <3> QED
      BY <1>1, <3>2, ReviseMovesWell, SameMovesWell
  <2>3. ASSUME NEW w \in Ingesters, IngestCreate(w) PROVE MovesWell(d)
    <3>1. PICK c, report, row : /\ c = <<ingest[w].order, ingest[w].source>>
                                /\ report = ingest[w].report
                                /\ row = NewRow(report, Authority[c[2]])
      OBVIOUS
    <3>2. c \notin MadeOf(conversion) /\ conversion' = [conversion EXCEPT ![c] = row]
      BY <1>1, <2>3, <3>1, CreateFacts
    <3>3. CASE d = c
      <4>1. ~conversion[d].made
        BY <1>1, <3>2, <3>3, MadeRows DEF MadeOf, CoreInv
      <4> QED
        BY <4>1 DEF MovesWell
    <3>4. CASE d # c
      <4>1. conversion'[d] = conversion[d]
        BY <1>1, <3>2, <3>4 DEF CoreInv, CoreTypeOK
      <4> QED
        BY <4>1 DEF MovesWell
    <3> QED
      BY <3>3, <3>4
  <2>4. ASSUME NEW w \in Ingesters, IngestRefused(w) PROVE MovesWell(d)
    BY <2>4, SameMovesWell DEF IngestRefused
  <2>5. ASSUME NEW w \in Ingesters, NEW o \in CoreOrders, NEW s \in CoreSources,
               NEW report \in Reports, IngestRead(w, o, s, report)
        PROVE  MovesWell(d)
    BY <2>5, SameMovesWell DEF IngestRead
  <2> QED
    BY <1>2, <2>1, <2>2, <2>3, <2>4, <2>5 DEF IngestNext
<1>3. ASSUME HoldJobNext PROVE MovesWell(d)
  <2>1. ASSUME NEW c \in ConversionIds, NEW healthy \in BOOLEAN, HoldJobRead(c, healthy)
        PROVE  MovesWell(d)
    BY <2>1, SameMovesWell DEF HoldJobRead
  <2>2. ASSUME NEW c \in ConversionIds, HoldJobReview(c) \/ HoldJobValidate(c)
        PROVE  MovesWell(d)
    <3>1. \/ UNCHANGED conversion
          \/ \E row \in ConversionRow :
               /\ conversion' = [conversion EXCEPT ![c] = row]
               /\ row.availableOn = conversion[c].availableOn
               /\ \/ row.status = conversion[c].status
                  \/ conversion[c].due = HoldDays /\ HoldDays <= clock
      BY <1>1, <2>2, JobWrites
    <3> QED
      BY <1>1, <3>1, RowMovesWell, SameMovesWell
  <2> QED
    BY <1>3, <2>1, <2>2 DEF HoldJobNext
<1>4. ASSUME NEW s \in CoreSources, NEW orders \in SUBSET CoreOrders, Settle(s, orders)
      PROVE  MovesWell(d)
  <2>1. PICK cs, amount :
          /\ cs = Batch(s, orders)
          /\ amount = AmountOf(cs)
    OBVIOUS
  <2>2. /\ \A c \in ConversionIds \ cs : conversion'[c] = conversion[c]
        /\ \A c \in cs : conversion[c].status = "VALIDATED"
    BY <1>1, <1>4, <2>1, SettleFacts
  <2> QED
    BY <2>2 DEF MovesWell
<1>5. ASSUME NEW c \in ConversionIds, ResolveCase(c) PROVE MovesWell(d)
  BY <1>1, <1>5, ResolveFacts, RowMovesWell
<1>6. ASSUME UNCHANGED conversion PROVE MovesWell(d)
  BY <1>6, SameMovesWell
<1>7. ASSUME AdjustmentNext PROVE MovesWell(d)
  BY <1>7, <1>6 DEF AdjustmentNext, DraftAdjustment, ReviewRead, ReviewWrite, PostAdjustment, coreVars
<1>8. ASSUME CoreNext PROVE MovesWell(d)
  BY <1>8, <1>2, <1>3, <1>4, <1>5, <1>6 DEF CoreNext, SpendAvailable, NextDay
<1> QED
  BY <1>6, <1>7, <1>8 DEF BooksNext, booksVars, coreVars

\* Cashback becomes available only for an order that is validated at that
\* moment, and a hold ends in a validation only once it is due, in whatever
\* order corrections, the hold job and settlements come
\* (conversions/service.ts:360-480, settlement/service.ts).
THEOREM OnlyValidatedIsReleased == BooksSpec => ReleasesValidated
<1>1. BooksInv /\ [BooksNext]_booksVars =>
        [\A c \in ConversionIds : conversion[c].made =>
           /\ /\ conversion[c].availableOn = NoDate
              /\ conversion'[c].availableOn # NoDate
              => conversion[c].status = "VALIDATED"
           /\ /\ conversion[c].status # "VALIDATED"
              /\ conversion'[c].status = "VALIDATED"
              /\ conversion'[c].revisions = conversion[c].revisions
              => conversion[c].due # NoDate /\ conversion[c].due <= clock]_coreVars
  BY StepMovesWell DEF MovesWell
<1> QED
  BY BooksInitInvariant, BooksStepInvariant, <1>1, PTL DEF BooksSpec, ReleasesValidated

-----------------------------------------------------------------------------
(* The money of the books adds up.                                         *)

Posted == {a \in Adjustments : posting[a] # {}}
GivenTo(u) == [a \in Adjustments |-> IF adjustment[a].user = u THEN adjustment[a].amount ELSE 0]

OwedSum(u) == Total(OwingOf(conversion, u), MadeOf(conversion))
FreedSum(u) == Total(FreedOf(conversion, u), MadeOf(conversion))
GivenSum(u) == Total(GivenTo(u), Posted)

\* A rejected conversion has nothing to pay, and no call under way is about to
\* make one that has: this is where first reports of rejections would break the
\* books.
NothingIsRejectedFirst ==
  /\ \A c \in ConversionIds :
       conversion[c] \in ConversionRow /\ conversion[c].status = "REJECTED"
       => conversion[c].cashback = 0
  /\ \A w \in Ingesters : ingest[w].step = "NEW" => ingest[w].report.status # "rejected"

\* What was posted is an adjustment of someone.
PostedRows ==
  /\ IsFiniteSet(Posted)
  /\ \A a \in Adjustments : posting[a] # {} => adjustment[a] \in AdjustmentRow

PendingAdds == \A u \in CoreUsers : coreWallet[u].pending = OwedSum(u)

InHand(u) == coreWallet[u].available + coreLedger[<<"treasury", u>>] + coreLedger[<<"recovery", u>>]
AvailableAdds == \A u \in CoreUsers : InHand(u) = FreedSum(u) + GivenSum(u)

MoneyInv == NothingIsRejectedFirst /\ PostedRows /\ PendingAdds /\ AvailableAdds

LEMMA GivenIsInt ==
  ASSUME PostedRows, NEW u, NEW a \in Posted
  PROVE  /\ a \in Adjustments /\ adjustment[a].amount \in Int /\ GivenTo(u)[a] \in Int
         /\ GivenTo(u)[a] = IF adjustment[a].user = u THEN adjustment[a].amount ELSE 0
<1>1. a \in Adjustments /\ adjustment[a] \in AdjustmentRow
  BY DEF Posted, PostedRows
<1>2. adjustment[a].amount \in Int
  BY <1>1, AdjustmentAssumption DEF AdjustmentRow
<1>3. GivenTo(u)[a] = IF adjustment[a].user = u THEN adjustment[a].amount ELSE 0
  BY <1>1 DEF GivenTo
<1> QED
  BY <1>1, <1>2, <1>3

\* The amounts of adjustments, summed as the run sums them.
LEMMA AdjustedIsTotal ==
  ASSUME PostedRows, NEW u \in CoreUsers
  PROVE  Adjusted(u) = GivenSum(u)
<1> DEFINE S == {a \in Adjustments : posting[a] # {} /\ adjustment[a].user = u}
           f == [a \in S |-> adjustment[a].amount]
           h == CHOOSE iter : iter = [s \in SUBSET S |->
                   IF s = {} THEN 0 ELSE adjustment[Some(s)].amount + iter[Rest(s)]]
           g == GivenTo(u)
<1>1. S \subseteq Posted /\ IsFiniteSet(Posted)
  BY DEF Posted, PostedRows
<1>2. IsFiniteSet(S)
  BY <1>1, FS_Subset
<1>3. ASSUME NEW a \in Posted
      PROVE  g[a] \in Int /\ (a \notin S => g[a] = 0)
  <2>1. a \notin S => adjustment[a].user # u
    BY DEF Posted
  <2> HIDE DEF S
  <2> QED
    BY <2>1, GivenIsInt
<1>4. \A a \in S : f[a] = g[a]
  BY DEF GivenTo
<1>5. Adjusted(u) = Total(f, S)
  <2>1. \A s \in SUBSET S : s # {} => Some(s) \in S /\ f[Some(s)] = adjustment[Some(s)].amount
    BY DEF Some
  <2>2. \A k : [s \in SUBSET S |-> IF s = {} THEN 0 ELSE f[Some(s)] + k[Rest(s)]]
                = [s \in SUBSET S |-> IF s = {} THEN 0 ELSE adjustment[Some(s)].amount + k[Rest(s)]]
    BY <2>1
  <2>3. PICK k : Summer(k, f, S)
    BY <1>2, SummerExists
  <2>4. k = [s \in SUBSET S |-> IF s = {} THEN 0 ELSE adjustment[Some(s)].amount + k[Rest(s)]]
    BY <2>2, <2>3 DEF Summer
  <2>5. h = [s \in SUBSET S |-> IF s = {} THEN 0 ELSE adjustment[Some(s)].amount + h[Rest(s)]]
    BY <2>4
  <2>6. Adjusted(u) = h[S]
    BY DEF Adjusted, MapThenSumSet, MapThenFoldSet, Some, Rest
  <2>7. Summer(h, f, S)
    BY <2>2, <2>5 DEF Summer
  <2>8. PICK j : Summer(j, f, S) /\ Total(f, S) = j[S]
    BY <1>2, TotalByFold
  <2> HIDE DEF S, f, h
  <2>9. h[S] = j[S]
    BY <1>2, <2>7, <2>8, SummersAgree
  <2> QED
    BY <2>6, <2>8, <2>9
<1> HIDE DEF S, f, g
<1>6. Total(f, S) = Total(g, S)
  BY <1>2, <1>4, TotalExtends
<1>7. \A a \in Posted : g[a] \in Int
  BY <1>3
<1>8. \A a \in Posted \ S : g[a] = 0
  BY <1>3
<1>9. Total(g, Posted) = Total(g, S)
  BY <1>1, <1>7, <1>8, TotalWithin
<1> QED
  BY <1>5, <1>6, <1>9 DEF GivenSum, g

\* One of several amounts is no more than their sum.
LEMMA OneOfTotal ==
  ASSUME NEW f, NEW S, IsFiniteSet(S), \A x \in S : f[x] \in Nat, NEW k \in S
  PROVE  f[k] <= Total(f, S)
<1>1. \A x \in S : f[x] \in Int
  OBVIOUS
<1>2. Total(f, S) = f[k] + Total(f, S \ {k})
  BY <1>1, TotalRemove
<1>3. IsFiniteSet(S \ {k})
  BY FS_Subset
<1>4. \A x \in S \ {k} : f[x] \in Nat
  OBVIOUS
<1>5. Total(f, S \ {k}) \in Nat
  BY <1>3, <1>4, TotalNat
<1> QED
  BY <1>2, <1>5

\* The sums are numbers, and the pending column covers each row it is owed for.
LEMMA SumFacts ==
  ASSUME BooksInv, PostedRows, NEW u \in CoreUsers
  PROVE  /\ OwedSum(u) \in Nat /\ FreedSum(u) \in Nat /\ GivenSum(u) \in Int
         /\ coreWallet[u].pending \in Nat /\ coreWallet[u].available \in Nat
         /\ coreLedger[<<"treasury", u>>] \in Int /\ coreLedger[<<"recovery", u>>] \in Int
<1>1. IsFiniteSet(MadeOf(conversion)) /\ Rows(conversion) /\ CoreTypeOK
  BY DEF BooksInv, CoreInv, CoreTypeOK, Rows
<1>2. /\ \A c \in MadeOf(conversion) : OwingOf(conversion, u)[c] \in Nat
      /\ \A c \in MadeOf(conversion) : FreedOf(conversion, u)[c] \in Nat
  BY <1>1, SharesAreInts
<1>3. OwedSum(u) \in Nat /\ FreedSum(u) \in Nat
  BY <1>1, <1>2, TotalNat DEF OwedSum, FreedSum
<1>4. \A a \in Posted : GivenTo(u)[a] \in Int
  BY GivenIsInt
<1>5. GivenSum(u) \in Int
  BY <1>4, TotalInt DEF GivenSum, PostedRows
<1>6. coreWallet[u].pending \in Nat /\ coreWallet[u].available \in Nat
  BY <1>1 DEF CoreTypeOK
<1>7. coreLedger[<<"treasury", u>>] \in Int /\ coreLedger[<<"recovery", u>>] \in Int
  BY <1>1, AccountsDiffer DEF CoreTypeOK, CoreAccounts
<1> QED
  BY <1>3, <1>5, <1>6, <1>7

LEMMA RowIsCovered ==
  ASSUME BooksInv, MoneyInv, NEW c \in MadeOf(conversion), conversion[c].availableOn = NoDate
  PROVE  conversion[c].cashback <= coreWallet[UserOf(c)].pending
<1>1. IsFiniteSet(MadeOf(conversion)) /\ Rows(conversion)
  BY DEF BooksInv, CoreInv, CoreTypeOK, Rows
<1>2. PICK u : u = UserOf(c)
  OBVIOUS
<1>3. u \in CoreUsers
  BY <1>2, CoreConstantsAssumption DEF MadeOf, ConversionIds, UserOf
<1>4. \A d \in MadeOf(conversion) : OwingOf(conversion, u)[d] \in Nat
  BY <1>1, SharesAreInts
<1>5. OwingOf(conversion, u)[c] <= Total(OwingOf(conversion, u), MadeOf(conversion))
  BY <1>1, <1>4, OneOfTotal
<1>6. coreWallet[u].pending = Total(OwingOf(conversion, u), MadeOf(conversion))
  BY <1>3 DEF MoneyInv, PendingAdds, OwedSum
<1>7. OwingOf(conversion, u)[c] = Owing(conversion[c])
  BY <1>1, <1>2, SharesAreInts
<1>8. conversion[c] \in ConversionRow /\ c \in ConversionIds
  BY DEF MadeOf
<1>9. Owing(conversion[c]) = conversion[c].cashback
  BY <1>8 DEF Owing, MoneyInv, NothingIsRejectedFirst
<1> QED
  BY <1>2, <1>5, <1>6, <1>7, <1>9

\* Calls under way that are about to make a conversion are none but those that were.
NoNewCalls ==
  \A w \in Ingesters : ingest'[w].step = "NEW" => ingest'[w] = ingest[w] /\ ingest[w].step = "NEW"

\* A step that rewrites a row and pays for it, or makes its user a debtor of the
\* difference.
LEMMA OneRowMoney ==
  ASSUME BooksInv, MoneyInv, NEW c \in MadeOf(conversion), NEW row \in ConversionRow,
         conversion' = [conversion EXCEPT ![c] = row],
         row.availableOn = conversion[c].availableOn,
         row.status = "REJECTED" => row.cashback = 0,
         NEW paid \in Int, NEW debt \in Nat, MoneyMoves(c, paid, debt),
         paid - debt = row.cashback - conversion[c].cashback,
         /\ conversion[c].availableOn = NoDate
         /\ coreWallet[UserOf(c)].pending + row.cashback >= conversion[c].cashback
         => debt = 0,
         UNCHANGED adjustmentVars, NoNewCalls
  PROVE  MoneyInv'
<1>1. PICK old : old = conversion[c]
  OBVIOUS
<1>2. /\ c \in ConversionIds /\ old \in ConversionRow /\ old.cashback \in Nat
      /\ row.cashback \in Nat /\ Rows(conversion) /\ IsFiniteSet(MadeOf(conversion))
      /\ old.status = "REJECTED" => old.cashback = 0
  BY <1>1, RowFields DEF MadeOf, BooksInv, CoreInv, CoreTypeOK, Rows, MoneyInv, NothingIsRejectedFirst
<1>3. /\ Owing(old) = IF old.availableOn = NoDate THEN old.cashback ELSE 0
      /\ Owing(row) = IF old.availableOn = NoDate THEN row.cashback ELSE 0
      /\ Freed(old) = IF old.availableOn = NoDate THEN 0 ELSE old.cashback
      /\ Freed(row) = IF old.availableOn = NoDate THEN 0 ELSE row.cashback
  BY <1>1, <1>2 DEF Owing, Freed
<1>4. old.availableOn = NoDate => debt = 0
  <2>1. ASSUME old.availableOn = NoDate
        PROVE  coreWallet[UserOf(c)].pending + row.cashback >= old.cashback
    <3>1. old.cashback <= coreWallet[UserOf(c)].pending
      BY <1>1, <2>1, RowIsCovered
    <3>2. coreWallet[UserOf(c)].pending \in Nat
      BY <1>2, CoreConstantsAssumption DEF ConversionIds, UserOf, BooksInv, CoreInv, CoreTypeOK
    <3> QED
      BY <1>2, <3>1, <3>2
  <2> QED
    BY <1>1, <2>1
<1>5. /\ Rows(conversion') /\ conversion'[c] = row
      /\ \A d \in ConversionIds : d # c => conversion'[d] = conversion[d]
  BY <1>2 DEF Rows
<1>6. NothingIsRejectedFirst'
  BY <1>5 DEF NothingIsRejectedFirst, NoNewCalls, MoneyInv
<1>7. PostedRows' /\ \A u : GivenSum(u)' = GivenSum(u)
  BY DEF adjustmentVars, MoneyInv, PostedRows, Posted, GivenSum, GivenTo
<1>8. ASSUME NEW u \in CoreUsers
      PROVE  coreWallet'[u].pending = OwedSum(u)' /\ InHand(u)' = FreedSum(u)' + GivenSum(u)'
  <2>1. /\ OwedSum(u)' = OwedSum(u) + (IF UserOf(c) = u THEN Owing(row) - Owing(old) ELSE 0)
        /\ FreedSum(u)' = FreedSum(u) + (IF UserOf(c) = u THEN Freed(row) - Freed(old) ELSE 0)
    <3>1. PICK v, w : v = conversion /\ w = conversion'
      OBVIOUS
    <3>2. /\ Rows(v) /\ IsFiniteSet(MadeOf(v)) /\ c \in MadeOf(v) /\ row \in ConversionRow
          /\ Rows(w) /\ w[c] = row /\ v[c] = old
          /\ \A d \in ConversionIds : d # c => w[d] = v[d]
      BY <1>1, <1>2, <1>5, <3>1
    <3>3. /\ Total(OwingOf(w, u), MadeOf(w)) =
               Total(OwingOf(v, u), MadeOf(v))
                 + (IF UserOf(c) = u THEN Owing(row) - Owing(v[c]) ELSE 0)
          /\ Total(FreedOf(w, u), MadeOf(w)) =
               Total(FreedOf(v, u), MadeOf(v))
                 + (IF UserOf(c) = u THEN Freed(row) - Freed(v[c]) ELSE 0)
      BY ONLY <3>2, OneRowChanges
    <3> QED
      BY <3>1, <3>2, <3>3 DEF OwedSum, FreedSum
  <2>2. /\ OwedSum(u) \in Nat /\ FreedSum(u) \in Nat /\ GivenSum(u) \in Int
        /\ coreWallet[u].pending \in Nat /\ coreWallet[u].available \in Nat
        /\ coreLedger[<<"treasury", u>>] \in Int /\ coreLedger[<<"recovery", u>>] \in Int
    BY SumFacts DEF MoneyInv
  <2>3. /\ coreWallet[u].pending = OwedSum(u)
        /\ coreWallet[u].available + coreLedger[<<"treasury", u>>] + coreLedger[<<"recovery", u>>]
             = FreedSum(u) + GivenSum(u)
    BY DEF MoneyInv, PendingAdds, AvailableAdds, InHand
  <2>4. /\ coreWallet'[u].pending = coreWallet[u].pending
             + (IF u = UserOf(c) /\ old.availableOn = NoDate THEN paid ELSE 0)
        /\ coreWallet'[u].available = coreWallet[u].available
             + (IF u = UserOf(c) /\ old.availableOn # NoDate THEN paid ELSE 0)
        /\ coreLedger'[<<"treasury", u>>] = coreLedger[<<"treasury", u>>]
        /\ coreLedger'[<<"recovery", u>>] =
             coreLedger[<<"recovery", u>>] - (IF u = UserOf(c) THEN debt ELSE 0)
    BY <1>1 DEF MoneyMoves
  <2>5. GivenSum(u)' = GivenSum(u)
    BY <1>7
  <2>6. coreWallet'[u].pending = OwedSum(u)'
    <3>1. CASE u = UserOf(c) /\ old.availableOn = NoDate
      BY <1>1, <1>2, <1>3, <1>4, <2>1, <2>2, <2>3, <2>4, <3>1
    <3>2. CASE u = UserOf(c) /\ old.availableOn # NoDate
      BY <1>3, <2>1, <2>2, <2>3, <2>4, <3>2
    <3>3. CASE u # UserOf(c)
      BY <2>1, <2>2, <2>3, <2>4, <3>3
    <3> QED
      BY <3>1, <3>2, <3>3
  <2>7. InHand(u)' = FreedSum(u)' + GivenSum(u)'
    <3>1. CASE u = UserOf(c) /\ old.availableOn = NoDate
      BY <1>3, <1>4, <2>1, <2>2, <2>3, <2>4, <2>5, <3>1 DEF InHand
    <3>2. CASE u = UserOf(c) /\ old.availableOn # NoDate
      BY <1>1, <1>2, <1>3, <2>1, <2>2, <2>3, <2>4, <2>5, <3>2 DEF InHand
    <3>3. CASE u # UserOf(c)
      BY <2>1, <2>2, <2>3, <2>4, <2>5, <3>3 DEF InHand
    <3> QED
      BY <3>1, <3>2, <3>3
  <2> QED
    BY <2>6, <2>7
<1> QED
  BY <1>6, <1>7, <1>8 DEF MoneyInv, PendingAdds, AvailableAdds

\* A step that leaves the rows and the money.
LEMMA NothingMoves ==
  ASSUME MoneyInv, UNCHANGED <<conversion, coreWallet, coreLedger>>, UNCHANGED adjustmentVars,
         \A w \in Ingesters : ingest'[w].step = "NEW" => ingest'[w].report.status # "rejected"
  PROVE  MoneyInv'
<1>1. NothingIsRejectedFirst'
  BY DEF MoneyInv, NothingIsRejectedFirst
<1>2. /\ PostedRows' /\ PendingAdds' /\ AvailableAdds'
  BY DEF MoneyInv, adjustmentVars, PostedRows, Posted, PendingAdds, AvailableAdds, InHand,
         OwedSum, FreedSum, GivenSum, GivenTo
<1> QED
  BY <1>1, <1>2 DEF MoneyInv

LEMMA ReviseMoney ==
  ASSUME BooksInv, MoneyInv, NEW c \in ConversionIds, conversion[c] \in ConversionRow,
         NEW report \in Reports, NEW weight \in 1..3, NEW reviewed \in BOOLEAN,
         Revise(c, report, weight, reviewed), UNCHANGED adjustmentVars, NoNewCalls
  PROVE  MoneyInv'
<1>1. CoreTypeOK /\ RowHolds(conversion[c]) /\ c \in MadeOf(conversion)
  BY DEF BooksInv, CoreInv, RowsHold, MadeOf
<1>2. PICK row \in ConversionRow, paid \in Int, debt \in Nat :
        /\ RowMoves(c, row)
        /\ MoneyMoves(c, paid, debt)
        /\ paid - debt = row.cashback - conversion[c].cashback
        /\ /\ conversion[c].availableOn = NoDate
           /\ coreWallet[UserOf(c)].pending + row.cashback >= conversion[c].cashback
           => debt = 0
  BY <1>1, ReviseMoves
<1>3. /\ conversion' = [conversion EXCEPT ![c] = row]
      /\ row.availableOn = conversion[c].availableOn
      /\ row.status = "REJECTED" => row.cashback = 0
  <2>1. conversion[c].status = "REJECTED" => conversion[c].cashback = 0
    BY DEF MoneyInv, NothingIsRejectedFirst
  <2> QED
    BY <1>2, <2>1 DEF RowMoves
<1> QED
  BY <1>1, <1>2, <1>3, OneRowMoney

\* A row that is judged or stamped, and not paid for.
LEMMA UnpaidMoney ==
  ASSUME BooksInv, MoneyInv, NEW c \in ConversionIds, conversion[c] \in ConversionRow,
         NEW row \in ConversionRow, conversion' = [conversion EXCEPT ![c] = row],
         row.availableOn = conversion[c].availableOn,
         row.cashback = conversion[c].cashback,
         row.status \in {conversion[c].status, "VALIDATED"},
         UNCHANGED <<ingest, coreWallet, coreLedger>>, UNCHANGED adjustmentVars
  PROVE  MoneyInv'
<1>1. c \in MadeOf(conversion) /\ NoNewCalls
  BY DEF MadeOf, NoNewCalls
<1>2. PICK paid \in Int, debt \in Nat : paid = 0 /\ debt = 0
  OBVIOUS
<1>3. MoneyMoves(c, paid, debt)
  <2>1. CoreTypeOK
    BY DEF BooksInv, CoreInv
  <2>2. \A v \in CoreUsers : coreWallet[v].pending \in Nat /\ coreWallet[v].available \in Nat
    BY <2>1 DEF CoreTypeOK
  <2>3. coreLedger \in [CoreAccounts -> Int]
    BY <2>1 DEF CoreTypeOK, CoreAccounts
  <2>4. \A v \in CoreUsers : coreLedger[<<"recovery", v>>] \in Int
    BY <2>3, AccountsDiffer
  <2> QED
    BY <1>2, <2>1, <2>2, <2>3, <2>4 DEF MoneyMoves, CoreTypeOK
<1>4. row.status = "REJECTED" => row.cashback = 0
  BY DEF MoneyInv, NothingIsRejectedFirst
<1>5. paid - debt = row.cashback - conversion[c].cashback /\ debt = 0
  <2>1. row.cashback \in Nat
    BY RowFields
  <2> QED
    BY <1>2, <2>1
<1> QED
  BY <1>1, <1>3, <1>4, <1>5, OneRowMoney

LEMMA CreateMoney ==
  ASSUME BooksInv, MoneyInv, NEW w \in Ingesters, IngestCreate(w), UNCHANGED adjustmentVars
  PROVE  MoneyInv'
<1>1. PICK c, report, row : /\ c = <<ingest[w].order, ingest[w].source>>
                            /\ report = ingest[w].report /\ row = NewRow(report, Authority[c[2]])
  OBVIOUS
<1>2. CoreInv /\ CoreTypeOK /\ Rows(conversion) /\ IsFiniteSet(MadeOf(conversion))
  BY DEF BooksInv, CoreInv, CoreTypeOK, Rows
<1>3. /\ c \in ConversionIds /\ c \notin MadeOf(conversion)
      /\ report \in Reports /\ UserOf(c) \in CoreUsers
      /\ row \in ConversionRow /\ row.availableOn = NoDate
      /\ row.cashback = CashbackOf(report.net) /\ row.status = ConversionStatusOf(report)
      /\ conversion' = [conversion EXCEPT ![c] = row]
      /\ ingest' = [ingest EXCEPT ![w] = Idle]
      /\ PostPending(UserOf(c), report)
  BY <1>1, <1>2, CreateFacts
<1>4. report.status # "rejected" /\ row.status # "REJECTED" /\ row.cashback \in Nat
  <2>1. report.status # "rejected"
    BY <1>1 DEF IngestCreate, MoneyInv, NothingIsRejectedFirst
  <2> QED
    BY <1>3, <2>1, ReportFacts
<1>5. FirstPay(report) = row.cashback /\ Owing(row) = row.cashback /\ Freed(row) = 0
  BY <1>3, <1>4 DEF FirstPay, Owing, Freed
<1>6. /\ Rows(conversion') /\ conversion'[c] = row
      /\ \A d \in ConversionIds : d # c => conversion'[d] = conversion[d]
  BY <1>2, <1>3 DEF Rows
<1>7. NothingIsRejectedFirst'
  <2>1. \A x \in Ingesters :
          ingest'[x].step = "NEW" => ingest'[x] = ingest[x] /\ ingest[x].step = "NEW"
    BY <1>2, <1>3, CallOver
  <2> QED
    BY <1>4, <1>6, <2>1 DEF MoneyInv, NothingIsRejectedFirst
<1>8. PostedRows' /\ \A u : GivenSum(u)' = GivenSum(u)
  BY DEF adjustmentVars, MoneyInv, PostedRows, Posted, GivenSum, GivenTo
<1>9. ASSUME NEW u \in CoreUsers
      PROVE  coreWallet'[u].pending = OwedSum(u)' /\ InHand(u)' = FreedSum(u)' + GivenSum(u)'
  <2>1. /\ OwedSum(u)' = OwedSum(u) + (IF UserOf(c) = u THEN row.cashback ELSE 0)
        /\ FreedSum(u)' = FreedSum(u)
    <3>1. PICK v, z : v = conversion /\ z = conversion'
      OBVIOUS
    <3>2. /\ Rows(v) /\ IsFiniteSet(MadeOf(v)) /\ c \in ConversionIds /\ c \notin MadeOf(v)
          /\ row \in ConversionRow /\ Rows(z) /\ z[c] = row
          /\ \A d \in ConversionIds : d # c => z[d] = v[d]
      BY <1>2, <1>3, <1>6, <3>1
    <3>3. /\ Total(OwingOf(z, u), MadeOf(z)) =
               Total(OwingOf(v, u), MadeOf(v)) + (IF UserOf(c) = u THEN Owing(row) ELSE 0)
          /\ Total(FreedOf(z, u), MadeOf(z)) =
               Total(FreedOf(v, u), MadeOf(v)) + (IF UserOf(c) = u THEN Freed(row) ELSE 0)
          /\ Total(FreedOf(v, u), MadeOf(v)) \in Int
      BY ONLY <3>2, OneRowAdded
    <3> QED
      BY <1>5, <3>1, <3>3 DEF OwedSum, FreedSum
  <2>2. /\ OwedSum(u) \in Nat /\ FreedSum(u) \in Nat /\ GivenSum(u) \in Int
        /\ coreWallet[u].pending \in Nat /\ coreWallet[u].available \in Nat
        /\ coreLedger[<<"treasury", u>>] \in Int /\ coreLedger[<<"recovery", u>>] \in Int
    BY SumFacts DEF MoneyInv
  <2>3. coreWallet[u].pending = OwedSum(u) /\ InHand(u) = FreedSum(u) + GivenSum(u)
    BY DEF MoneyInv, PendingAdds, AvailableAdds
  <2>4. /\ coreWallet'[u].pending =
             coreWallet[u].pending + (IF u = UserOf(c) THEN FirstPay(report) ELSE 0)
        /\ coreWallet'[u].available = coreWallet[u].available
        /\ coreLedger'[<<"treasury", u>>] = coreLedger[<<"treasury", u>>]
        /\ coreLedger'[<<"recovery", u>>] = coreLedger[<<"recovery", u>>]
    BY <1>2, <1>3, PostPendingMoves
  <2>5. coreWallet'[u].pending = OwedSum(u)'
    BY <1>5, <2>1, <2>2, <2>3, <2>4
  <2>6. InHand(u)' = FreedSum(u)' + GivenSum(u)'
    BY <1>8, <2>1, <2>3, <2>4 DEF InHand
  <2> QED
    BY <2>5, <2>6
<1> QED
  BY <1>7, <1>8, <1>9 DEF MoneyInv, PendingAdds, AvailableAdds

LEMMA SettleMoney ==
  ASSUME BooksInv, MoneyInv, NEW s \in CoreSources, NEW orders \in SUBSET CoreOrders,
         Settle(s, orders), UNCHANGED adjustmentVars
  PROVE  MoneyInv'
<1>1. PICK cs, amount : cs = Batch(s, orders) /\ amount = AmountOf(cs)
  OBVIOUS
<1>2. CoreInv /\ CoreTypeOK /\ Rows(conversion) /\ IsFiniteSet(MadeOf(conversion))
  BY DEF BooksInv, CoreInv, CoreTypeOK, Rows
<1>3. /\ cs \subseteq MadeOf(conversion)
      /\ Rows(conversion')
      /\ \A c \in ConversionIds \ cs : conversion'[c] = conversion[c]
      /\ \A c \in cs :
           /\ conversion'[c] \in ConversionRow
           /\ conversion[c].status = "VALIDATED" /\ conversion[c].availableOn = NoDate
           /\ conversion'[c].status = "VALIDATED" /\ conversion'[c].availableOn # NoDate
           /\ conversion'[c].cashback = conversion[c].cashback
      /\ \A u \in CoreUsers : amount[u] \in Nat /\ amount[u] <= coreWallet[u].pending
      /\ ReleaseCashback(amount)
      /\ UNCHANGED <<identity, ingest, holdJob, clock>>
  BY <1>1, <1>2, SettleFacts
<1>4. \A c \in cs :
        /\ conversion'[c] \in ConversionRow
        /\ Owing(conversion[c]) = conversion[c].cashback /\ Freed(conversion[c]) = 0
        /\ Owing(conversion'[c]) = 0 /\ Freed(conversion'[c]) = conversion[c].cashback
  BY <1>3 DEF Owing, Freed
<1>5. NothingIsRejectedFirst'
  <2>1. \A c \in ConversionIds :
          conversion'[c].status = "REJECTED" => conversion'[c] = conversion[c]
    BY <1>3
  <2> QED
    BY <1>3, <2>1 DEF MoneyInv, NothingIsRejectedFirst
<1>6. PostedRows' /\ \A u : GivenSum(u)' = GivenSum(u)
  BY DEF adjustmentVars, MoneyInv, PostedRows, Posted, GivenSum, GivenTo
<1>7. ASSUME NEW u \in CoreUsers
      PROVE  coreWallet'[u].pending = OwedSum(u)' /\ InHand(u)' = FreedSum(u)' + GivenSum(u)'
  <2>1. OwedSum(u)' = OwedSum(u) - amount[u] /\ FreedSum(u)' = FreedSum(u) + amount[u]
    <3>1. PICK v, z, x : /\ v = conversion /\ z = conversion'
                         /\ x = Cashbacks(v, OfUser(cs, u))
      OBVIOUS
    <3>2. /\ Rows(v) /\ IsFiniteSet(MadeOf(v)) /\ cs \subseteq MadeOf(v) /\ Rows(z)
          /\ x = Cashbacks(v, OfUser(cs, u)) /\ Releases(v, z, cs)
      BY <1>2, <1>3, <1>4, <3>1 DEF Releases
    <3>3. /\ Total(OwingOf(z, u), MadeOf(z)) = Total(OwingOf(v, u), MadeOf(v)) - x
          /\ Total(FreedOf(z, u), MadeOf(z)) = Total(FreedOf(v, u), MadeOf(v)) + x
      BY ONLY <3>2, SomeAreReleased
    <3>4. amount[u] = x
      BY <1>1, <3>1 DEF AmountOf
    <3> QED
      BY <3>1, <3>3, <3>4 DEF OwedSum, FreedSum
  <2>2. /\ OwedSum(u) \in Nat /\ FreedSum(u) \in Nat /\ GivenSum(u) \in Int
        /\ coreWallet[u].pending \in Nat /\ coreWallet[u].available \in Nat
        /\ coreLedger[<<"treasury", u>>] \in Int /\ coreLedger[<<"recovery", u>>] \in Int
    BY SumFacts DEF MoneyInv
  <2>3. /\ coreWallet[u].pending = OwedSum(u)
        /\ coreWallet[u].available + coreLedger[<<"treasury", u>>] + coreLedger[<<"recovery", u>>]
             = FreedSum(u) + GivenSum(u)
    BY DEF MoneyInv, PendingAdds, AvailableAdds, InHand
  <2>4. /\ coreWallet'[u].pending = coreWallet[u].pending - amount[u]
        /\ coreWallet'[u].available = coreWallet[u].available + amount[u]
        /\ coreLedger'[<<"treasury", u>>] = coreLedger[<<"treasury", u>>]
        /\ coreLedger'[<<"recovery", u>>] = coreLedger[<<"recovery", u>>]
        /\ amount[u] \in Nat
    BY <1>2, <1>3, ReleaseMoves
  <2>5. coreWallet'[u].pending = OwedSum(u)'
    BY <2>1, <2>3, <2>4
  <2>6. InHand(u)' = FreedSum(u)' + GivenSum(u)'
    <3>1. GivenSum(u)' = GivenSum(u)
      BY <1>6
    <3> QED
      BY <2>1, <2>2, <2>3, <2>4, <3>1 DEF InHand
  <2> QED
    BY <2>5, <2>6
<1> QED
  BY <1>5, <1>6, <1>7 DEF MoneyInv, PendingAdds, AvailableAdds

LEMMA SpendMoney ==
  ASSUME BooksInv, MoneyInv, NEW u \in CoreUsers, SpendAvailable(u), UNCHANGED adjustmentVars
  PROVE  MoneyInv'
<1>1. /\ \A v \in CoreUsers :
           /\ coreWallet'[v].pending = coreWallet[v].pending
           /\ coreWallet'[v].available + coreLedger'[<<"treasury", v>>] =
                coreWallet[v].available + coreLedger[<<"treasury", v>>]
           /\ coreLedger'[<<"recovery", v>>] = coreLedger[<<"recovery", v>>]
      /\ UNCHANGED <<conversion, ingest>>
  BY SpendMoves DEF BooksInv, CoreInv
<1>2. /\ \A v : OwedSum(v)' = OwedSum(v)
      /\ \A v : FreedSum(v)' = FreedSum(v)
      /\ \A v : GivenSum(v)' = GivenSum(v)
      /\ PostedRows' /\ NothingIsRejectedFirst'
  BY <1>1 DEF adjustmentVars, OwedSum, FreedSum, GivenSum, GivenTo, Posted, PostedRows, MoneyInv,
              NothingIsRejectedFirst
<1> QED
  BY <1>1, <1>2 DEF MoneyInv, PendingAdds, AvailableAdds, InHand

\* Adjustments leave the conversions' sums alone; what they post is added.
LEMMA AdjustmentMoney ==
  ASSUME BooksInv, MoneyInv, AdjustmentNext
  PROVE  MoneyInv'
<1>1. /\ AdjustmentInv /\ CoreTypeOK /\ PostedRows /\ AdjustmentTypeOK
      /\ \A a \in Posted : adjustment[a] \in AdjustmentRow
  BY DEF BooksInv, CoreInv, MoneyInv, AdjustmentInv, PostedRows, Posted
<1>2. ASSUME UNCHANGED coreVars, UNCHANGED posting,
             \A a \in Adjustments : posting[a] # {} =>
               /\ adjustment'[a] \in AdjustmentRow
               /\ adjustment'[a].user = adjustment[a].user
               /\ adjustment'[a].amount = adjustment[a].amount
      PROVE  MoneyInv'
  <2>1. NothingIsRejectedFirst' /\ PostedRows' /\ Posted' = Posted
    BY <1>2 DEF coreVars, MoneyInv, NothingIsRejectedFirst, PostedRows, Posted
  <2>2. ASSUME NEW u PROVE GivenSum(u)' = GivenSum(u)
    <3>1. PICK f, g, S : f = GivenTo(u) /\ g = GivenTo(u)' /\ S = Posted
      OBVIOUS
    <3>2. \A a \in S : g[a] = f[a]
      BY <1>2, <3>1 DEF Posted, GivenTo
    <3>3. Total(g, S) = Total(f, S)
      BY <1>1, <3>1, <3>2, TotalExtends DEF PostedRows
    <3> QED
      BY <2>1, <3>1, <3>3 DEF GivenSum
  <2>3. /\ \A u : OwedSum(u)' = OwedSum(u) /\ FreedSum(u)' = FreedSum(u) /\ InHand(u)' = InHand(u)
        /\ coreWallet' = coreWallet
    BY <1>2 DEF coreVars, OwedSum, FreedSum, InHand
  <2> QED
    BY <2>1, <2>2, <2>3 DEF MoneyInv, PendingAdds, AvailableAdds
<1>3. ASSUME NEW a \in Adjustments, NEW s \in Staff, NEW u \in CoreUsers,
             NEW amount \in AdjustmentAmounts, DraftAdjustment(a, s, u, amount)
      PROVE  MoneyInv'
  <2>1. adjustment[a] = NoAdjustment /\ UNCHANGED coreVars /\ UNCHANGED posting
    BY <1>3 DEF DraftAdjustment
  <2>2. \A b \in Adjustments : b # a => adjustment'[b] = adjustment[b]
    BY <1>1, <1>3 DEF DraftAdjustment, AdjustmentTypeOK
  <2>3. \A b \in Adjustments : posting[b] # {} => b # a /\ adjustment[b] \in AdjustmentRow
    BY <1>1, <2>1, RowsAreThere DEF PostedRows
  <2> QED
    BY <1>2, <2>1, <2>2, <2>3
<1>4. ASSUME NEW a \in Adjustments, NEW s \in Staff, ReviewRead(a, s)
      PROVE  MoneyInv'
  BY <1>1, <1>2, <1>4 DEF ReviewRead, PostedRows
<1>5. ASSUME NEW a \in Adjustments, NEW s \in Staff, ReviewWrite(a, s)
      PROVE  MoneyInv'
  <2>1. AdjustmentTypeOK'
    BY <1>1, <1>5, ReviewWriteKeeps DEF AdjustmentInv
  <2>2. /\ UNCHANGED coreVars /\ UNCHANGED posting
        /\ adjustment' = [adjustment EXCEPT ![a].status = "REVIEWED", ![a].reviewer = {s}]
    BY <1>5 DEF ReviewWrite
  <2>3. ASSUME NEW b \in Adjustments, posting[b] # {}
        PROVE  /\ adjustment'[b] \in AdjustmentRow
               /\ adjustment'[b].user = adjustment[b].user
               /\ adjustment'[b].amount = adjustment[b].amount
    <3>1. adjustment[b] \in AdjustmentRow
      BY <1>1, <2>3 DEF PostedRows
    <3>2. /\ adjustment'[b].user = adjustment[b].user
          /\ adjustment'[b].amount = adjustment[b].amount
          /\ b # a => adjustment'[b] = adjustment[b]
          /\ b = a => adjustment'[b].status = "REVIEWED"
      BY <1>1, <2>2, <3>1 DEF AdjustmentTypeOK, AdjustmentRow
    <3>3. adjustment'[b] \in AdjustmentRow
      <4>1. CASE b = a
        <5>1. adjustment'[b] \in AdjustmentRow \union {NoAdjustment} /\ adjustment'[b] # NoAdjustment
          BY <2>1, <3>2, <4>1 DEF AdjustmentTypeOK, NoAdjustment
        <5> QED
          BY <5>1
      <4>2. CASE b # a
        BY <3>1, <3>2, <4>2
      <4> QED
        BY <4>1, <4>2
    <3> QED
      BY <3>2, <3>3
  <2> QED
    BY <1>2, <2>2, <2>3
<1>6. ASSUME NEW a \in Adjustments, NEW s \in Staff, PostAdjustment(a, s)
      PROVE  MoneyInv'
  <2>1. PICK x, p : x = adjustment[a].amount /\ p = adjustment[a].user
    OBVIOUS
  <2>2. /\ adjustment[a] \in AdjustmentRow /\ x \in Int
        /\ \A v \in CoreUsers :
             /\ coreWallet'[v].pending = coreWallet[v].pending
             /\ coreWallet'[v].available = coreWallet[v].available + (IF v = p THEN x ELSE 0)
             /\ coreLedger'[<<"treasury", v>>] = coreLedger[<<"treasury", v>>]
             /\ coreLedger'[<<"recovery", v>>] = coreLedger[<<"recovery", v>>]
    BY <1>1, <1>6, <2>1, PostMoves
  <2>3. /\ posting[a] = {} /\ UNCHANGED <<conversion, ingest>>
        /\ posting' = [posting EXCEPT ![a] = Posting(a, s)]
        /\ adjustment' = [adjustment EXCEPT ![a].status = "POSTED", ![a].approver = {s}]
    BY <1>6 DEF PostAdjustment
  <2>4. AdjustmentTypeOK'
    BY <1>1, <1>6, PostKeeps DEF AdjustmentInv
  <2>5. /\ adjustment'[a].user = p /\ adjustment'[a].amount = x
        /\ \A b \in Adjustments : b # a => adjustment'[b] = adjustment[b] /\ posting'[b] = posting[b]
        /\ posting'[a] = Posting(a, s) /\ Posting(a, s) # {} /\ adjustment'[a].status = "POSTED"
    BY <1>1, <2>1, <2>2, <2>3 DEF AdjustmentTypeOK, AdjustmentRow, Posting
  <2>6. Posted' = Posted \union {a} /\ a \notin Posted /\ IsFiniteSet(Posted)
    BY <1>1, <2>3, <2>5 DEF Posted, PostedRows
  <2>7. PostedRows'
    <3>1. IsFiniteSet(Posted)'
      BY <2>6, FS_AddElement
    <3>2. adjustment'[a] \in AdjustmentRow
      <4>1. adjustment'[a] \in AdjustmentRow \union {NoAdjustment} /\ adjustment'[a] # NoAdjustment
        BY <2>4, <2>5 DEF AdjustmentTypeOK, NoAdjustment
      <4> QED
        BY <4>1
    <3> QED
      BY <1>1, <2>5, <3>1, <3>2 DEF PostedRows
  <2>8. NothingIsRejectedFirst'
    BY <2>3 DEF MoneyInv, NothingIsRejectedFirst
  <2>9. ASSUME NEW u \in CoreUsers
        PROVE  GivenSum(u)' = GivenSum(u) + (IF u = p THEN x ELSE 0)
    <3>1. PICK f, g, S : f = GivenTo(u) /\ g = GivenTo(u)' /\ S = Posted
      OBVIOUS
    <3>2. \A b \in S : g[b] = f[b] /\ f[b] \in Int
      <4>1. \A b \in S : f[b] \in Int
        BY <1>1, <3>1, GivenIsInt
      <4>2. \A b \in S : g[b] = f[b]
        BY <2>5, <2>6, <3>1 DEF Posted, GivenTo
      <4> QED
        BY <4>1, <4>2
    <3>3. g[a] = IF u = p THEN x ELSE 0
      BY <2>5, <3>1 DEF GivenTo
    <3>4. g[a] \in Int /\ \A b \in S : g[b] \in Int
      BY <2>2, <3>2, <3>3
    <3>5. Total(g, S) = Total(f, S) /\ IsFiniteSet(S) /\ a \notin S
      BY <2>6, <3>1, <3>2, TotalExtends
    <3>6. Total(g, S \union {a}) = g[a] + Total(g, S)
      BY <3>4, <3>5, TotalAdd
    <3>7. Total(f, S) \in Int
      BY <3>2, <3>5, TotalInt
    <3> QED
      BY <2>6, <3>1, <3>3, <3>4, <3>5, <3>6, <3>7 DEF GivenSum
  <2>10. ASSUME NEW u \in CoreUsers
         PROVE  coreWallet'[u].pending = OwedSum(u)' /\ InHand(u)' = FreedSum(u)' + GivenSum(u)'
    <3>1. OwedSum(u)' = OwedSum(u) /\ FreedSum(u)' = FreedSum(u)
      BY <2>3 DEF OwedSum, FreedSum
    <3>2. /\ OwedSum(u) \in Nat /\ FreedSum(u) \in Nat /\ GivenSum(u) \in Int
          /\ coreWallet[u].pending \in Nat /\ coreWallet[u].available \in Nat
          /\ coreLedger[<<"treasury", u>>] \in Int /\ coreLedger[<<"recovery", u>>] \in Int
      BY SumFacts DEF MoneyInv
    <3>3. /\ coreWallet[u].pending = OwedSum(u)
          /\ coreWallet[u].available + coreLedger[<<"treasury", u>>] + coreLedger[<<"recovery", u>>]
               = FreedSum(u) + GivenSum(u)
      BY DEF MoneyInv, PendingAdds, AvailableAdds, InHand
    <3>4. coreWallet'[u].pending = OwedSum(u)'
      BY <2>2, <3>1, <3>3
    <3>5. InHand(u)' = FreedSum(u)' + GivenSum(u)'
      <4>1. /\ coreWallet'[u].available = coreWallet[u].available + (IF u = p THEN x ELSE 0)
            /\ coreLedger'[<<"treasury", u>>] = coreLedger[<<"treasury", u>>]
            /\ coreLedger'[<<"recovery", u>>] = coreLedger[<<"recovery", u>>]
            /\ GivenSum(u)' = GivenSum(u) + (IF u = p THEN x ELSE 0)
            /\ x \in Int
        BY <2>2, <2>9
      <4>2. CASE u = p
        BY ONLY <3>1, <3>2, <3>3, <4>1, <4>2 DEF InHand
      <4>3. CASE u # p
        BY ONLY <3>1, <3>2, <3>3, <4>1, <4>3 DEF InHand
      <4> QED
        BY <4>2, <4>3
    <3> QED
      BY <3>4, <3>5
  <2> QED
    BY <2>7, <2>8, <2>10 DEF MoneyInv, PendingAdds, AvailableAdds
<1> QED
  BY <1>3, <1>4, <1>5, <1>6 DEF AdjustmentNext

LEMMA MoneyInitInvariant == BooksInit => MoneyInv
<1> SUFFICES ASSUME BooksInit PROVE MoneyInv
  OBVIOUS
<1>1. BooksInv /\ CoreInit /\ AdjustmentInit
  BY BooksInitInvariant DEF BooksInit
<1>2. NoConversion \notin ConversionRow /\ Idle.step = "IDLE"
  BY DEF NoConversion, ConversionRow, Idle
<1>3. \A c \in ConversionIds : conversion[c] \notin ConversionRow
  BY <1>1, <1>2 DEF CoreInit
<1>4. NothingIsRejectedFirst
  BY <1>1, <1>2, <1>3 DEF CoreInit, NothingIsRejectedFirst
<1>5. MadeOf(conversion) = {} /\ Posted = {}
  BY <1>1, <1>3 DEF MadeOf, Posted, AdjustmentInit
<1>6. PostedRows
  BY <1>1, <1>5, FS_EmptySet DEF PostedRows, AdjustmentInit
<1>7. \A u : OwedSum(u) = 0 /\ FreedSum(u) = 0 /\ GivenSum(u) = 0
  BY <1>5, TotalEmpty DEF OwedSum, FreedSum, GivenSum
<1>8. \A u \in CoreUsers : coreWallet[u].pending = 0 /\ InHand(u) = 0
  <2>1. \A u \in CoreUsers : /\ coreLedger[<<"treasury", u>>] = 0
                             /\ coreLedger[<<"recovery", u>>] = 0
    <3>1. coreLedger = [a \in CoreAccounts |-> 0]
      BY <1>1 DEF CoreInit, CoreAccounts
    <3> QED
      BY <3>1, AccountsDiffer
  <2>2. \A u \in CoreUsers : coreWallet[u].pending = 0 /\ coreWallet[u].available = 0
    <3>1. coreWallet = [u \in CoreUsers |-> [pending |-> 0, available |-> 0]]
      BY <1>1 DEF CoreInit
    <3> QED
      BY <3>1
  <2>3. ASSUME NEW u \in CoreUsers PROVE InHand(u) = 0
    <3>1. InHand(u) = 0 + 0 + 0
      BY <2>1, <2>2, Zenon DEF InHand
    <3> QED
      BY <3>1
  <2> QED
    BY <2>2, <2>3
<1> QED
  BY <1>4, <1>6, <1>7, <1>8 DEF MoneyInv, PendingAdds, AvailableAdds

LEMMA CoreMoney ==
  ASSUME ~RejectedFirst, BooksInv, MoneyInv, CoreNext, UNCHANGED adjustmentVars
  PROVE  MoneyInv'
<1>1. CoreInv
  BY DEF BooksInv
<1>2. ASSUME UNCHANGED <<conversion, coreWallet, coreLedger, ingest>> PROVE MoneyInv'
  BY <1>2, NothingMoves DEF MoneyInv, NothingIsRejectedFirst
<1>3. ASSUME IngestNext PROVE MoneyInv'
  <2>1. ASSUME NEW o \in CoreOrders, NEW s \in CoreSources, NEW report \in Reports,
               IngestKnown(o, s, report) \/ IngestValidation(o, s, report)
        PROVE  MoneyInv'
    <3>1. PICK c \in identity[<<o, s>>] : Revise(c, report, Authority[s], FALSE)
      BY <2>1 DEF IngestKnown, IngestValidation
    <3>2. c \in ConversionIds /\ conversion[c] \in ConversionRow /\ Authority[s] \in 1..3
      BY <1>1, <3>1, KnownFacts, WeightFacts
    <3>3. NoNewCalls
      BY <2>1 DEF IngestKnown, IngestValidation, NoNewCalls
    <3> QED
      BY <3>1, <3>2, <3>3, ReviseMoney
  <2>2. ASSUME NEW w \in Ingesters, NEW o \in CoreOrders, NEW s \in CoreSources,
               NEW report \in Reports, IngestRead(w, o, s, report)
        PROVE  MoneyInv'
    <3>1. PICK call : /\ ingest' = [ingest EXCEPT ![w] = call]
                      /\ call.step = "NEW" => call.report.status # "rejected"
      <4>1. CASE /\ report.status # "rejected"
                 /\ ingest' = [ingest EXCEPT ![w] =
                      [step |-> "NEW", order |-> o, source |-> s, report |-> report]]
        <5> DEFINE call == [step |-> "NEW", order |-> o, source |-> s, report |-> report]
        <5>1. call.report.status # "rejected"
          BY <4>1
        <5> QED
          BY <4>1, <5>1
      <4>2. CASE \E c \in KnownAs(o) :
                   ingest' = [ingest EXCEPT ![w] =
                     [step |-> "SAME", order |-> o, source |-> s, report |-> report, of |-> c,
                      authority |-> conversion[c].authority, net |-> conversion[c].net,
                      status |-> conversion[c].status]]
        <5>1. PICK c \in KnownAs(o) :
                ingest' = [ingest EXCEPT ![w] =
                  [step |-> "SAME", order |-> o, source |-> s, report |-> report, of |-> c,
                   authority |-> conversion[c].authority, net |-> conversion[c].net,
                   status |-> conversion[c].status]]
          BY <4>2
        <5> DEFINE call == [step |-> "SAME", order |-> o, source |-> s, report |-> report,
                            of |-> c, authority |-> conversion[c].authority,
                            net |-> conversion[c].net, status |-> conversion[c].status]
        <5>2. call.step # "NEW"
          OBVIOUS
        <5> QED
          BY <5>1, <5>2
      <4> QED
        BY <2>2, <4>1, <4>2 DEF IngestRead
    <3>2. \A x \in Ingesters : ingest'[x] = IF x = w THEN call ELSE ingest[x]
      BY <1>1, <3>1 DEF CoreInv, CoreTypeOK
    <3>3. \A x \in Ingesters :
            ingest'[x].step = "NEW" => ingest'[x].report.status # "rejected"
      BY <3>1, <3>2 DEF MoneyInv, NothingIsRejectedFirst
    <3>4. UNCHANGED <<conversion, coreWallet, coreLedger>>
      BY <2>2 DEF IngestRead
    <3> QED
      BY <3>3, <3>4, NothingMoves
  <2>3. ASSUME NEW w \in Ingesters, IngestRefused(w) PROVE MoneyInv'
    <3>1. /\ ingest' = [ingest EXCEPT ![w] = Idle]
          /\ UNCHANGED <<conversion, coreWallet, coreLedger>>
      BY <2>3 DEF IngestRefused
    <3>2. \A x \in Ingesters :
            ingest'[x].step = "NEW" => ingest'[x] = ingest[x] /\ ingest[x].step = "NEW"
      BY <1>1, <3>1, CallOver
    <3>3. \A x \in Ingesters :
            ingest'[x].step = "NEW" => ingest'[x].report.status # "rejected"
      BY <3>2 DEF MoneyInv, NothingIsRejectedFirst
    <3> QED
      BY <3>1, <3>3, NothingMoves
  <2>4. ASSUME NEW w \in Ingesters, IngestMerge(w) PROVE MoneyInv'
    <3>1. PICK c, i : c = ingest[w].of /\ i = <<ingest[w].order, ingest[w].source>>
      OBVIOUS
    <3>2. /\ c \in ConversionIds /\ conversion[c] \in ConversionRow
          /\ ingest' = [ingest EXCEPT ![w] = Idle]
          /\ \/ \E report \in Reports, weight \in 1..3, reviewed \in BOOLEAN :
                  Revise(c, report, weight, reviewed)
             \/ UNCHANGED <<conversion, coreWallet, coreLedger>>
      BY <1>1, <2>4, <3>1, MergeFacts
    <3>3. NoNewCalls
      BY <1>1, <3>2, CallOver DEF NoNewCalls
    <3>4. \A x \in Ingesters :
            ingest'[x].step = "NEW" => ingest'[x].report.status # "rejected"
      BY <3>3 DEF NoNewCalls, MoneyInv, NothingIsRejectedFirst
    <3> QED
      BY <3>2, <3>3, <3>4, ReviseMoney, NothingMoves
  <2> QED
    BY <1>3, <2>1, <2>2, <2>3, <2>4, CreateMoney DEF IngestNext
<1>4. ASSUME HoldJobNext PROVE MoneyInv'
  <2>1. ASSUME NEW c \in ConversionIds, NEW healthy \in BOOLEAN, HoldJobRead(c, healthy)
        PROVE  MoneyInv'
    BY <1>2, <2>1 DEF HoldJobRead
  <2>2. ASSUME NEW c \in ConversionIds, HoldJobReview(c) \/ HoldJobValidate(c)
        PROVE  MoneyInv'
    <3>1. /\ conversion[c] \in ConversionRow
          /\ UNCHANGED <<ingest, coreWallet, coreLedger>>
          /\ \/ UNCHANGED conversion
             \/ \E row \in ConversionRow :
                  /\ conversion' = [conversion EXCEPT ![c] = row]
                  /\ row.availableOn = conversion[c].availableOn
                  /\ row.cashback = conversion[c].cashback
                  /\ row.status \in {conversion[c].status, "VALIDATED"}
      BY <1>1, <2>2, JobWrites
    <3> QED
      BY <1>2, <3>1, UnpaidMoney
  <2> QED
    BY <1>4, <2>1, <2>2 DEF HoldJobNext
<1>5. ASSUME NEW c \in ConversionIds, ResolveCase(c) PROVE MoneyInv'
  <2>1. /\ conversion[c] \in ConversionRow
        /\ UNCHANGED <<ingest, coreWallet, coreLedger>>
        /\ \E row \in ConversionRow :
             /\ conversion' = [conversion EXCEPT ![c] = row]
             /\ row.availableOn = conversion[c].availableOn
             /\ row.cashback = conversion[c].cashback
             /\ row.status \in {conversion[c].status, "VALIDATED"}
    BY <1>1, <1>5, ResolveFacts
  <2> QED
    BY <2>1, UnpaidMoney
<1>6. ASSUME NextDay PROVE MoneyInv'
  BY <1>2, <1>6 DEF NextDay
<1> QED
  BY <1>3, <1>4, <1>5, <1>6, SettleMoney, SpendMoney DEF CoreNext

LEMMA MoneyStepInvariant ==
  ASSUME ~RejectedFirst
  PROVE  BooksInv /\ MoneyInv /\ [BooksNext]_booksVars => MoneyInv'
<1> SUFFICES ASSUME BooksInv, MoneyInv, [BooksNext]_booksVars PROVE MoneyInv'
  OBVIOUS
<1>1. ASSUME UNCHANGED booksVars PROVE MoneyInv'
  BY <1>1, NothingMoves DEF booksVars, coreVars, MoneyInv, NothingIsRejectedFirst
<1> QED
  BY <1>1, CoreMoney, AdjustmentMoney DEF BooksNext

\* Where no order is first reported when already rejected, the pending column of
\* a wallet is the cashback of its user's conversions that are neither rejected
\* nor settled: reports, merges, the hold job and settlements may come in any
\* order, and a correction of what is pending never leaves a debt
\* (conversions/service.ts:440-560, settlement/service.ts, ledger/service.ts).
THEOREM PendingIsWhatIsOwed ==
  ASSUME ~RejectedFirst
  PROVE  BooksSpec => []PendingIsOwed
<1>1. BooksInv /\ MoneyInv => PendingIsOwed
  BY OwedIsTotal DEF BooksInv, CoreInv, MoneyInv, PendingAdds, PendingIsOwed, OwedSum
<1>2. BooksInit => BooksInv /\ MoneyInv
  BY BooksInitInvariant, MoneyInitInvariant
<1>3. BooksInv /\ MoneyInv /\ [BooksNext]_booksVars => BooksInv' /\ MoneyInv'
  BY BooksStepInvariant, MoneyStepInvariant
<1> QED
  BY <1>1, <1>2, <1>3, PTL DEF BooksSpec

\* And what was ever settled or adjusted to a user is in the available column,
\* went to the treasury, or was taken back and at most owed since: a conversion
\* is released once and an adjustment posted once, even where a late review puts
\* a posted adjustment back to REVIEWED (adjustments.ts:54-140).
THEOREM AvailableIsSettledOrAdjusted ==
  ASSUME ~RejectedFirst
  PROVE  BooksSpec => []AvailableIsAccountedFor
<1>1. BooksInv /\ MoneyInv => AvailableIsAccountedFor
  BY OwedIsTotal, AdjustedIsTotal
  DEF BooksInv, CoreInv, MoneyInv, AvailableAdds, AvailableIsAccountedFor, InHand, FreedSum
<1>2. BooksInit => BooksInv /\ MoneyInv
  BY BooksInitInvariant, MoneyInitInvariant
<1>3. BooksInv /\ MoneyInv /\ [BooksNext]_booksVars => BooksInv' /\ MoneyInv'
  BY BooksStepInvariant, MoneyStepInvariant
<1> QED
  BY <1>1, <1>2, <1>3, PTL DEF BooksSpec
=============================================================================
