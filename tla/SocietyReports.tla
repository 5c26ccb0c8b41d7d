---------------------------- MODULE SocietyReports ----------------------------
(***************************************************************************)
(* What the reports compute from the rows of one event.  A book is         *)
(*   flats : account of every flat: due (the amount of its pass, also the  *)
(*           expected amount of its payment row), joined (it takes part),  *)
(*           paid, and the amounts of its refund rows;                     *)
(*   gifts : the contribution rows in the order of their codes, each with  *)
(*           its amount (0: in kind; negative ones are stored too) and     *)
(*           the amounts returned of it;                                   *)
(*   spent : the expense rows, each for a description.                     *)
(* Every report queries the tables by itself, so each is translated by     *)
(* itself, even where two of them come to the same number.                 *)
(***************************************************************************)
EXTENDS Integers, Sequences, FiniteSets, Functions, FiniteSetsExt

CONSTANTS
  BlockOf,  \* BlockOf[f]: the block of flat f
  TitleOf   \* TitleOf[d]: description d, stripped and in title case

Total(amounts) == SumFunction(amounts)

Sums(book) ==
  [paid     |-> Total([f \in DOMAIN book.flats |-> book.flats[f].paid]),
   refunded |-> Total([f \in DOMAIN book.flats |-> Total(book.flats[f].refunds)]),
   given    |-> Total([i \in DOMAIN book.gifts |-> book.gifts[i].amount]),
   returned |-> Total([i \in DOMAIN book.gifts |-> Total(book.gifts[i].returned)]),
   spent    |-> Total([i \in DOMAIN book.spent |-> book.spent[i].amount])]

(***************************************************************************)
(* The closing balance of an event, six times over.  The opening balance   *)
(* comes from society_balance rows, which only LedgerService writes and    *)
(* nothing calls it: it is 0.                                              *)
(***************************************************************************)
(* Variant: sponsor refunds are listed but not counted. *)
LedgerClosingListed(book) ==
  LET s == Sums(book) IN s.paid + s.given - s.refunded - s.spent

LedgerClosing(book) ==
  LET s == Sums(book) IN s.paid + s.given - s.refunded - s.returned - s.spent

(* With a period: refunds to sponsors have no processed_at, so no period   *)
(* takes them in.  All else is taken to lie within the period.             *)
PeriodLedgerClosing(book) ==
  LET s == Sums(book) IN s.paid + s.given - s.refunded - s.spent

FinancialSummaryClosing(book) ==
  LET s == Sums(book) IN s.paid + s.given - s.spent - s.refunded

EventSummaryClosing(book) ==
  LET s == Sums(book) IN 0 + s.paid + s.given - s.spent - s.refunded

LedgerServiceClosing(book, opening) ==
  LET s == Sums(book) IN opening + s.paid + s.given - s.spent - s.refunded

PublicSummary(book) ==
  LET s == Sums(book) IN
  [participants |-> Cardinality({f \in DOMAIN book.flats : book.flats[f].joined}),
   income |-> s.paid + s.given,
   expenses |-> s.spent + s.refunded,
   closing |-> s.paid + s.given - s.spent - s.refunded]

(* books: of the events of the society by date; each opens with what the   *)
(* one before closed with.                                                 *)
ContinuityRows(books) ==
  LET closing[n \in 0..Len(books)] ==
        IF n = 0 THEN 0
        ELSE LET s == Sums(books[n]) IN
             closing[n - 1] + s.paid + s.given - s.spent - s.refunded
  IN  [n \in DOMAIN books |-> [opening |-> closing[n - 1], closing |-> closing[n]]]

(***************************************************************************)
(* Flat by flat, block by block.  The flat report joins payment rows with  *)
(* refund rows before it sums, so a payment counts once per refund.        *)
(***************************************************************************)
FlatPaymentRow(book, f) ==
  LET a == book.flats[f]
      paid == a.paid * Max({1, Len(a.refunds)})
  IN  [paid |-> paid, refunded |-> Total(a.refunds),
       pending |-> a.due - (paid - Total(a.refunds))]

FlatsOf(book, block) == {f \in DOMAIN book.flats : BlockOf[f] = block}

BlockPaymentRow(book, block) ==
  LET expected == SumFunctionOnSet([f \in DOMAIN book.flats |-> book.flats[f].due], FlatsOf(book, block))
      paid == SumFunctionOnSet([f \in DOMAIN book.flats |-> book.flats[f].paid], FlatsOf(book, block))
  IN  [expected |-> expected, paid |-> paid, pending |-> expected - paid]

BlockContribution(book, block) == MapThenSumSet(LAMBDA f : book.flats[f].paid, FlatsOf(book, block))

BlockWise(book, block) ==
  SumFunctionOnSet([f \in DOMAIN book.flats |-> book.flats[f].paid], FlatsOf(book, block))

(***************************************************************************)
(* Who still owes.  A refund lowers what these say a flat owes.            *)
(***************************************************************************)
Remaining(book, f) == book.flats[f].due - book.flats[f].paid - Total(book.flats[f].refunds)

(* PendingPaymentReport, behind the committee's pending list.              *)
PendingFlats(book) ==
  {f \in DOMAIN book.flats : /\ book.flats[f].joined
                             /\ book.flats[f].due > 0
                             /\ Remaining(book, f) > 0}

(* Variant: the member's balance adds refunds back, as the flat report does. *)
MyBalanceAddsRefunds(book, f) ==
  Max({0, book.flats[f].due - book.flats[f].paid + Total(book.flats[f].refunds)})

(* UserQueryService.get_my_balance.                                        *)
MyBalance(book, f) == Max({0, Remaining(book, f)})

NetPaid(book, f) == book.flats[f].paid - Total(book.flats[f].refunds)

(* The payment reminder of the committee names the flat and this amount.   *)
ReminderAmount(book, f) == IF book.flats[f].joined THEN Max({0, Remaining(book, f)}) ELSE 0

(* PendingPaymentsReport, behind the exported list: refunds do not count.  *)
PendingPayments(book) == {f \in DOMAIN book.flats : book.flats[f].due > book.flats[f].paid}

MyPaymentStatus(book, f) ==
  LET a == book.flats[f] IN
  IF a.due <= a.paid /\ a.paid > 0 THEN "paid"
  ELSE IF a.paid > 0 THEN "partial" ELSE "pending"

MemberRefundRows(book) == [f \in DOMAIN book.flats |-> book.flats[f].refunds]

Participation(book) ==
  LET in == {f \in DOMAIN book.flats : book.flats[f].joined}
  IN  [participating |-> in, not_participating |-> DOMAIN book.flats \ in]

(***************************************************************************)
(* Sponsors and expenses.                                                  *)
(***************************************************************************)
SponsorContributions(book) ==
  [rows |-> book.gifts, total_cash |-> Total([i \in DOMAIN book.gifts |-> book.gifts[i].amount])]

ContributionRefunds(book) == Total([i \in DOMAIN book.gifts |-> Total(book.gifts[i].returned)])

SponsorTypes(book) ==
  [i \in DOMAIN book.gifts |-> IF book.gifts[i].amount > 0 THEN "cash" ELSE "in_kind"]

SponsorWise(book) == [i \in DOMAIN book.gifts |-> book.gifts[i].amount]

SpentOn(book, d) ==
  MapThenSumSet(LAMBDA i : book.spent[i].amount, {i \in DOMAIN book.spent : book.spent[i].for = d})

(* One line per title: of two descriptions with the same title, whichever  *)
(* the database returns last stands for both.  The set of what may show.   *)
ExpenseShown(book, title) ==
  {SpentOn(book, d) : d \in {book.spent[i].for : i \in {j \in DOMAIN book.spent :
                                                          TitleOf[book.spent[j].for] = title}}}
===============================================================================
