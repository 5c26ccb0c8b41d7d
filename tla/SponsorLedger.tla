----------------------------- MODULE SponsorLedger -----------------------------
(***************************************************************************)
(* The money of an event besides its flats: contributions of sponsors,     *)
(* their return, and expenses.  Clerks of the committee enter them through *)
(* sessions that read and check first and commit later.  The payments and  *)
(* refunds of flats, whose own races are the subject of EventPayments,     *)
(* are entered here in one step, for the reports read both.                *)
(***************************************************************************)
EXTENDS SocietyRules, SocietyReports

CONSTANTS
  NumEvents,  \* the events of the society, numbered by date
  Clerks,     \* sessions of committee members
  ClerkRole,  \* ClerkRole[c]: the role of the member behind c
  Accounts,   \* Accounts[f]: the account flat f starts an event with
  Amounts,    \* amounts of expenses, payments and refunds: refused unless positive
  SponsorAmounts,  \* amounts of contributions and their returns: any integer is taken
  Largest,    \* no column holds an amount beyond this one, either way
  Stages,     \* states the events may be in meanwhile
  MaxEntries  \* bound: entries in a behaviour

ASSUME LedgerAssumption ==
  /\ ClerkRole \in [Clerks -> Roles]
  /\ Stages \subseteq EventStates
  /\ IsFiniteSet(Clerks)
  /\ Amounts \subseteq Nat \ {0}
  /\ Largest \in Nat
  /\ SponsorAmounts \subseteq (-Largest)..Largest
  /\ 0 \in SponsorAmounts
  /\ IsFiniteSet(DOMAIN Accounts)
  /\ Accounts \in [DOMAIN Accounts ->
                   [due : Nat, joined : BOOLEAN, paid : {0}, refunds : {<<>>}]]
  /\ NumEvents \in Nat \ {0}
  /\ MaxEntries \in Nat

VARIABLES
  stage,   \* stage[e]: the state of event e
  books,   \* books[e]: the committed rows of event e
  bench,   \* bench[c]: what clerk c's session has checked and not committed
  cash,    \* cash[e]: money that changed hands for event e
  rushed,  \* gifts of which two clerks returned some at the same time
  entries  \* entries so far

ledgerVars == <<stage, books, bench, cash, rushed, entries>>

Flatlist == DOMAIN Accounts

EmptyBench == [kind |-> "none", event |-> 1, gift |-> 0, amount |-> 0]

EventIds == 1..NumEvents

LedgerInit ==
  /\ stage \in [EventIds -> Stages]
  /\ books = [e \in EventIds |-> [flats |-> Accounts, gifts |-> <<>>, spent |-> <<>>]]
  /\ bench = [c \in Clerks |-> EmptyBench]
  /\ cash = [e \in EventIds |-> 0]
  /\ rushed = {}
  /\ entries = 0

(* A clerk starts on an entry; the reason is the one given for an override. *)
Entry(c, e, action, reasonGiven) ==
  /\ bench[c] = EmptyBench
  /\ entries < MaxEntries
  /\ entries' = entries + 1
  /\ MayProceed(stage[e], action, ClerkRole[c], reasonGiven)

(***************************************************************************)
(* A contribution is given the next code of its event, counted before the  *)
(* insert; a code taken meanwhile makes the insert fail.  Whatever number  *)
(* is typed is stored, negative ones too; 0 is one in kind.                *)
(***************************************************************************)
ReadGift(c, e, amount, reasonGiven) ==
  /\ Entry(c, e, "ADD_CONTRIBUTION", reasonGiven)
  /\ bench' = [bench EXCEPT ![c] =
                 [kind |-> "gift", event |-> e, gift |-> Len(books[e].gifts) + 1, amount |-> amount]]
  /\ UNCHANGED <<stage, books, cash, rushed>>

CommitGift(c) ==
  LET b == bench[c] IN
  /\ b.kind = "gift"
  /\ b.gift = Len(books[b.event].gifts) + 1
  /\ books' = [books EXCEPT ![b.event].gifts = Append(@, [amount |-> b.amount, returned |-> <<>>])]
  /\ cash' = [cash EXCEPT ![b.event] = @ + b.amount]
  /\ bench' = [bench EXCEPT ![c] = EmptyBench]
  /\ UNCHANGED <<stage, rushed, entries>>

GiftRefused(c) ==
  LET b == bench[c] IN
  /\ b.kind = "gift"
  /\ b.gift # Len(books[b.event].gifts) + 1
  /\ bench' = [bench EXCEPT ![c] = EmptyBench]
  /\ UNCHANGED <<stage, books, cash, rushed, entries>>

(* Variant: each return is held against the whole contribution. *)
ReturnableAlone(gift, amount) == gift.amount # 0 /\ amount <= gift.amount

(* Not in kind, and no more than what is left of it.  There is no lower    *)
(* bound: a negative return passes, and leaves more for the next.          *)
Returnable(gift, amount) == gift.amount # 0 /\ Total(gift.returned) + amount <= gift.amount

OthersReturning(c, e, i) ==
  \E d \in Clerks \ {c} : bench[d].kind = "return" /\ bench[d].event = e /\ bench[d].gift = i

CheckReturn(c, e, i, amount, reasonGiven) ==
  /\ i \in DOMAIN books[e].gifts
  /\ Returnable(books[e].gifts[i], amount)
  /\ Entry(c, e, "REFUND_CONTRIBUTION", reasonGiven)
  /\ bench' = [bench EXCEPT ![c] = [kind |-> "return", event |-> e, gift |-> i, amount |-> amount]]
  /\ rushed' = IF OthersReturning(c, e, i) THEN rushed \cup {<<e, i>>} ELSE rushed
  /\ UNCHANGED <<stage, books, cash>>

CommitReturn(c) ==
  LET b == bench[c] IN
  /\ b.kind = "return"
  /\ books' = [books EXCEPT ![b.event].gifts[b.gift].returned = Append(@, b.amount)]
  /\ cash' = [cash EXCEPT ![b.event] = @ - b.amount]
  /\ bench' = [bench EXCEPT ![c] = EmptyBench]
  /\ UNCHANGED <<stage, rushed, entries>>

(* A clerk's process ends before the commit.                               *)
LoseSession(c) ==
  /\ bench[c] # EmptyBench
  /\ bench' = [bench EXCEPT ![c] = EmptyBench]
  /\ UNCHANGED <<stage, books, cash, rushed, entries>>

(* An expense reads nothing it depends on: one row, one commit.            *)
AddExpense(c, e, d, amount, reasonGiven) ==
  /\ Entry(c, e, "ADD_EXPENSE", reasonGiven)
  /\ books' = [books EXCEPT ![e].spent = Append(@, [for |-> d, amount |-> amount])]
  /\ cash' = [cash EXCEPT ![e] = @ - amount]
  /\ UNCHANGED <<stage, bench, rushed>>

(* record_payment and process_refund, for a flat that takes part.          *)
PayFlat(c, e, f, amount, reasonGiven) ==
  /\ ClerkRole[c] \in ROLE_ACTIONS.PAY
  /\ books[e].flats[f].joined
  /\ Entry(c, e, "MARK_PAID", reasonGiven)
  /\ books' = [books EXCEPT ![e].flats[f].paid = @ + amount]
  /\ cash' = [cash EXCEPT ![e] = @ + amount]
  /\ UNCHANGED <<stage, bench, rushed>>

RefundFlat(c, e, f, amount, reasonGiven) ==
  /\ ClerkRole[c] \in ROLE_ACTIONS.REFUND
  /\ Total(books[e].flats[f].refunds) + amount <= books[e].flats[f].paid
  /\ Entry(c, e, "REQUEST_REFUND", reasonGiven)
  /\ books' = [books EXCEPT ![e].flats[f].refunds = Append(@, amount)]
  /\ cash' = [cash EXCEPT ![e] = @ - amount]
  /\ UNCHANGED <<stage, bench, rushed>>

Clerk(c) ==
  \/ \E e \in EventIds, a \in SponsorAmounts, r \in BOOLEAN :
       \/ ReadGift(c, e, a, r)
       \/ \E i \in 1..MaxEntries : CheckReturn(c, e, i, a, r)
  \/ \E e \in EventIds, a \in Amounts, r \in BOOLEAN :
       \/ \E d \in DOMAIN TitleOf : AddExpense(c, e, d, a, r)
       \/ \E f \in Flatlist : PayFlat(c, e, f, a, r) \/ RefundFlat(c, e, f, a, r)
  \/ CommitGift(c) \/ GiftRefused(c) \/ CommitReturn(c) \/ LoseSession(c)

LedgerNext == \E c \in Clerks : Clerk(c)

-------------------------------------------------------------------------------
(* Types of the entries in hand and of the rows (event_contributions,      *)
(* contribution_refunds, event_expenses).                                  *)
LedgerTypeOK ==
  /\ stage \in [EventIds -> Stages]
  /\ \A e \in EventIds :
       /\ \A i \in DOMAIN books[e].gifts : books[e].gifts[i].amount \in SponsorAmounts
       /\ \A i \in DOMAIN books[e].spent : books[e].spent[i].for \in DOMAIN TitleOf
       /\ cash[e] \in Int
  /\ \A c \in Clerks : bench[c].kind \in {"none", "gift", "return"} /\ bench[c].event \in EventIds
  /\ rushed \subseteq EventIds \X (1..MaxEntries)
  /\ entries \in 0..MaxEntries

NotOverReturned(gift) == gift.returned # <<>> => Total(gift.returned) <= gift.amount

(* Each session but the last to check may return what it has checked on    *)
(* top of what the last one found left.                                    *)
OverReturnBounded(gift) ==
  gift.amount > 0 =>
    Total(gift.returned) <= gift.amount + (Cardinality(Clerks) - 1) * Largest

(* What came in kind is never returned in money.  Once some of another     *)
(* contribution is returned, the returns never come to more than was       *)
(* given, negative amounts on either side included, unless two clerks      *)
(* returned some of it at the same time; and then by no more than one      *)
(* return for every further clerk (contribution_refund_service sums the    *)
(* refunds without a lock and tests the sum from above only).              *)
GiftsNotOverReturned ==
  \A e \in EventIds : \A i \in DOMAIN books[e].gifts :
    LET gift == books[e].gifts[i] IN
    /\ gift.amount = 0 => gift.returned = <<>>
    /\ <<e, i>> \notin rushed => NotOverReturned(gift)
    /\ OverReturnBounded(gift)

(***************************************************************************)
(* The reports agree with the money that changed hands and, up to what     *)
(* each leaves out, with one another: the ledger closes with the cash, the *)
(* summaries lie above it by what sponsors got back, the continuity rows   *)
(* chain them, blocks add up to flats, and the committee is told that a    *)
(* flat owes exactly when its member is (app/modules/reports).             *)
(***************************************************************************)
ClosingsAgree ==
  \A e \in EventIds :
    LET b == books[e] IN
    /\ LedgerClosing(b) = cash[e]
    /\ FinancialSummaryClosing(b) = cash[e] + ContributionRefunds(b)
    /\ EventSummaryClosing(b) = FinancialSummaryClosing(b)
    /\ PublicSummary(b).closing = FinancialSummaryClosing(b)
    /\ PublicSummary(b).income - PublicSummary(b).expenses = LedgerServiceClosing(b, 0)
    /\ PeriodLedgerClosing(b) = LedgerClosing(b) + ContributionRefunds(b)
    /\ SponsorContributions(b).total_cash = Total(SponsorWise(b))

ChainAgrees ==
  LET rows == ContinuityRows([e \in EventIds |-> books[e]]) IN
  \A e \in EventIds :
    rows[e].closing - rows[e].opening = FinancialSummaryClosing(books[e])

FlatsAgree ==
  \A e \in EventIds :
    LET b == books[e]
        Blocks == {BlockOf[f] : f \in Flatlist}
    IN
    /\ Total([k \in Blocks |-> BlockContribution(b, k)]) = Sums(b).paid
    /\ \A k \in Blocks : BlockWise(b, k) = BlockPaymentRow(b, k).paid
    /\ \A f \in Flatlist :
         /\ Len(b.flats[f].refunds) <= 1 => FlatPaymentRow(b, f).paid = b.flats[f].paid
         /\ f \in PendingFlats(b) <=> b.flats[f].joined /\ MyBalance(b, f) > 0
         /\ ReminderAmount(b, f) > 0 <=> f \in PendingFlats(b)
         /\ f \in PendingFlats(b) => f \in PendingPayments(b)
         /\ MyPaymentStatus(b, f) = "paid" => f \notin PendingPayments(b)
         /\ NetPaid(b, f) >= 0
         /\ f \in PendingFlats(b) => f \in Participation(b).participating
    /\ \A d \in DOMAIN TitleOf : \A shown \in ExpenseShown(b, TitleOf[d]) : shown <= Sums(b).spent

ReportsReconcile == ClosingsAgree /\ ChainAgrees /\ FlatsAgree
===============================================================================
