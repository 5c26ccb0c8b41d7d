# Verification of the society event agent

The agent runs the events of a housing society over WhatsApp and Telegram:
residents book food passes, pay and ask for refunds; a committee creates and
moves events, approves requests, serves food and sends announcements. Every
inbound message is handled by its own thread on its own SQLAlchemy session
against PostgreSQL; background jobs run beside them on sessions of their own.

This directory holds TLA+ modules of the parts where sessions meet on the same
rows, of what a process keeps in memory between messages, and of what the
reports say about the rows; TLC configurations that check them on small
instances; and TLAPS proofs for every size. Paths below are relative to the root
of the repository, `app/` being where the program is.

## What makes this code hard

- **Isolation.** The engine is created without an isolation level, so
  PostgreSQL runs READ COMMITTED: two SELECTs of a handler see two states of
  the database. `SessionLocal` has `autoflush=False` (`app/db/session.py:94`).
- **Copies.** A loaded row is a mapped object that the session keeps. A commit
  issues UPDATE for the columns whose value differs from the *loaded* one and
  for no other: stale sums overwrite newer ones, and a column set to the value
  it was loaded with is not written at all.
- **Locks.** Three places lock rows: `process_refund` the payment row and, once
  it holds that, the flat's refunds (`refund_service.py:169-192`),
  `generate_tokens` the event row (`food_collection_service.py:266-269`), and
  the delivery worker the recipients it claims (`delivery_worker.py:358`,
  skipping locked ones). Updates of a locked row wait; inserts that reference a
  locked event wait.
- **Failure.** An exception, a failed commit and a killed process have the same
  effect: what is not committed is lost, locks fall, earlier commits of the
  same handler stay.
- **Memory.** Dialogues, the steps of guided questions, the retry queue and the
  background tasks live in the process: a restart forgets them, and two threads
  of one sender read and write them without a lock.

So an *action* of the modules is one read, one lock or one commit of one
session, or one access to what is kept in memory; any other session may run in
between, and any session may abort.

## Inventory

| Component | State it keeps | Operations | What is hard, what makes it correct |
|---|---|---|---|
| Workflow rules and engine (`workflows/`, `permissions/roles.py`) | none | `check_action`, `apply_override` | its decision is used after the state may have moved |
| Event lifecycle (`modules/events/service.py`, auto-close in `modules/reminders/reminder_scheduler.py`) | `events.status`, `workflow_state.current_state` | create, activate, lock, start, close, auto-close | state kept twice, written from copies of different age; order of states, agreement of the rows, overdue events get closed |
| Food passes (`food_pass_service.py`) | `event_food_passes`, `payments.expected_amount` | `add_or_update_pass` | two first bookings at once; two rows written from two reads |
| Payments (`modules/payments/payment*_service.py`) | `payments`, `payment_requests` | request, approve, record | lost updates; approval in two transactions |
| Refunds (`modules/payments/refund*_service.py`) | `refunds`, `refund_requests` | request, approve, process | sum then insert; never return more than came in |
| Food collection (`food_collection_service.py`) | tokens, counter row, audit rows | generate, open, auto-close, serve by code, serve by flat | two counters serving one flat; one plate, one record |
| Announcement delivery (`modules/announcements/`) | announcements, delivery rows, RQ jobs | queue, claim, send, record, retry | claim and crash against a provider; a message sent twice, recorded wrongly or never sent |
| Webhooks (`api/whatsapp/webhook.py`, `api/telegram.py`, `channels/core/webhook_runtime.py`) | rate counters, envelopes, idempotency keys, dead letters, retry heap in memory | receive, claim, handle, reply, settle | redelivery in parallel, key committed before the work is done, restarts |
| Chat handlers and menu sessions (`channels/`, `handlers/shared/`) | five dictionaries of dialogues in memory | ask, answer, cancel, hand an intent to a service | an answer taken by another dialogue, served twice or without all its parts; overlapping messages of one sender |
| Committee members (`modules/committee/`) | `committee_members`, the roster menu's session | list, add, remove, change role | at least one chairman with two removals at once; a "yes" that acts on what an older list has set |
| Onboarding (`modules/onboarding/`, `modules/users/user_flat_service.py`) | identities, join requests, flat mappings | JOIN, JOIN_STATUS, list, approve | approval in two transactions, overlapping workers: one home each, standing that never falls |
| Contributions, expenses, ledger (`modules/contributions/`, `expenses/`, `ledger/`) | contributions, refunds of them, expenses | add, return, spend, balances | codes by counting; returns summed without a lock and tested from above only, whatever their sign |
| Reports and exports (`modules/reports/`, `api/reports/`, `channels/whatsapp/report_flow.py`) | audit rows of accesses | compute, check role, log, hand over | each report has queries of its own and must agree with the money and with the others; no document without a log row |
| Scheduler and reminders (`modules/scheduler/`, `modules/reminders/`) | task rows, reminder rows, a leader lock | run tasks, remind once | which process runs a task, a reminder repeated |
| Channel identity (`modules/users/channel_identity_service.py`) | link codes, phone challenges | link, challenge, verify | attempt limits under concurrent guesses |
| Clients and translations | none | text in and out | no state another component decides by |

The parts interact through rows of the database and direct calls. A webhook's
background task claims a message and gives it to the menus, which either ask the
next question or give an intent to a chat handler; the handler loads the member
and the latest event, gates the intent by `event.status` and calls one service;
the service asks the workflow engine, which decides by
`workflow_state.current_state`, and commits. Jobs of the scheduler and of RQ
call services the same way. The committee's rows decide who may approve a
newcomer and who may read a report. `PROJECT.json` lists every component with
its sources and its state of modelling, and every hazard at its line.

## Modules

| Module | Models | Checked by | Proved in |
|---|---|---|---|
| `SocietyRules` | roles, event states, `STATE_RULES`, the decision of `WorkflowEngine.check_action`: pure operators | through the others | |
| `EventPayments` | `add_or_update_pass`, `record_payment`, `process_refund`, both request services | `MCEventPayments` | `EventPayments_proofs` |
| `FlatAccount` | abstract: what payments and refunds promise a flat | refined by `EventPayments` | `EventPayments_proofs` |
| `FoodCollection` | `FoodCollectionService` | `MCFoodCollection` | `FoodCollection_proofs` |
| `PlateBook` | abstract: what the food counter promises | refined by `FoodCollection` | `FoodCollection_proofs` |
| `EventLifecycle` | `EventService` and the auto-close job | `MCEventLifecycle` | `EventLifecycle_proofs` |
| `AnnouncementDelivery` | targets, queueing, `delivery_worker.py` in the scheduler's process or under RQ | `MCAnnouncementDelivery` | `AnnouncementDelivery_proofs` |
| `NoticeBook` | abstract: what an announcement promises its recipients | refined by `AnnouncementDelivery` | `AnnouncementDelivery_proofs` |
| `InboundWebhook` | the WhatsApp and Telegram webhooks and their background tasks | `MCInboundWebhook` | `InboundWebhook_proofs` |
| `MessageLog` | abstract: what a webhook promises for a redelivered message | refined by `InboundWebhook` | `InboundWebhook_proofs` |
| `ChatDialogues` | the guided dialogues of one WhatsApp sender | `MCChatDialogues` | `ChatDialogues_proofs` |
| `CommitteeRoster` | `CommitteeMemberService`, the roster menu, the typed commands | `MCSocietyOffice` | `SocietyOffice_proofs` |
| `Onboarding` | joining, on top of the roster that decides who approves | `MCSocietyOffice` | `SocietyOffice_proofs` |
| `SocietyReports` | what each report computes from an event's rows: pure operators | through `SponsorLedger` | `SponsorLedger_proofs` |
| `SponsorLedger` | contributions, their return, expenses | `MCSocietyOffice` | `SponsorLedger_proofs`, `SocietyOffice_proofs` |
| `ReportDesk` | roles, formats, computation, log and hand-over of a report, on top of the roster | `MCSocietyOffice` | `SocietyOffice_proofs` |
| `SocietyOffice` | roster, newcomers, books and report desk composed over the same tables | `MCSocietyOffice` | `SocietyOffice_proofs` |

In the first three components, `pc[s]` says how far session `s` is in its
handler, `job[s]` what it was asked, `seen[s]` the values it loaded; *tables* are
the committed rows. `Begin` is the arrival of a message with all checks the
handler makes before its first read that matters, `Run` a step that can always
be taken, `Acquire` one that may wait for a row lock, `Abort` an exception or a
crash. The other modules keep one record per thread, task, worker or member
(`thread`, `task`, `work`, `hand`, `bench`, `desk`) with its place and its copy
together. *History* variables record what really happened and are read by
properties only (`receipts`, which also bounds the payments, `done`, `handed`,
`visited`, `overlapped`, `blind`, `taken`, `handled`, `cash`) or mark the point
from which a property that is claimed for messages one at a time is not claimed
any more (`alone`, `together`, `crowded`, `rushed`, `outage`, `lossy`).
Definitions whose comment starts with "Variant:" are plausible mistakes that no
specification uses; `PROJECT.json` says which property notices each.

**EventPayments.** Booking: `BookReadPass`, `BookReadPayment`, then `BookInsert`
(pass and payment rows in one transaction), `BookInsertConflict` (the unique
constraint on passes fires) or `BookUpdate` (column-wise update). Payment:
`PayReadPass`, `PayRead`, `PayCommit`. Refund: `RefundLock` (the row is locked
and loaded afresh), `RefundCheck`/`RefundSum` (the guards on the sum of
earlier refunds), `RefundFlush`, `RefundCommit`. Approval: `ApproveRequest`
loads the request, runs the payment or refund to its own commit, then
`ApproveCommit` marks the request in a second one. `Transition` is the
environment: the event moves between the states of `Reached` at any time.

**FoodCollection.** `GenerateLock`, `GenerateCount`, `GeneratePlan`,
`GenerateCommit` follow `generate_tokens`; `OpenRead`, `OpenInsert`,
`OpenUpdate` follow `open_food_counter`; `ServeCounter`, `CloseExpired`,
`ServeToken`, `ServeWrite` a scan, whose write is conditional on `served_at`
being null; `FlatToken` to `FlatWrite` a lookup by flat, first for an unserved
token, else for a plate without one. `Earlier` holds the audit rows earlier
events left behind, which the code counts too.

**EventLifecycle.** `CreateBegin`/`CreateCommit`; `Command` is a message that
loads the latest event and passes the gate of `command_policy.py` by its
status; `Check` loads the workflow row and asks the engine, override included;
`Commit` writes both rows, each only where it differs from its copy.
`CommandBlind` is a message that found no event: the gate lets it through and
"activate event" and "close event" look for an event again (`Lookup`). The job
is session `Scheduler`: `AutoClose` picks an event, `AutoReload` loads the next
one again after the commit of the one before.

**AnnouncementDelivery.** `Queue` is the chat command: it resolves the targets
(one member per WhatsApp id), writes the rows in one commit and, under RQ,
enqueues a job for each, of which Redis may take only some. `Claim` is the
scheduler's run: a batch of rows goes to "processing", rows already there
included, and is sent by the same thread or enqueued. `TakeFromBatch`/`TakeJob`
load a row, `Mark` commits "processing", `Refresh` is the reload after that
commit with the checks before sending, `Send` the provider's answer (a notice
may be taken and the answer lost), `Record` the commit of the outcome with the
announcement's counts, which are taken *before* the commit. `Stop` loses a
thread anywhere. What a commit writes depends on the thread's copy, as above.

**InboundWebhook.** `Accept`, `Refuse` and `Ignore` are the HTTP call with its
rate counters; `Start`, `Claim` (the key's insert), `Handle`, `Reply`, `Finish`
the background task; `Settle` what follows a message: dead letter or retry
entry. Redelivery is an `Accept` of the same call again, in parallel. `Abort` is
a client that is not configured, `Restart` forgets tasks and retry entries. A
failure after the work was committed and one before it are both possible.
Without the store of keys a message is handled unclaimed (`outage`).

**ChatDialogues.** `Tap` and `Hear` are the arrival of a row or a text;
`Session`, `CodeChecked`, `Dispatch`, `Served`, `Service`, `Reply`, `End` follow
the thread through `session_flows.py`, `handler.py` and the committee handler:
which dictionary is looked at first, which step the answer is taken for, when
the dialogue is removed and when the service runs. `EventMoves` is the event's
environment, `Restart` forgets the dictionaries.

**CommitteeRoster.** `Begin`, `SelectMember`, `SelectRole`, `ConfirmYes` are the
menu, where any row of any list sent earlier may be tapped at any time; `Commit`
is a step of its own, so a session's check and its commit are apart;
`TextCommand` is the typed command, whose change is never committed.

**Onboarding.** `work[w]` walks from the lookup of a mapping ("look") over the
lookup of a request ("ask") or the insert of a mapping ("assign") to the second
commit of an approval ("mark"); `Crash` stops a worker between any two.

**SocietyReports, SponsorLedger.** Each report is an operator of its own over
the rows of an event, translated from its own queries even where two come to the
same number; `SponsorLedger` enters the rows by sessions that check first and
commit later, and keeps the cash that really moved. Expenses, payments and
refunds of flats are refused unless positive (`expense_service.py:41`,
`payment_service.py:88`, `refund_service.py:98`), so they range over `Amounts`.
Nothing checks the sign of a contribution or of its return: `int()` is all that
stands before them (`committee.py:2259`, `:2320`), the services add no test from
below (`contribution_service.py:94-103`, `contribution_refund_service.py:73`)
and the columns have no constraint. They range over `SponsorAmounts`, any
integers that fit a column (`Largest`).

**ReportDesk.** `CallApi` and `CallChat` check the role and compute, `RecordAccess`,
`LogFails` and `RecordAgain` are the access log with its second try,
`HandOver` the answer.

**SocietyOffice.** The four over one set of rows: the roster is shared, a role
checked here is changed there. A *day* says how many messages each desk gets.

## Runs

| Run | Instance | Shows |
|---|---|---|
| `payments_safety` | 2 sessions, 1 flat, amount 1, 1 request, at most 2 paid in | types, one account per pass, nothing shown or refunded beyond what was received, approved requests are settled, refinement of `FlatAccount`, every handler ends |
| `payments_paid_twice` | 2 sessions, 2 requests | **violation**: one request recorded as two payments |
| `payments_lost` | 2 sessions, 2 requests, at most 3 paid in | **violation**: a lost update leaves refunds above the paid amount |
| `food_safety` | 2 sessions, 1 flat, 2 plates | types, each plate on record once, bound on plates over the entitlement, refinement of `PlateBook`, every handler ends |
| `food_overserved` | 2 sessions, 1 plate | **violation**: the last plate served twice by flat lookup |
| `lifecycle` | 2 sessions, the job, 1 event | types, no state skipped, rows agree and move in order unless a stale copy was committed, overdue events are closed |
| `announcements` | 3 members on 2 phones, 2 threads, batch 2, 2 attempts; locally 2 targets without fault or 1 with one, under RQ 1 with one | types, nobody told twice and no attempt too many while nothing overlaps or fails, counts at most one behind, refinement of `NoticeBook`, every delivery settles |
| `webhook` | 3 calls, two of which share a message, 2 envelopes, 2 faults | types, nothing vanishes, stored statuses are true, refinement of `MessageLog`, claimed messages settle |
| `webhook_queued` | the same, 1 fault | **violation**: an envelope put back to "queued" stays so |
| `chat` | 10 senders with one to three kinds of dialogue, at most 2 opened, 2 threads, 2 events | types, carried out once and with every answer while messages do not overlap, a member gets out of every dialogue |
| `office` | 3 people, 2 newcomers, 2 flats, 2 workers, 1 crash, 2 clerks, 2 events; days of 6 taps, of 4 joins, of 3 entries, of 1 tap and 1 report | types, a chairman remains, removals as asked, one home each, standing never falls, returns to sponsors within their bounds, reports reconcile, sound delivery of reports |
| `roster_saved` | the same | **violation**: a typed roster command answered as done is rolled back |

**Why the bounds are enough.** The races of this code are between two sessions
on one flat, event, contribution, request or row, with a third party (a crash,
the clock, an event transition, the provider) that the modules have as an
action; two sessions can run any number of messages one after another, so the
second may be several handlers in a row. `MaxReceipts` of 2 or 3 is one payment
lost, one kept and a refund. In `food_safety` a flat has no pass or one of two
plates (`Counts`), so it can be served partly by token and partly without.
Amount 1 makes every guard of the form "exceeds" bite at its boundary, and the
ledger's amounts 1 and 2 make a partial return and one that exceeds; of sponsors
also 0 (in kind) and -1, so three entries are a gift, a negative return and one
it makes room for, or a gift and two overlapping returns of 2, the bound itself.
`Reached`
has a state that allows an operation and, where an override matters, one that
does not. Two attempts are one retry and the last one; two members of the three
share a phone. Two faults are enough for a message to be lost and then delivered
again, and for the access log to fail twice. Six taps are two complete removals
side by side, four joins a request, its approval, a repetition of each. The four
days of the office are separate because its desks share only the roster: the day
with a tap and a report call has the change of a role under a report. The proofs
have none of these bounds. No run uses symmetry.

Deadlock is checked for the payments, food and lifecycle runs, whose sessions
always have something to do. It is off for announcements, webhook, chat and
office, which may stop: when all deliveries are settled, or when the bound on
messages or envelopes is used up.

**Fairness.** A thread that handles a message keeps running: weak fairness of a
session's `Run` steps, of a task's and a thread's `Work`. PostgreSQL queues the
waiters of a row lock: strong fairness of `Acquire`. No message has to arrive
and nothing has to fail. For the daily auto-close job, strong fairness per
event: it looks at every event that qualifies again each day, and neither it nor
the database fails each time it reaches the same event. The scheduler claims
deliveries every 30 seconds (weak fairness of `Claim`), and RQ's workers are
processes of their own that get to each delivery's jobs again and again (strong
fairness of taking a job of that member, since other work of the same threads
may come between). `chat` assumes a sender who wants to get out: who goes on
answering with a valid code and a flat while a join is open and with `cancel`
otherwise, and whose answer is not overtaken by another message every time.

## Proofs

Every safety property the passing runs check, type invariants included, and the
refinement of each abstract module are proved by TLAPS for any number of
sessions, flats, requests, tokens, events, members, threads, calls, dialogues,
newcomers, clerks and amounts. The assumptions are the named `ASSUME`s of the
modules (amounts are positive where the code refuses others, which it does not
for contributions and their returns, totals of payments are natural numbers, the
job is not a chat session, the committee starts with a chairman, the markers
`NoRow` and `NoEnvelope` are no rows, ...), which TLC evaluates for each
instance. Where rows are counted or summed, the sets they are counted over are
finite: the members of a society, the flats with an account, and the sessions of
the food counter and of the clerks, which the connection pool bounds.

*Payments* (`EventPayments_proofs`). The invariants of the runs are not
inductive. `IInv` adds what the copies and places of sessions say about rows:
`OneHolder` (at most one session is between its lock and its commit),
`HolderIsCurrent` (the holder's copy is the row: every write to the row waits
for it), `SumStillFits` (past the check, refunds with the new one are within
that copy), `CopyWasReceived` (any copy of `paid_amount`, however old, is at most
what has been received, so a lost update loses money but invents none), and
`ApprovalIsSettled` (a session about to mark a request has moved its money).
`RefundedCorrect` follows from the lock part and `PaidNeverExceedsReceipts`:
although payments may overwrite one another, what a refund is checked against
never exceeds what was received. `AccountRefinement` shows that each step is a
step of `FlatAccount` or a stutter, with `received <- receipts`,
`shown <- paid` and `returned <- refunds`.

*Food* (`FoodCollection_proofs`). `IInv` is the type invariant, the shape of a
job at each label (a session about to write a token has found that token), the
lock invariant (one generator; after its count there are no tokens until its
commit) and the counting invariant `PlatesAreOnRecord`, which uses the
cardinality facts of the library. `BookRefinement` maps every step to one of
`PlateBook`. `OverrunCorrect` adds the bound on plates without a token, which is
inductive beside `IInv`: a lookup gets past the count of audit rows only while
these, those of earlier events included, are fewer than a pass can have plates,
and afterwards every session writes at most one row.

*Lifecycle* (`EventLifecycle_proofs`). `IInv` says of each session under way
that its copies are states the event has been in and that what it is about to
write has its predecessor among them (`Fits`), that creations under way hold
different numbers, that both rows are states visited, and the two safety
properties. `OrderCorrect` is an action property derived from it: a gated
command whose copies are up to date can write only the next state, because
gate and engine saw the same value.

*Announcements* (`AnnouncementDelivery_proofs`). `NoticeBook` says that a notice
is on record only once the provider took it. The record alone is not inductive:
`SentWasTaken` adds that a row whose *status* is "sent", and a thread about to
record "sent", stand for a notice that was taken (a thread that finds the
status "sent" after its own commit takes it for its own success); `WorkHasRow`
says that batches and jobs are for rows that exist. `BookOfNotices` then maps
`Send` to `Take`, `Record` to `Record`, everything else to a stutter.
`AloneInvariance` is about deliveries that do not overlap: one row for each phone
(`OnePhoneEach`), one thread at work (`OneBusy`) and, in `ToldOnce`, that what
was taken was taken once and is recorded or in that thread's hand. Locally,
`AttemptsLeft` says of each row a thread is going to try that it has an attempt
left and that the thread's copy of the number is the row's; with it go the limit
of attempts and the counts that are at most one behind.

*Webhook* (`InboundWebhook_proofs`). `MessageLog` allows one claim and one effect
per message. `OneHolder` is the invariant: until the store of keys has failed,
who is about to handle a message holds its key and holds it alone, and the
message has had no effect yet. The insert of the key decides between tasks of
the same message; a restart drops the task and keeps the key. `FollowIInv` is
what `NothingVanishes` and `StatusIsTrue` rest on: every key stands for a message
that is settled or in the hands of a task (so that a task which skips a
duplicate leaves it in good hands), the messages a task is past are followed in
this sense, and what a task has met so far is noted in it as the records show.

*Chat dialogues* (`ChatDialogues_proofs`). `ChatIInv` has two parts. `ChatTypes`
holds in any overlap: each dictionary holds dialogues of its own kind, each
dialogue is at a step of its topic with the answers before it, and a thread
*knows* what its stage and errand promise about the dialogue it holds (`Knows`).
`AloneIInv` is about messages one at a time: one thread is busy, every dialogue
is complete and was carried out at most once, and (`Follows`) no open dialogue
was carried out yet, except for the one whose thread has served it and is about
to drop it. The exception is needed because an event's creation and a sponsor's
refund are committed before their dialogue is removed.

*Roster* (`SocietyOffice_proofs`). `RosterIInv` has as its heart `OneChecked`:
until two sessions hold a checked change at once, the only change in hand was
checked against the rows as they are, so its commit leaves a chairman.
`RemovalAsAsked` needs `RemovalAsked`: whatever rows are tapped, a removal that
has got its member was asked about as it stands, since a tap of a member asks.

*Joining* (`SocietyOffice_proofs`). `JoinIInv` numbers the requests without
repetition, says that the request a worker will close is its newcomer's, who
has a home by then (so a standing never falls, in any overlap), and, until two
workers overlap, that what a worker has read still holds and the rows agree.

*Ledger* (`SponsorLedger_proofs`). The reports add up rows of books of any size.
The facts about sums (what a new, a changed or an omitted row does to one, and
that only the values matter, not the order) are proved by taking the least
number of rows for which they fail, since the library's induction theorems cannot
be used. `LedgerIInv` says that a return about to be committed is not of one in
kind, and still fits its contribution and is the only one unless some overlapped
(`ReturnsFit`, `ReturnsAlone`); that what was returned and what is under way
exceed a contribution by at most `Largest` for every clerk but one
(`OverlapFits`: the last clerk to check found it to fit, and the others have one
return each; only positive ones are counted, for a negative one that lowers the
sum may be lost before its commit); that refunds of
a flat fit its payments, and that the ledger closes with the cash
(`CashAgrees`). That all the reports reconcile follows from this for each book by
itself (`LedgerReconciles`): `ClosingsAgree`, `ChainAgrees` and `FlatsAgree` are
consequences of one agreement with the cash and of how the queries select rows.

*Office* (`SocietyOffice_proofs`). `OfficeKeepsRoster` and `OfficeKeepsJoining`
show that the composition takes roster steps and joining steps only
(`Spec => RosterSpec`, `Spec => JoinSpec`); the theorems of the parts carry over,
and so do those of the ledger. The report desk has an invariant of its own
(`RequestsAreSound`): a call under way holds the document asked for or a refusal,
and past the log its row is there unless two writes failed.

Only model-checked is liveness (`HandlersEnd`, `OverdueClosesAlone`,
`DeliveriesSettle`, `ClaimedSettles`, `MemberDialoguesEnd`), which is out of the
prover's reach.

## What the runs say about the code

- A payment request can be paid twice: by two approvals at once, or by
  repeating one that was cut off between its two commits
  (`payment_request_service.py:312-380`).
- Overlapping payments lose one of the two amounts (`payment_service.py:193`);
  refunds then exceed the paid amount shown. They never exceed what was received.
- Two lookups of one flat serve one plate more than booked
  (`food_collection_service.py:678-734`), at most one per further session.
- A late transition takes an event back (a second activation overwrites LOCKED)
  or parts its two rows (`modules/events/service.py:39-42`); hence the exception
  in `MovesInOrderAlone`. Parted with one row CLOSED, the event is never again
  looked at by the auto-close job, which asks both not to be
  (`reminder_scheduler.py:69-70`); hence the one in `OverdueClosesAlone`.
- An envelope put back to "queued" stays there, and its entry on the retry heap
  is never looked at: `process_whatsapp_retry_queue` (`webhook.py:436`) has no
  caller.
- A typed command that changes the roster is answered as done and rolled back:
  nothing commits its session.
- A contribution and its return may be zero or negative
  (`contribution_service.py:94`, `contribution_refund_service.py:73`). A negative
  contribution lowers the cash with nothing returned; a negative return adds to
  it and leaves more to return later. In sum no more goes back than was given all
  the same, and the reports still agree, except that the list of sponsors shows a
  negative contribution as one in kind (`sponsor_report_service.py`).

Where a property names an exception, the exception is needed; each of these is a
behaviour of the model without it:

- two overlapping removals, or a removal and a demotion, leave the committee
  without a chairman (`together`);
- two overlapping returns exceed a contribution (`rushed`); by how much is
  bounded in any case: one return for every further clerk;
- overlapping workers give a newcomer two homes or two requests (`crowded`);
- overlapping runs, a stop or a lost answer send a notice twice (`alone` in
  `AnnouncementDelivery`), and make more attempts than the limit;
- overlapping answers of one sender are carried out twice or taken for the next
  question (`alone` in `ChatDialogues`); and even alone, `cancel` may be taken by
  another open dialogue than the one that offered it (`session_flows.py:53-71`,
  `handler.py:323-337`), which is why `MemberDialoguesEnd` is about a sender who
  goes on.

What `ReportsReconcile` states has its corrections for what the reports leave
out or count differently: `processed_at` of a sponsor's refund is never written
(`models.py:581`), so a ledger for a period omits all of them
(`ledger_report.py:116`); the summaries ignore returns to sponsors while the
ledger counts them; the flat report joins payments with refund rows before it
sums, so a payment counts once per refund; balance, pending list and reminder
*lower* what a flat owes by its refunds while the flat report adds them back;
of two descriptions with the same title the expense summary shows one.

Met while reading, not stated as a run: fallback audits are counted over all
events (`food_collection_service.py:702-711`); tokens generated after plates
were served without one are not reduced by these; the lockout after failed
tokens counts without the audit row just added (103-118); overlapping changes
of a pass leave an expectation that is not its total
(`food_pass_service.py:111-194`); a scan can close a counter that has just been
opened again (`food_collection_service.py:412-427`); the command table
of `docs/functional_workflows.md:225` lets passes be added in LOCKED and
EVENT_DAY where `STATE_RULES` has ACTIVE only; `add event` is gated to DRAFT
(`command_policy.py:12`), so once the latest event is past DRAFT no chat command
creates another one; the chat's export menu always asks for a PDF
(`committee.py:1833`), which the registry refuses for announcement history,
pending payments, expense summary and participation, the dialogue staying open;
adding a member who was removed earlier fails on the unique phone number
without an answer; a role change's "yes" may use a member or a role tapped on an
older list.

## Simplifications

- `EventPayments` and `FoodCollection` start where the services start: the
  handler's gate only restricts them further, and `EventLifecycle` models it.
- Commits are atomic. All services write their tables in one fixed order inside
  one transaction and READ COMMITTED readers see it whole.
- `find_matching_request` takes the oldest match; the model takes any.
- `process_refund`'s retry on serialization failures never occurs at READ
  COMMITTED. `reject_request` and `mark_not_participating` have no caller.
- The workflow check of payments never refuses: the action is allowed or
  overridden in each state for the roles that get there, and outcome and audit
  row matter to no property.
- `allowed_next_states` is written and never read. The manual script
  `scripts/reset_event.py` deletes rows outside of the program's operation.
- Event numbers stand for `created_at`, the time a creating transaction began.
- The retry delay of a delivery is a retry at any later time. `retry_attempt` of
  a webhook's entry is always 0 and `failed_template_required` and the
  process-level "ignored" cannot be reached: they have no action.
  `conversation_fsm` is not used by the program.
- A message is modelled by what it is taken for (`Messages` in `ChatDialogues`);
  keyword-prefixed answers and the parsing of numbers and dates are left out. The
  export dialogue's choice of an event and its pages are one flag.
- A roster sender has one message in hand at a time. Audit rows of
  the roster and of onboarding share the fate of their change and are left out.
- The docs speak of throttling and a circuit breaker for announcements; the code
  has neither, so the model has neither.

## Plan

Done: payments and passes, food collection, event lifecycle, announcements,
webhooks, chat dialogues, roster, onboarding, books, reports and the report
desk; the composition of the office; abstract promises refined by four of them;
proofs of every safety property of the runs.

Left, in this order:

1. Abstract promises for the parts that have none, stated and refined: what the
   committee's roster and the office's cash box promise, whatever the desk.
2. `ChannelIdentity`: link codes and phone challenges, their attempt limits under
   concurrent guesses.
3. The scheduler's leader lock and the reminder rows.
4. Food: the failed-token lockout, and token plans overtaken by pass overrides.

## Not modelled, and why

Menu texts, intent detection, parsing, formatting, PDF and spreadsheet
rendering, the public PDF route, QR images, translations and HTTP clients are
data or pure I/O. The contents of the food pass, directory and audit listings and
the date filters of reports are selections of rows without a decision. Webhook
signatures and Telegram's own parsing come before the first state change.
Channel identity counts attempts in time windows that nothing else reads: the
models take a sender's identity as known. The leader lock, run counts and
reminder rows of the scheduler are planned above. Deployment, migrations and
maintenance scripts are outside of the running program.
