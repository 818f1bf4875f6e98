# Formal models of the S-man backend

TLA+ modules, TLC configurations and TLAPS proofs about the Express/Postgres backend in `src/`: an
ordering system for petroleum products in which customers place orders against cargoes (PFIs), money
arrives as bank statement lines, and trucks are ticketed, let into a depot and let out. The models are
translated from the source; `PROJECT.json` maps every definition to the lines it stands for.

Contents: [inventory](#inventory) · [plan](#plan) · [how the code is modelled](#how-the-code-is-modelled) ·
[modules](#modules) · [runs](#runs) · [what is proved](#what-is-proved) ·
[only model-checked](#only-model-checked) · [divergences](#divergences) · [not modelled](#not-modelled)

## Inventory

One Node process group serves HTTP and runs jobs; all state is in Postgres. An operation is a handler
or a service function, its steps are SQL statements, usually inside `db.transaction` with
`SELECT ... FOR UPDATE` on the rows it changes. Two requests interleave at transaction boundaries and,
more interestingly, wherever a function reads before it opens the transaction or locks the row: that is
where most of the hazards in `PROJECT.json` are.

| component | state | operations | correct when |
|---|---|---|---|
| Order ledger (`orderPayment`, `orderRefund`, `orderMerge`, `orderStatus`, `order.service`) | `orders.status`, value, `amount_paid`, `payment_status`, deadline; `order_payments`; `order_payment_transfers`; `order_refunds`; `bank_statement_lines` | place, price, edit, confirm payment, remove payment, transfer surplus and reverse it, request/pay/undo/cancel a refund, skip, merge, cancel, expire, delete | cached figures equal the rows; a bank line is used once; money out comes from surplus; nothing becomes ready without cover; a merge makes and loses no money |
| Bank statements, wallet deposits, delivery sales | lines `UNMATCHED/MATCHED/DELETED`, who claimed them | claim, free, delete an upload | share lines with the ledger without using one twice |
| PFI stock (`pfi.repository`, `order.service`, `pfi.controller`, `pfiSurplus`) | `pfis.sold_qty_litres`, tank, surplus, status; `order_pfi_allocations`; `pfi_movements` | reserve at placing, move, give back, split over PFIs, bulk-assign, activate, finish, type over, record and take back surplus | never sold more than is there; counter equals rows; dead orders hold nothing |
| Loading and gate (`order.controller`, `orderTruck`) | order trucks with litres, status, ticket, number; `credit_qty`; RELEASE movement | declare, allocate, release, ticket, correct, gate in, gate out, credit release and its revocation | nothing leaves unticketed; completion exactly at the last truck of the whole quantity; ticket numbers unique |
| WhatsApp pipeline (`whatsapp/`, `config/queue`, the webhook route) | `wa_messages`, `wa_sessions`, pg-boss jobs | record and queue a message, run a turn, place the order, save the session, record and queue replies, retry, expire, requeue what was lost, take in a payment event | one message makes one order and one answer; a processed message took effect; every recorded message is closed; messages reach the session in order |
| WhatsApp conversation (`whatsapp/engine`, `context`, `copy`) | the session's state, cart, last order, failures | read a tap, a word or media; build, edit, resume, confirm or drop a cart; list trucks; name depositors; cancel; take in a payment notice | the question asked is the cart's first open one; a cart that can be confirmed can be placed; every button offered is understood |
| Notifications (`notifications/`, `deviceToken`) | jobs, in-app rows, delivery log, preferences | queue or dispatch, resolve people, post to the inbox, send per channel, log, receipts | everybody told, nobody twice, no receipt undone |
| Sessions, codes, devices (`session`, `otp`, `deviceToken`) | refresh tokens and families, codes and their tries, push tokens | sign in, rotate, end, change password, delete the account; issue and verify; register and retire | a sign-in is one live session; attempts are bounded; a handset rings for one person |
| Wallet (`wallet.service`, `peopleMerge`) | `customers.balance`, deposits ledger, holds, statement lines | credit, debit, transfer, reverse, hold, convert, release, merge two customers | the balance is the ledger less the holds; a free line has left the wallet |
| Requests (Dangote, LPG) | request status, payment status, cylinder shelf | review, approve, pay, cancel, refund, withdraw, expire, edit the shelf | nobody's money is kept for a request that ended; cylinders are neither made nor lost |
| Expenses (`expense.controller`) | requests, their status, signatures, account groups | create, review along the chain, edit, delete, regroup an account | paid means signed for; a cargo bears exactly the costs of its accounts |
| Commissions (`commission.service`) | commissions, depot rates, agreed rates | raise, enlarge, settle, revert, reprice | one per order; what was paid is history; the queue is at today's price |
| Truck sales (`bankStatement.repository`, `deliverySale.repository`) | statements, lines, payments of truck sales, moves of overpayments | upload, match, free, type, correct, delete, move | a credit is on record once and spent once; only a surplus moves |
| Scheduler, daily report, desk nudges | an audit row per report sent | fire, check, mail, record | once per date |
| Directories, reports, dashboards, uploads, mail and SMS clients | single rows, none | reads, single-row writes | nothing beyond the database's own constraints |

**How they interact.** The order row is the meeting point: payments make it ready, stock and trucks hang
off it, merges fold one into another and repoint everything. The statement lines are shared by orders,
deposits and sales. PFI rows are shared by every order that draws on them. Merging touches all of it in
one transaction that locks the orders but not every row it repoints. Jobs (expiry sweep, daily report,
message sending) run beside the requests on the same rows.

**What is hard here.** Checks made before the lock that would protect them (expiry, removal, release,
bulk assignment, deletion, activation, refunds); caches (`amount_paid`, `payment_status`,
`sold_qty_litres`, surplus) updated by many writers; merges in the middle of anything; several rows that
must change together; two numberings of the trucks of an order; retries and double submits. `PROJECT.json`
lists each with its line and the properties that would catch it going wrong.

## Plan

In order of importance. All but the last two exist.

1. **OrderLedger** – money and order status. *Modelled, checked, proved.*
2. **PfiStock** – litres of a PFI. *Modelled, checked, proved.*
3. **Loading** – trucks, tickets, gate. *Modelled, checked, proved.*
4. **SumLemmas** – what sums over finite sets do; shared by the proofs. *Proved.*
5. **WaPipeline** and its abstraction **WaInbox** – one message from the webhook to the queued replies, under
   retries, expiry and crashes. *Modelled, checked; the safety properties and the steps of the refinement proved.*
6. **Wallet** and, over it, **Requests** – balances, holds and the requests paid from them. Wallet is the abstract
   specification that Requests implements. *Modelled, checked, proved.*
7. **Notify** – deliveries with retries, restarts and receipts. *Modelled, checked, safety proved.*
8. **Expenses**, **Commissions**, **TruckSales** – the office. *Modelled, checked, proved.*
9. **Sessions**, **Codes**, **Devices** – access. *Modelled, checked, proved.*
10. **Conversation** – what a WhatsApp turn answers and does. *Modelled, checked, proved.*
11. **WaOutbox** – `processSend`, staleness of a reply, receipts out of order. *Not begun.*
12. **DepotGate** – an abstraction of Loading: a truck goes declared, ticketed, inside, out. *Not begun.*

Every invariant and action property the runs check is proved; a theorem still worth proving is that `Reduce` of
WaPipeline is what Conversation's turns come to.

OrderLedger, PfiStock and Loading share the order but not its variables: composing them in one state would multiply
three state spaces of several hundred thousand states each. Each therefore keeps as much of the others as its
own guards read. Loading takes from the ledger what the money on an order covers, in litres, and lets it
move whenever the ledger could (`MoneyMoves`); PfiStock takes only the status classes that stock looks at;
OrderLedger takes the first truck in and the last truck out as steps of the status. Where one component is built
on another the models are composed: Requests EXTENDS Wallet and its steps are checked, and proved, to be the
wallet's. WaPipeline and Conversation split one handler: the first has what happens around a turn and keeps of the
turn what it needs, the second has the turn and lets turns follow each other.

## How the code is modelled

* **One action is one transaction**. In WaPipeline, Notify, Sessions, Devices, Expenses, Commissions and the desks of
  Requests, where there is no transaction around a handler, it is a single statement; in Conversation it is a turn. Its guard is the conjunction of the handler's conditions and early
  returns as they are evaluated under the locks; its effect is everything the transaction writes,
  including derived figures (`recomputeOrder`, `markFinishedIfComplete`, the status after a payment).
* **Where the code reads before it locks, the operation is two actions**, `Begin…` and the commit, with a
  variable that carries what was read, and usually a third (`Refuse…`, `Abort…`) for the commit that
  finds its premise gone. The split is at the first statement that another transaction's commit can
  precede. In OrderLedger: `stale`, `confirming`, `removing`, `asking`, `reversing`. In PfiStock: `plan`,
  `assigning`, `deleting`, `activating`. In Loading: `releasing`. In Wallet: `merging`. Elsewhere what a handler has
  read is in a record of its own: `desk`, `call`, `handler`, `post`, `tab`, `task`, `upload` and `move`.
* **Crashes need no action of their own**: a crash inside a transaction is its absence, and a crash
  between the two halves of an operation is the second half never taken, which the specifications of the
  ledger, the stock and the loading allow since none demands progress. Where progress is demanded or a stop leaves
  something to clean up, crashes are actions: `HookDies`, `Fail`, `Expire`, `EventFails` (WaPipeline), `Crash`
  (Notify, Requests), `Stop` (Sessions), `Die` (Codes), `CutOff` (Devices), `StopTask` (Commissions), `GiveUp` (Expenses).
* **Ids are never reused**: `Absent` before the row exists, `Deleted` after it is gone.
* **Data.** Money is counted in whole units and rounding to kobo is left out. Litres are naturals.
  Customer, depot and product are left out where a guard only compares them, so the model allows the
  operation between any two orders or PFIs. In Loading the money on an order is expressed in the litres
  it pays for, which makes `amount_paid >= total_amount` the comparison `paid >= qty`.

### Fairness

Two specifications assume fairness, WaPipeline's `Spec` and Notify's `LiveSpec`; both describe work the process does by
itself. In WaPipeline: time passes (`Ages`), the maintenance cron runs (`Janitor`), a worker that is up polls
(`Fetch`), a handler that does not fail goes on (`HandlerStep`), a retry delay ends (`DelayOver`). In Notify: pg-boss
polls and expires (`Fetch`, `Expire`) and a run that is alive goes on (`Works`). Each is a timer or a loop of
`startWhatsApp`, `notifications/worker.js` and pg-boss that runs as long as the process does. Nothing is assumed of
customers, payments, carriers or people, nor that something does not fail; failures are bounded by `MaxFaults`, and in
Notify by the retries of a job.

All other modules assume none. Every step is somebody's request: a desk may never confirm a payment, a truck may
never leave, the sweep may be switched off. Nothing in the code promises that such a step happens, so no liveness is
stated; the action properties that say *who* may cause a change take their place. Deadlock is not checked for the
same reason: with every order finished and every bound reached the system is legitimately at rest; so is the pipeline
when its messages are closed.

## Modules

| module | what it is |
|---|---|
| `OrderLedger`, `MCOrderLedger`, `OrderLedgerProofs` | payments, refunds, transfers, merges, order status |
| `PfiStock`, `MCPfiStock`, `PfiStockProofs` | litres on PFIs |
| `Loading`, `MCLoading`, `LoadingProofs` | trucks, tickets and the gate |
| `WaPipeline`, `MCWaPipeline`, `WaPipelineProofs` | the inbound half of the WhatsApp pipeline, for one phone |
| `WaInbox` | what the pipeline promises of each message; WaPipeline implements it |
| `Conversation`, `MCCustomer`, `AccessProofs` | the turns of a WhatsApp chat |
| `Wallet`, `MCCustomer` | balances, the deposits ledger, holds, merges of customers |
| `Requests`, `MCRequests` | LPG and Dangote requests over the wallet |
| `WalletProofs` | theorems of Wallet and Requests |
| `Notify`, `MCNotify`, `OfficeProofs` | one event from notify() to the delivery log |
| `Sessions`, `Codes`, `Devices`, `MCAccess`, `AccessProofs` | refresh tokens, one-time codes, push tokens |
| `Expenses`, `Commissions`, `TruckSales`, `MCOffice`, `OfficeProofs` | payment requests, commissions, statements and truck sales |
| `SumLemmas` | sums over finite sets, proved from `SumFunctionOnSet`'s definition |

An MC module holds the constants, bounds and symmetry of its runs. `MCAccess`, `MCCustomer` and `MCOffice` put components
that share no table side by side: a behaviour belongs to one part, chosen in the initial state.

### OrderLedger

`payments` is the table `order_payments` as a set of rows: a statement payment, the two legs of a surplus
transfer, or the negative row of a refund. `line` is each bank statement line, `elsewhere` the lines that a
wallet deposit or a delivery sale has claimed. `amountPaid` and `payStatus` are the cached columns, changed
only where the code calls `recomputeOrder`/`writeTotal`. `AfterDeskPayment` is the chain Pending → Paid →
Released (→ Loading → Completed for PFIs without a loading desk) that runs inside the payment's own
transaction; `Transitions` is the table of `orderStatus.service.js`.

* `FindStale`, then `ExpireOrder`: a screen or the sweep decides from an unlocked read; `expireOrder` locks
  and checks the transition table.
* `BeginConfirm`, then `ConfirmOrderPayment` or `RefuseConfirm`: `expireIfStale` runs in a transaction of its own.
* `BeginRemove`, then `RemovePayment` or `AbortRemove`: the checks hold the payment row, not the order row.
* `SeeSurplus`, then `RequestRefund` or `SkipOrder`: the surplus is read outside any transaction.
* `BeginReverse`, then `ReverseTransfer` or `AbortReverse`: the transfer row is locked and its ends are
  checked before the receiving order is.
* `MergeOrders` repoints payment rows, lines, transfers, refunds and skips, sums value and money, and waits
  for the rows a removal or a reversal holds (`MergeWaits`).

### PfiStock

`held` is `order_pfi_allocations`, `moved` the PFI of the order's RELEASE movement, `sold` the counter.
`FindPfi` is the offer made before the transaction (`plan`); `PlaceOrder` reserves all of it or nothing.
`UpdateOrder`, `MergeOrders`, `EndOrder` move and give back; `BeginAssign`/`CommitAssign` is the bulk
assignment and `BeginDelete`/`CommitDelete` the deletion, both of which give back rows read without the
order's lock. `SoldAfterReturn` has the clamp at zero that `releaseStock` has.

### Loading

`loads[o]` is the order's trucks, oldest first, each with litres, status, ticket and number. A ticket is
named after the order it was cut on and the truck's number there, which is what the code prints; a merge
renumbers the trucks and leaves the tickets. `GenerateTickets` takes the trucks it recognises (`again`)
and at most one new truck; the others of a batch are as many steps of the same kind. `WithinCeiling` is the
code's sum, which counts a recognised truck twice. `MarkTruckLoaded` and `UpdateTruckLoad` are the desk's
corrections, `GateInTruck`, `GateInUndeclared` and `GateOutTruck` the gate. `MoneyMoves` stands for everything
in OrderLedger that changes what is paid for.

### WaPipeline

One phone, because nothing but the workers is shared between phones. Messages are numbered in the order of
their rows, and an order is named by the message it was placed under, since the idempotency key is the wamid.

* `status`, `age`, `hook`: the inbound row, how long it has waited (younger than the janitor's two minutes, older,
  past the ten minutes after which it is not answered) and what the webhook still owes it.
* `jobs`: the queue in creation order. `Fetch` takes the oldest job that is due; `Fail` and `Expire` return it
  for later or, with its retries used up, drop it; `Expire` leaves the handler running, as pg-boss does.
* `handler[h]`: where a run of `processInbound` stands, with its local session, the replies it still has to record
  and the rows it has recorded. `Find`, `Guard`, `Rearm`, `Load`, `Place`, `Insert`, `Refuse`, `Save`, `Reply`,
  `Send` and `Close` are its statements, in that order. The two reads inside the idempotent replay are one step.
* `session`: the state of the conversation and the last order. `Reduce` keeps of the engine the part from a complete
  cart to the paid order: tapping Confirm places the order or is sent back to a missing step; any other message
  stays, opens the menu, or answers the depot that was asked for. Replies are counted, one or `Several`.
* `outbox[m]`: the replies on record for message `m`, each with its place in the turn and whether a `WA_SEND` job
  names it; `outbox[NoMsg]` holds the pushes of events.
* `event[o]`: the `payment_confirmed` job of an order. One runs at a time and its handler does not expire; it is
  retried without limit, since the queue allows five retries and a run has fewer faults.
* `applied`, `crossed` and `unchecked` are history: how often a message was saved into the session, which messages
  and orders had a handler that was not alone (an orphan after an expiry, or a payment event beside a turn), and
  which were placed after the duplicate check threw.

Several properties exclude the messages of `crossed`. That is what the code offers: the turn-retry guard and the
whole-row save of the session protect a turn against its *earlier* runs, not against one that runs beside it.
`TurnsTakeEffect` holds for those too.

### Conversation

`chat` is the saved session: its state, the cart, the last order, the failures. Depots and products are those with a
price (`catalog`), litres are small numbers and a truck carries `Capacity`; a cart remembers only that a company or an
address was given. What is typed is one of the kinds of text the handlers tell apart (`Texts`); a tap is on any button
of the last answer (`offered`) or on one further up (`Older`), since WhatsApp buttons never go away.

* `Reduce` is `reduce`: who is writing, media, the words that work everywhere (`HandleWord`), the cart offered back after
  a silence (`HandleSilence`), and one handler per state, each returning the session, the buttons, whether the message
  was understood and the effect asked for.
* `TakeTurn` is the loop of `processInbound` without its failures: the answer, the effect (`PlaceOrder`, `CancelOrder`,
  creating the customer, noting depositors), the re-entry with its outcome, the save. `PlaceOrder` places, answers a
  duplicate, or is refused for stock or anything else; when an order is a duplicate is left open, its window being time.
* `Told` is the payment notice. `Pay`, `CloseOrder`, `FallIdle`, `SweepExpired`, `Reprice` and `ChangeAccount`
  are what changes around the chat between two turns.
* `untold` and `unheard` are history: orders paid since the chat was last told of a payment, and offered taps that were
  answered as unreadable.

### Wallet and Requests

`row` is the `deposits` ledger, each row named by what it is: a credit from a statement line (`old`), the legs of a
transfer (`in`, `out`), the payment and the refund of a request, a hold converted at completion (`spent`), a reversal
(`rev`) of a credit. `balance` is the cached column; `hold` the holds of orders placed before the wallet was taken out of
ordering; `line` the statement line of each deposit and `backs` the deposits whose attribution rows still stand. All but
the merge of two customers is one transaction under the customer's lock; `absorbIntoCustomer` reads the balances first
(`BeginMerge`) and adds what it read (`CommitMerge`).

Requests adds the requests, the station's cylinders in up to three rows of the shelf, and desks: a handler that takes
cylinders, approves, debits, marks, returns, refunds in statements of its own, and may stop between any two. Every
action that touches money is an operator of Wallet (`Charge`, `GiveBack`), which is what `WalletSpec` checks.

### Notify

An event may be queued, dispatched inline, or both. `run` is one dispatch, named by event and attempt (0 inline),
`leg[<<run, person>>]` where a recipient of it stands: gates, the in-app row with its dedupe key, the sends on all
channels at once, the log. `answer` is what the provider said, `row` what the delivery log says. An expired job is
queued again while its first run goes on. Mandatory, muted and suppressed channels, a recipient list that cannot be
read, failed writes and receipts in any order are actions or choices.

### Sessions, Codes, Devices

`Sessions` has refresh tokens as sessions of a family (`fam`), the rotation as its statements (`Present`, `Check`, `Mint`,
`Claim` or `LoseClaim`, `Orphan`), the grace for a lost answer (`Follow`), reuse detection, sign-outs, a password
change that writes the hash and then ends the sessions, deactivation and deletion. `known` are the tokens a client
received: any answer may be lost. `Codes` counts rows before it writes one, which is why its limits hold up to the
requests already past the count. `Devices` registers a token in two statements and writes a provider's verdict to the
token it was about.

### Expenses, Commissions, TruckSales

`Expenses`: a screen (`tab`) reads a request, decides on what it read and writes by id. `torn` are the requests and accounts
where something was overwritten unread; the properties except those and nothing else. `Commissions`: a handler reads the rate
and the row, then writes; a rate change is followed by a sweep over the rows read when it began. `TruckSales`: an upload
compares with what is on the account and inserts line by line; a surplus is computed before the transaction that moves it.

## Runs

State counts are of distinct states.

| run | instance | shows |
|---|---|---|
| `LedgerRefunds` (355,069) | 1 order on a PFI without loading desk, 2 lines of 1 and 2, 2 refunds, prices 1 and 2 | `PayStatusCurrent`; `LinesAccounted`: a line backs one thing, and loses it only to a deletion |
| `LedgerMerges` (1,048,652) | 3 orders, 1 line, 1 transfer, 2 refunds | `MoneySound`: `amount_paid` is the sum of the rows, refunds are backed and open once; `LegsTogether`, `GivesOnlySurplus`, `ReleaseNeedsCover`, `MergeKeepsTotals` |
| `Stock` (294,168) | 2 orders, 2 PFIs of 1 litre, quantities 1 and 2, 1 surplus entry | `FoundIsEntries`, `OversoldOnlyByTyping`, `CounterDriftsOnlyByStale`, `SoundButForAssign` |
| `Loading` (464,370) | 2 pickup orders with up to 2 trucks of 1, or 1 delivery order with trucks of 1 and 2 | `DepotInOrder` (five invariants of the depot), `CompletedIsLoaded`, `LeftOpenOnlyByMerge`, `OverfullOnlyByStaleRelease` |
| `WaTurns` (3,765,775) | 2 messages that tap Confirm, 1 worker and 2 handlers, 1 retry, 2 faults, the first order payable | `TurnsTakeEffect`, `RepliesSound`, `NothingTwice` |
| `WaSettles` (392,096) | 1 message that ages, no retry, 2 jobs of it at once, 2 faults | `EverythingSettles`; `KeepsPromise`, that WaPipeline implements WaInbox, liveness included |
| `Requests` (110,370) | 3 requests, 2 of them LPG, 2 desks, 3 rows of shelf, 2 customers, 1 merge | `WalletSpec`, that Requests implements Wallet; `KeepsMoneyOnlyByRace`, `CylindersDriftOnlyByOverlap` |
| `Notify` (231,370) | 1 event queued and inline, 2 people, 1 channel, 1 retry | `ReachedOnce`, `AnswersStand`, `QueuedIsHeard` (liveness) |
| `Access` (2,528,125) | 3 sessions of 1 principal under 2 calls; 3 codes under 2 handlers; 2 tokens of 1 handset under 2 registrations | `SessionsHold`, `OldPasswordEnds`; `CodesHold`; `DevicesHold` |
| `Customer` (413,485) | 2 wallets: 1 deposit, 1 hold, 1 request's payment, 1 transfer, 2 merges, amounts 1 and 2; a chat: 1 depot, 2 products, orders of 2 and 3 litres, trucks of at most 2, 1 order | `FreeLineIsReversed`, `BooksBalanceButForStaleMerge`; `ChatHolds`, `TapsAreHeard`, `CancelsPaidOnlyUntold` |
| `Office` (2,324,303) | 1 request, 2 accounts, 2 staff, 2 screens; 1 order, 2 commissions, 2 handlers; 2 credits in 2 exports, 2 uploads, 2 trucks, 3 payments, 2 moves | `ExpensesHold`, `ClosedUnlessStale`; `CommissionsHold`, `PaidIsHistory`; `SalesHold` |
| `LedgerStranded` | smallest that shows it | violation, see [divergences](#divergences) |

**Why the bounds are enough to be interesting.** Lines of 1 and 2 against values of 1 and 2 give under-, exact
and over-payment by one line and by two. Two refunds are what it takes for two requests to meet on one order
or for a request to outlive the surplus it was made from. Two orders make a merge and a transfer; the third
is needed for a merge into a merged order, for a transfer whose ends are folded into a third one, and for a
transfer from a bystander. One-litre PFIs with two-litre orders make every order of two a split and every
second order a shortage. Two trucks of one litre for orders of one and two give batches, an order that is full
with the first truck, and, after a merge, four trucks and two numberings. Two handlers under one worker are an
orphan and its successor; two messages are a double tap; two faults are what it takes to lose a run and then the
run that repairs it. In `WaSettles` no retry is left, so every failure kills its job and only the janitor brings the
message back, with a second job of the same message when the first is merely slow. In the chat an order of two fits one
truck and an order of three needs two, with a choice of litres for the first; two products are a choice and one that
goes off sale while the other stays; `OlderTaps` are the buttons of every kind of message that asks for something
lasting. In the other runs two actors are what overlaps: two desks, two calls, two screens, two uploads, two merges
of one wallet; three sessions are a token, its successor and the one that replay detection has to end.

**What the bounds cut.** `MaxSurplus` bounds the sum a desk asks for. `MaxTrucks` and `MaxDeclared` bound the
trucks on one order before a merge. `MergesOnly` keeps deposits, sales, deleted uploads and deadlines out of
`LedgerMerges` (they are in `LedgerRefunds`), and the third order out of behaviours with refunds. `Bound` in `MCLoading` keeps
pickup and delivery orders apart. `Bound` in `MCPfiStock` has one request at a time between its reading and its
writing, everything else interleaving freely with it, and stops where a counter has drifted. `MaxJobs`, `MaxFaults` and
`MaxAge` bound the jobs of one message, the failures and the waiting; in `WaTurns` rows do not age (they do in `WaSettles`),
so the janitor and the ten minutes are met there with one message. `Bound` in `MCCustomer` has one thing unusual at a time
around the chat (the session's age, the account, the prices, money on the way), and cuts short what is put together
after the first order; `MaxOrders` is one, so an order confirmed later is a duplicate or refused. `Balanced` stops the wallets
where the books are off. `Bound` in `MCRequests` has two desks, or one and a merge, under way, and money moving only while there is one
request. `Bound` in `MCNotify` allows one oddity, with one of the two people, and serves them one after the other in a
run; it leaves every run that is alive a step to take, so `QueuedIsHeard` is about behaviours that go on. The bounds of `MCAccess` and `MCOffice` allow one exception of each kind (a session that expires or is left unclaimed, a request
overwritten unread, a commission created twice, an account changed by hand).
Orders, refund ids, PFIs, handlers, customers and screens that the configuration does not tell apart are symmetric; the
runs that check liveness (`WaSettles`, `Notify`) use no symmetry.

## What is proved

Checked by TLAPS for all values of the constants that satisfy the module's `ASSUME`: any number of orders,
lines, customers, requests, PFIs, trucks, events and people, any prices and quantities. The assumptions are that the
constants have their types and that what is summed over is finite.

**OrderLedger** (`OrderLedgerProofs`)

| theorem | statement |
|---|---|
| `TypeCorrect` | `Spec => []TypeOK` |
| `MoneyIsSound` | `Spec => []MoneySound`, from `AmountPaidIsSum` (`CacheIsSum`), `RefundsBacked` and `RefundsOpenOnce` |
| `PaymentStatusCurrent` | `Spec => []PayStatusCurrent` |
| `LinesAreAccounted` | `Spec => []LinesAccounted`, from `LinesUsedOnce` and `StuckLinesByDelete` |
| `TransfersKeepLegs` | `Spec => []LegsTogether` |
| `ReadyIsCovered` | `Spec => ReleaseNeedsCover` |
| `GivesAreSurplus` | `Spec => GivesOnlySurplus` |
| `MergesKeepMoney` | `Spec => MergeKeepsTotals` |

None of the invariants is inductive alone. `RefundInv` adds to `RefundBacked` that a request that is not there
has no row; `AskIsFree` that what a desk has read belongs to an id nobody uses. `LineInv` adds that a line a
removal holds is still backed by the row it locked, and that a removal and a deletion exclude each other.
`LegInv` says where each leg sits between a transfer and the merges after it (`LegsAt`). `PaidInv` adds that an
unpriced order has no value, an absent one no price, and that refunds are of positive amounts, which is what
makes a payment status computed from cached figures agree after each edit.

`CacheIsSum` is proved last, by induction with `LegsTogether` and `RefundBacked` as hypotheses: a transaction
recomputes only the orders it names, so for every other order the proof has to show that the rows the
transaction added or removed there cancel out. That is immediate but for one step: `ReverseTransfer` recomputes
the two ends it read before the merge that moved both legs to a third order; there both legs disappear
together and their sum is zero. Lemma `CancellingRows` says so, using `LegsTogether`.

`GivesAreSurplus` follows from `CacheIsSum`: the guard of a transfer or a refund looks at the cached figure, the property
at the rows. The reversal is the step that takes work, since the legs may both sit on a third order by then and the
sum over its rows does not change; it needs that a standing transfer is of a positive amount (`TransferPositive`).
`MergesKeepMoney` needs that the row of a leg names a transfer and that of a refund a refund (`RefsFit`), so that repointing
rows makes no two of them one; the sums over all orders are then regrouped by `SumLemmas`.

**Loading** (`LoadingProofs`)

| theorem | statement |
|---|---|
| `TypeCorrect` | `Spec => []TypeOK` |
| `DepotStaysInOrder` | `Spec => []DepotInOrder`, from `InsideKeepsLoading`, `NothingLeavesUnticketed`, `EndsDropTrucks`, `NumbersNeverCollide` and `MovementNeverExceeds` |
| `CompletedHasAllLitres` | `Spec => []CompletedIsLoaded` |
| `OpenIsMerged` | `Spec => LeftOpenOnlyByMerge` |
| `OverfullIsStale` | `Spec => OverfullOnlyByStaleRelease` |

The first four parts follow from one invariant, `LoadInv`: every truck fits the order it is on
(`TruckFits`), and an absent, dead or deleted order has none. The strengthening is `TicketNames`: a ticket
carries either the number and the order of the truck it is on, or the name of an order that a merge has
emptied *for good*. The second half needs that such an order never comes back and cannot be deleted
(`GoneStays`), and it is what makes `NumbersNeverCollide` provable: a ticket that names a living order is on
that order, under the truck's own number, which is at most the highest. `MovementWithinOrder` is inductive with
the types, because the ceiling is never above the quantity and the quantity can only be edited before loading.
`CompletedIsLoaded` is inductive with the types as well; the step that takes work is the merge of two completed
orders, where the litres of the joined, renumbered list are the sum of the two (`JoinedLitres`,
`RenumberedLitres`). `OpenIsMerged` rests on `LoadInv`: an order all of whose trucks are out is completed by the step that
lets the last one out, for every other step keeps a truck on it or leaves it as it was. `OverfullIsStale` adds
`PendingEmpty`, that a delivery order has no trucks before its release, without which editing its quantity could
overfill it.

**PfiStock** (`PfiStockProofs`)

| theorem | statement |
|---|---|
| `TypeCorrect` | `Spec => []TypeOK`; in particular no counter goes below zero |
| `NeverOversoldButByTyping` | `Spec => OversoldOnlyByTyping` |
| `FoundIsSum` | `Spec => []FoundIsEntries` |
| `DriftIsStale` | `Spec => CounterDriftsOnlyByStale` |
| `SoundUntilAssign` | `Spec => SoundButForAssign` |

`OversoldOnlyByTyping` needs no strengthening beyond the types: each step either gives litres back
(`ReturnSellsNothing`), reserves under the guard of the update (`ReserveWithinStock`), or takes back a surplus
under the guard that what is sold still fits. The other three use the sums of `SumLemmas` and assume finitely many
orders, PFIs and surplus entries. `DriftIsStale` compares, for every step, the change of the counter with the change of the
sum of what orders hold; it needs `StockInv`: a plan is for an order that is not there yet and within its quantity (`OffersFit`), an absent order
holds nothing (`AbsentEmpty`), an order is for some litres and a live one on a PFI holds some (`OrdersHold`). The two steps it
excludes give back what they read before. `SoundUntilAssign` is the same invariant seen from the orders: no order holds more than its
quantity, and none that is over holds anything, until the end of a bulk assignment breaks it.

**WaPipeline** (`WaPipelineProofs`)

| theorem | statement |
|---|---|
| `TypeCorrect` | `Spec => []TypeOK` |
| `TurnsDoTakeEffect` | `Spec => []TurnsTakeEffect`, from `OneOrder` (`OneOrderPerMessage`) and `ProcessedIsDone` (`ProcessedTookEffect`) |
| `RepliesAreSound` | `Spec => []RepliesSound` |
| `NothingHappensTwice` | `Spec => NothingTwice` |
| `PipelineImplementsInbox` | `Spec => InboxSteps`: WaInbox's initial states and steps, without its fairness |

They hold for any number of messages, handlers and workers and whatever the bounds. `TypeInv` adds to the types that
a handler that is doing something has a message. `OneOrderPerMessage` is then inductive: only `Insert` writes orders
and it looks at the key. `ProcessedTookEffect` needs `EffectInv`: a handler past its save has a message the session
has taken (`SavedSoFar`), one past its replies has a reply on record (`RepliedSoFar`), and a message has a reply only
if the session has taken it (`RepliesSaved`). The last is what the guard relies on when it closes a message without
running its turn: it looks only at the replies.

`RepliesAreSound` and `NothingHappensTwice` rest on `TurnInv`. Its first part, `Alone`, says that a message outside
`crossed` has one live handler and no payment event beside it, so that whatever the handler read still stands when it
writes. The others say what follows for where it is: its local session against the saved one (`TurnsFit`), the replies
recorded against those still to record (`RowsFit`), the cart against the orders placed (`CartFits`), and that what has been
announced as paid is paid (`PaidFits`). `PipelineImplementsInbox` is the refinement step by step. Its
invariant is `InboxInv`: a job, a live handler and a webhook that owes something are all of a message on record. Retries, duplicate
jobs, orphans and the janitor stutter; the statements that close a message or place its order are the steps of the
inbox. That the inbox's promise is eventually kept is liveness and stays with TLC.

**Wallet and Requests** (`WalletProofs`)

| theorem | statement |
|---|---|
| `WalletTypes` | `WalletSpec => []TypeOK` |
| `FreeMeansReversed` | `WalletSpec => []FreeLineIsReversed` |
| `BooksDoBalance` | `WalletSpec => BooksBalanceButForStaleMerge` |
| `RequestTypes` | `Spec => []TypeOKRequests` |
| `RequestsImplementWallet` | `Spec => WalletSpec` |
| `MoneyComesBack` | `Spec => KeepsMoneyOnlyByRace` |
| `CylindersAreAccounted` | `Spec => CylindersDriftOnlyByOverlap` |

`WalletInv` is the types, that a merge has two customers (`MergesTwo`), that the legs of a transfer name each other
(`LegsMeet`) and `FreeLineIsReversed`. `BooksDoBalance` also needs `SpentOnce`: a hold that is active has not been booked as
spent, so converting it writes a new row. Each step then moves both sides of the equation by the same amount: the
ledger side by `LedgerBooks` (one row written), `LedgerTransfers` (two), `LedgerMoves` (all rows of a customer), the holds by
`HeldChanges` and `HeldMoves`, all on `SumLemmas`. The merge that adds a balance it has just read is one of the
cases that balance.

`RequestsImplementWallet` is the refinement: every statement of a desk is a step of the wallet or leaves it alone. It
rests on `RequestInv`, which says what a desk at each step has read (`DesksFine`). With it everything proved of the
wallet holds of the composition. `MoneyComesBack` adds `PaidWasApproved`: whatever has been debited was reviewed first, so a
request that is still under review cannot end with money kept.

`CylindersAreAccounted` adds three sums, what is on the shelf (`OnHand`), what approved requests have reserved (`Reserved`) and
what handlers hold between two statements (`Carried`), and shows that each step moves as much out of one as into another,
unless it is one of the overlaps the property names. `CylinderInv` is the invariant behind it: what a desk carries
fits where it is (`HandsFit`), and a desk that holds the request's row while it puts cylinders back or expires it finds it
approved still and is the only one (`LocksFit`, `LocksApart`). It assumes that no row of the shelf is called "none".

**Notify** (`OfficeProofs`)

| theorem | statement |
|---|---|
| `NotifyTypes` | `Spec => []TypeOK` |
| `EachReachedOnce` | `Spec => []ReachedOnce`, from `NobodyTwice` (`TwiceOnlyIfDeleted`) and `StoppedMeansReached` (`StoppedWasReached`) |
| `AnswersDoStand` | `Spec => AnswersStand` |

`NotifyInv` adds that runs are numbered by the attempts of their job (`Numbered`), that a leg is only as far as its run
(`LegsInOrder`), and that of the runs of one event with a key at most one has the inbox row of a person (`OneInTheBox`).
The last is the unique index; the rest is what shows that a leg which passed the inbox is the one that holds the row.

**Expenses, Commissions, TruckSales** (`OfficeProofs`)

| theorem | statement |
|---|---|
| `ExpenseTypes` | `SpecExpenses => []TypeOKExpenses` |
| `ExpensesDoHold` | `SpecExpenses => []ExpensesHold`, from `PaidIsSigned` and `CargoFollowsAccount` |
| `PaidIsClosed` | `SpecExpenses => ClosedUnlessStale` |
| `CommissionsDoHold` | `SpecCommissions => []CommissionsHold` |
| `PaidStays` | `SpecCommissions => PaidIsHistory` |
| `SalesDoHold` | `SpecTruckSales => []SalesHold` |

`ExpenseInv` strengthens `PaidWasSigned` to every stage (`Signatures`: a request that waits at a stage has the signatures of
all stages before it), and says of every screen what it read and whether that still stands (`Screens`).

`ComInv` says what a handler at each step has read (`TasksFit`), that an order has one commission unless two handlers created
one at once (`OneOfAnOrder`), and that a row of the queue is at the price of today or some handler is still to come by it
(`PricedOrWaiting`): one that has yet to read its queue, or one that read this row and what it read still holds. No row or order
may be called "none".

`TruckInv`: a line is matched exactly while one payment spends it (`SpentOn`); what an upload is about to insert was not among
the rows it compared with (`FreshIsNew`), so a referenced credit is on record once unless two uploads met on it
(`RecordedOnce`); and a truck that nobody has changed by hand has been paid at least what is expected of it if anything was moved
away from it, and that much more than a move under way is about to take (`MoneyIn`). The sums are over finitely many rows and
payments.

**Sessions, Codes, Devices** (`AccessProofs`)

| theorem | statement |
|---|---|
| `SessionsDoHold` | `SpecSessions => []SessionsHold` |
| `OldPasswordsEnd` | `SpecSessions => OldPasswordEnds` |
| `CodesDoHold` | `SpecCodes => []CodesHold` |
| `DevicesDoHold` | `SpecDevices => []DevicesHold` |

`SessInv`: a call knows the session it was shown, and the successor it minted is of the same family, principal and password
(`CallsFit`); two calls mint different successors (`NewsApart`); what is named is on record, and a family is of one principal
(`Recorded`, `FamilyOfOne`); a successor is nobody's until its call has claimed it (`HandedOut`). Among the sessions that are not
waiting to be claimed a family has one that lives (`OneLive`), and none once a session a client knows was ended
(`EndedGone`). The successors left aside are those of a call under way and those that went astray when two calls rotated one token.

`CodesInv`: a handler knows the code it works on and came by the checks that lead to where it stands (`HandlersFine`), an accepted
code is spent for good (`AcceptedIsSpent`), and once a limit is reached, what was counted and the handlers that passed the count
before make together no more than the limit and one less than the handlers there are (`SendsCounted`, `TriesCounted`), for which the
handlers are assumed to be finitely many.

`DeviceInv` is about the handsets where registrations did not overlap and none was cut off: one registration is under way
at most (`OneRegistering`), nothing has replaced its token (`LastStays`), without one a single token lives (`OneLives`), and not all
tokens of a handset that has any are replaced, now or after the purge (`SomeoneRings`).

**Conversation** (`AccessProofs`)

| theorem | statement |
|---|---|
| `ChatsHold` | `SpecChat => []ChatHolds` |
| `TapsGetHeard` | `SpecChat => []TapsAreHeard` |
| `CancelsAreUntold` | `SpecChat => CancelsPaidOnlyUntold` |

From `ConversationAssumption`: positive truck size, limits and litres, and no depot or product that stands for none. `ChatInv` has
three parts. The cart is `Loaded`: it has no trucks, one that carries it all, or announced trucks such that those still to come can
share what remains, one litre each at least and a full truck at most - which `LitresFit` asks of each truck as it is named, and which
needs multiplication, so that `EnoughTrucks` and `LitresGood` are lemmas of their own; that a finished list adds up follows
(`GoodAddsUp`). Every offered button is one that `Hears` says its state reads, given the prices and the last order, or one of the
exceptions; what is outside the chat can change this, and then nothing counts as offered any more. And an order that is awaited and
paid is in `untold` (`PaidUntold`). Each handler is shown to give a `GoodAnswer`, an answer that keeps the three parts when it is saved;
`ReduceGood` puts them together, and `OfferedIsHeard` shows that what `Hears` allows is indeed read.

**SumLemmas** proves, from the definition of `SumFunctionOnSet` as an iterated choice over a finite set, what
the other modules need of a sum: it is an integer, a natural for naturals, zero for zeros, any element can be taken out
first, it depends only on the values added, it changes by the difference where one value changes, it adds over
disjoint sets and over sums of functions, and is kept by an injective renaming. Induction over data is replaced by the
well-foundedness of strict inclusion among the subsets of a finite set (`SmallestSet`).

## Only model-checked

* Liveness under fairness, statements with `ENABLED`, and what recursive definitions compute for every input
  are outside what the proof system can do here: `EverythingSettles`, `QueuedIsHeard` and the fairness in `KeepsPromise`
  (its initial states and steps are `PipelineImplementsInbox`) stay with TLC. Recursion is avoided by folding with `SumFunctionOnSet`.

## Divergences

Where a comment, a test or a text of the repository says one thing and the code does another. `PROJECT.json` quotes
both. `LedgerStranded` is a run that TLC must end with a violation: `removePayment` checks for paid refunds without the
order's lock. For the others the sentence is a definition of its module that no configuration lists, each violated
when it is added to the module's run:

* OrderLedger, PfiStock – `FundedNeverLapses`: an order paid in part between the unlocked staleness check and `expireOrder`
  expires funded. `DeadHoldsNothing`: bulk assignment reserves litres for cancelled and expired orders.
* Wallet, Requests – `BooksBalance`: a merge of two customers adds a balance read earlier. `DetachedIsReversed`: an unmatch that is
  refused has already deleted the attribution. `NeverPaidAndCancelled`: a withdrawal between debit and mark.
* WaPipeline – `MessagesApplyInOrder`: a message that waits for its retry is overtaken by the customer's next one.
* Conversation – `NothingWasCharged`: the chat cancels orders paid for without its knowledge and says nothing was charged.
  `EveryTapIsHeard`: offered buttons that the state they are offered in does not read. `UnpaidIsNoCart`: a customer who was waiting
  to pay is taken back into an empty cart. `OnlyWordsDiscard`: a payment notice empties the cart of the next order.
* Notify – `SurvivesCrash`: what a killed run had not sent is never sent. `RedeliveryResendsNothing`: a recipient without an
  inbox row is messaged again. `SentIsOnRecord`: a record is opened after the send.
* Sessions, Codes, Devices – `DroppedAnswersForgiven`: a second lost answer counts as theft. `DeletedHasNothingOpen`: blockers are read
  without a lock. `OneLiveCode`: two issues leave two live codes. `HandsetRingsOnce`: signing out everywhere leaves push tokens live.
* Expenses, Commissions, TruckSales – `OnlyReviewMoves`: an edit moves the status too. `OneCommission`: two
  overlapping runs raise two. `ClosedDepotOwesNothing`: agreed rates outlive the closing of their depot. `OneLinePerReference`: two
  uploads put one credit on an account twice. `LegsCancel`: one leg of a move can be edited or deleted alone.

Noticed while modelling, without a definition: a surplus transfer can pay an order that was merged away, which
`db/migrations/0056_order_merges.sql:37` says "holds nothing"; marking a truck loaded issues a ticket on an order
nobody paid for or released, where the comment at `order.controller.js:1064` lets only what is paid be ticketed; the
ticketing ceiling counts a truck allocated at release twice; `updateOrder` can settle an order by lowering its price and
leave it Pending; `reverseTransfer` checks for a merge before it holds the order row; the edit form of a PFI can
set a status that `activatePfi` and `finishPfi` guard, and the sold figure itself; deleting an order leaves the
statement lines of its payments MATCHED (`StuckOnlyByDelete`, a part of `LinesAccounted`, says that nothing else does). In
the pipeline: a run that dies between the session save and the first reply is applied again, although the header of
`pipeline.js` calls every step idempotent (`NothingTwice` says that this is all that can be repeated); a run that dies
between two replies loses the later ones, because the guard takes any reply for the whole turn; a webhook that dies
between recording a held message and skipping it leaves it to the janitor, which runs it; the `pendingOrder` guard of
`handleConfirm` is never saved, since the same run replaces the cart; a failed read inside the idempotent replay
tells the customer that an order that exists was not placed. In the chat: the key of a cart (`cartToken`) leaves out the
price, so a cart confirmed again after a change of prices is answered with the first order; depositor entries typed
before "menu" are lost; ordering again does not look at `MIN_ORDER_LITRES` and `MAX_ORDER_LITRES`; a payment in part is
announced as a confirmed payment.

## Not modelled

* **OrderLedger**: the bare `markMatched` route, which no screen calls; the review stamps on payments and their
  ratification; unit prices and the comparison of customers in a merge; audit rows and what is sent after a commit;
  legacy payment rows without a source.
* **PfiStock**: PFIs sold by the truck and their pending batches; deletion of a PFI; which depot and product may
  draw on which PFI; the order in which PFIs are tried; rowless orders older than the allocation table, beyond the
  fallback in `GiveBack`, which no modelled order reaches.
* **Loading**: plates, drivers and compartments; the conversion of a wallet hold on completion (it is `ConvertHold` of
  Wallet); orders without a PFI; the arithmetic of orders without a price; a retry whose litres are written differently
  from the database, which the code does not recognise and the model lets be a new truck.
* **WaPipeline**: sending (`processSend`, staleness of replies, receipts); a session that does not exist yet; dead letters,
  which nothing reads; workers of other phones. **Conversation**: the wording, the paging of lists, link rows, free text
  beyond the kinds the handlers tell apart, the lapse of the duplicate window; failures within a turn, which are
  WaPipeline's.
* **Wallet, Requests**: prices, delivery addresses, stations and their directory, the suggestion of lines for deposits,
  messages sent after a commit.
* **Notify**: the catalogue of texts and the rules of who receives what; the retention sweep of the log; providers beyond
  accepting, refusing and reporting.
* **Sessions, Codes, Devices**: cookies and CSRF tokens; the content of access tokens; passkeys; the proof of a phone number.
* **Expenses, Commissions, TruckSales**: amounts of expenses and their attachments, beneficiaries, delivery notes and batches,
  depot stock, lists and exports.
* **Payments through the provider**: switched off in the code; every call answers with an error or a stub.
* **Scheduler, daily reports, desk nudges**: the expiry sweep is `ExpireOrder`; the rest checks an audit row, mails a fixed
  list and inserts the row, which is the crash window of Notify on a smaller state.
* **Reads and wiring**: gate and work queues, reports, dashboards, price lists, tracking, single-row directories, routes,
  request validation, logging, uploads and clients keep no state of their own or do not interact. They are the larger
  part of the source, which is why the map covers a small share of its lines.
