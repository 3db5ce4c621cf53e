# Verification of arkangold

TLA+ specifications of the parts of arkangold's API (`src/api/src`, NestJS,
Prisma, PostgreSQL, Redis) that move gold, money, stock and titles,
model-checked with TLC on small instances and, where noted, proved with TLAPS
for every value of their constants. The code at this commit is the reference;
file names below are relative to `src/api/src` unless they start with `src/`.

| module | what it models | proofs |
|---|---|---|
| `ZarPayeshTrade` | a melted-gold order, its price lock, and its report to the trade supervisor (ZarPayesh) | `ZarPayeshTradeProofs` |
| `SupervisedOrders` | what reporting promises of a sale, its approval and its record; implemented by `ZarPayeshTrade` | in `ZarPayeshTradeProofs` |
| `WalletWithdrawal` | the rial wallet, withdrawal requests, their holds, approvals and journal entries | `WalletWithdrawalProofs` |
| `ShopPayment` | a shop order from checkout to delivery or refund, and its payment | `ShopPaymentProofs` |
| `OrderPromise` | what the shop promises of an order, its unit and its price; implemented by `ShopPayment` | in `ShopPaymentProofs` |
| `Deposit` | a bank deposit from its declaration to the credit | `FundsProofs` |
| `Bullion` | a coded bar: its assignment, transfers, reports of theft or loss, and its sale back to the shop | `BullionProofs` |
| `BarTitle` | what the services promise about the title to a bar; implemented by `Bullion` | in `BullionProofs` |
| `AgentFunds` | an agent's wallet and debt: deposits, orders, withdrawals, settlements | `FundsProofs` |
| `AgentStock` | the bars that pass through agents, the grams in the books, the titles and the debt | `AgentStockProofs` |
| `GoldHolds` | the gold of the users' wallets: reservations, physical delivery, bars paid in melted gold, transfers | `GoldHoldsProofs` |

`MCZarPayesh`, `MCWallet`, `MCShop`, `MCDeposit`, `MCBullion`, `MCAgentFunds`,
`MCAgentStock` and `MCGoldHolds` give model values and bounds; every `*.cfg` is one run.
`SumFacts` holds the lemmas about sums over finite sets that six of these components
need. `PROJECT.json` maps each definition to the lines it translates. To run one:
`tlc -config Deposit_live.cfg MCDeposit`; to check proofs: `tlapm FundsProofs.tla`.

A module describes one component's tables at the grain of its transactions. One
that takes its lock first and keeps it is one step; what is read before the
transaction, decided between two locks, or asked of somebody else is a step of
its own, kept in a variable of the call (`job`, `tx`, `call`). An operator
marked `Variant:` is not part of a specification: it is the form a plausible
mistake would take, against which the property named in `PROJECT.json` was tried.

## 1. Inventory

The API is one NestJS process, or several behind a balancer. There is no
in-process shared state that matters: everything the components share is in
PostgreSQL (READ COMMITTED, explicit `SELECT ... FOR UPDATE`) and Redis (keys
with a time to live). A handler awaits at every query, so handlers of one
process interleave exactly as those of two do. Cron jobs are handlers without a
caller.

| component | state | operations | correct when | here |
|---|---|---|---|---|
| Supervisor reporting (`zarpayesh/`) | `zarpayesh_trades` | reserve, approve, cancel, follow-up, reconcile (cron), the panel's manual operations | an order exists only if the supervisor approved it, and vice versa, or a person is told | 2 |
| Melted-gold trading (`market/trading.service.ts`) | `price_locks`, `orders`, both sides of `wallets` | lock a price, confirm it (`createOrder`) | a lock is executed once; the wallet pays for what it gets out of its free balance | 2, 3, 9, partly |
| Wallet (`wallet/`) | `wallets`, `wallet_holds`, `withdrawal_requests`, `approvals`, `transactions` | request, cancel, approve, reject, pay, markReturned, adjustBalance, internalTransfer | the balance is explained by the transactions, holds are covered, two people decide on large sums, limits hold | 3, 9, partly |
| Shop orders (`shop-orders/`) | `shop_orders`, `payments`, `wallet_holds`, variant stock | checkout, pay (WALLET, GATEWAY, MIXED), callback, cancel, expire (cron), admin cancel, process, ship, deliver | stock, payments, holds and books agree whatever interleaves | 4, partly |
| Payment gateways (`payment-gateway/`) | none | request, verify | a verification is repeatable | as the environment of 4 and 7 |
| Deposits (`deposit/`) | `deposit_requests`, `deposit_receipts`, pro-formas | create, receipt, cancel, review, approve, reject, new receipt, expire (cron) | a deposit is credited once; money handed in does not expire | 5 |
| Holograms (`hologram/`) | `hologram_codes`, ownerships, transfer requests, incident reports | assign, give, confirm, reject, expire, report, review, revoke | one owner; code, owner and request agree; no transfer under a report | 6, partly |
| Buyback (`buyback/`) | `bullion_buyback_requests` | submit, accept, receive, inspect, offer, answer, approve, pay, return, expire (cron) | one open request per bar; paid at the price agreed to, by two people | 6 |
| Agents (`agent/`) | `agent_wallets`, `agents.balance_rial`, orders, deposits, withdrawals, sales, settlements, buyback orders | order, pay, deposit, withdraw, settle; consign, sell, void, sell back | balance, reservations and debt are explained; grams follow bars | 7, 8, partly |
| Accounting (`accounting/`) | `accounts`, `journal_entries`, `ledger_entries` | postJournal, reverseJournal, manual entries, closing | every entry balances, one reversal per entry | as effects of 3, 4, 5, 8 |
| Price feed (`market/price.service.ts`) | latest quotes | poll every 30 s | a trade never uses a quote that is too old | |
| Gold-bar orders (`shop-orders/gold-bar-delivery.service.ts`) | gold holds, orders | buy a bar with melted gold | the gold taken is the gold reserved | 9, partly |
| Physical delivery (`physical-delivery/`) | requests, gold holds | request, approve, ship, deliver, cancel, expire (cron) | gold delivered was held for it | 9 |
| Cart, discount, packaging | carts with price locks, quota of a code | add, price, expire (cron), evaluate | the quota is not exceeded | |
| Partners (`partners/`) | partner orders, partner balance | confirm, settle, cancel | the credit limit holds | |
| Treasury (`treasury/`) | vault inventory | counts, settlements | book and vault agree | |
| Authentication (`auth/`, `admin-auth/`, `security/`) | sessions, one-time codes, lockouts | login, refresh, reset | a token is used once | |
| Audit (`common/audit`) | two hash chains | record, verifyChain | the chain breaks exactly when a record was changed | |
| Document numbers (`common/documents`) | `document_sequences` | next | no gap, no duplicate | |
| Resilience (`common/resilience`) | circuit breaker in memory | execute | one probe at a time | |
| Referral, shipping, labels, users, kyc, bank, addresses, catalog, invoice, transactions, tickets, livechat, notifications, announcements, payroll, branding, configuration, integrations | their tables | create, edit, list | no behaviour of several steps that the parts above rely on | |
| `src/admin`, `src/app`, `src/packages` | browser state | user interfaces | the API checks every rule again | |

**How they interact.** Trading calls the supervisor client inside its database
transaction. Trading, wallet, shop, deposits, physical delivery and referrals
write the same row of `wallets` under its row lock, each with its own check of
the holds. Shop, trading, wallet, deposits and agents post journal entries in
their own transaction. Transfers, reports, buyback and the agents' services all
write the row of a bar in `hologram_codes`, under its lock. The gateway calls
back over HTTP; the supervisor is only asked. Cron jobs change the same rows as
users and admins.

**What is hard here.** A remote call inside a transaction, whose answer may be
lost while the call is executed late; copies of rows read before an await and
written after it; a status or a limit checked outside the transaction that acts
on it; several attempts to pay one order; callbacks that come twice, late or
never; expiry jobs against callbacks and receipts; row locks taken in different
orders; a report of theft against a confirmation that has passed its checks;
crashes between a remote success and a local commit. The `hazards` of
`PROJECT.json` name each one with its line and the properties that watch it, or
say why none does.

## 2. ZarPayeshTrade

`createOrder` (`market/trading.service.ts:290-540`) and the supervisor handlers
(`zarpayesh/zarpayesh-trade.service.ts`). A *request* is one call of
`createOrder`, or of `testReserve` for members of `TestRequests`; members of
`Unreported` run while reporting is switched off.

| state | code |
|---|---|
| `req[r]` | where the call is, the lock it is about, `supervisor.approved`, `committed` |
| `trade[r]` | the row of `zarpayesh_trades`, written outside the order's transaction; `dated` says that it has a `reserveExpireAt` |
| `remote[r]` | what the supervisor holds for that transaction number |
| `net` | calls that timed out here and may still be executed there, or never |
| `orders`, `used`, `rowLock` | COMPLETED orders, `price_locks.used`, who holds `FOR UPDATE` |
| `lapsed`, `age` | a lock's expiry; a reservation's age (fresh, past `expireAT`, past 24 h) |
| `job[a]` | the handler that request, admin or cron job `a` is inside, with the row copy it works on |

Each remote call is two actions, the call and the write of its outcome, so any
other actor may run in between. Outcomes are: accepted, refused, an unclear
answer, and a lost one. `ExecuteLate` lets a lost call take effect at any later
time. `TxTimeout` is the transaction's time limit (`:525`, 45 seconds), `Crash` and
`JobCrash` are the death of the process.

| run | question | states |
|---|---|---|
| `ZarPayesh_race` | two reported calls on one lock, cron job running: no order without approval, and the promise below | 480 508 |
| `ZarPayesh_admin` | one call, crashes, cron job and admin acting at any time: a committed order stays traceable in its trade row | 1 495 562 |
| `ZarPayesh_live` | a reported call and an admin's test reservation under the cron job, no crashes: both rows end closed and truthful, or flagged, except a test reservation that has no expiry | 438 885 |

*Bounds.* One lock, since requests on two locks share nothing; two requests,
which is every pair of a race; one admin and one cron job, since a handler keeps
a copy of at most one row. Nothing that can grow is counted. Members of
`Unreported` appear in no run; the proofs cover them.

*Fairness* (`Fairness`): a call that has started keeps taking steps (the event
loop runs every continuation; a call that never returns is cut off by the
client's time limit, modelled as a lost answer), the cron job fires and its
query, ordered by age, reaches each row, and time passes. Nothing is assumed of
callers, of admins or of the supervisor, which may lose every call. Liveness is
checked where no process dies and no admin acts: what a death leaves behind is
in section 10. An admin's manual follow-up (`:551-616`) writes its outcome over
whatever the row has become since it was read: one that asked before Reserve was
executed turns RESERVED into FAILED, which the cron job does not pick, so
liveness cannot be claimed with an admin; safety is, in `ZarPayesh_admin`.

*Proved.* `OneOrderPerLock`, `OrderHasApproval`, `OrderTraceable` and `TypeOK`,
for any sets of requests, locks, admins and cron jobs. None of the first three is inductive.
`IndInv` adds where a call may be given what it has done (`RequestInv`: only an
approved call reaches `commit`; approval is final at the supervisor), what a
committed order implies (`OrderInv`), that the row lock is held by the one call
between reading `used` and committing (`LockInv`), and that a handler which has
a positive answer in hand is right about it (`JobInv`). The proof first shows
types, then a frame lemma per group of actions (who changes whose request, lock
or job), and then one step per action.

*The promise.* `SupervisedOrders` has four variables: to whom a price was sold,
what the supervisor approved, which records say so, and which lead to an order or
to a person. A price is sold once, to an approved and traced request; the
supervisor only ever adds approvals; a record may lose what it knows, as an old
copy written back does, but never claims an approval that was not given, and never
loses the way to a sale. `ZarPayeshTrade` implements it with `sold` read off `orders`
and the calls' locks. `Commit` is `Sell` or a stutter, everything that writes a
row is `Write`, the supervisor's answers are `Approve` or a stutter. `ZarPayesh_race`
checks it as `SupervisionKept`; `SupervisionAlwaysKept` proves it for every value of
the constants. Beyond `IndInv` the proof needs `ClaimsTrue`: what a row, a copy of a
row or an answer in a handler's hand says of an approval is true, because
approval is final. Each step changes one request at the supervisor, or one row,
or commits one order (`Effect`), and each kind is one step of the promise.

*Model-checked only.* `Converges` and `ApprovedRollbackFlagged` (liveness).
`Converges` leaves out a test reservation without an expiry (`NeverExpires`),
which the cron job skips for ever (`LeftToAdmin`; section 10).

## 3. WalletWithdrawal

`wallet/wallet.service.ts` (request, cancel) and `wallet/wallet-admin.service.ts`
(approve, reject, pay, markReturned, adjustBalance).

| state | code |
|---|---|
| `balance` | `wallets.rial_balance` |
| `req`, `held`, `txn`, `approval`, `journal` | the rows a request owns in `withdrawal_requests`, `wallet_holds`, `transactions`, `approvals`, `journal_entries` |
| `ledger` | `accounts.balance_rial`, credit positive |
| `moved` | sums of the other COMPLETED transactions of a wallet, by type |
| `day` | the day in Tehran |
| `tx[s]` | the transaction session `s` has in flight, and the rows it has locked |

A transaction that locks, reads and writes later is two actions (`PayBegin`,
`PayCommit`, and so on): whatever does not need its locks happens in between.
One that takes its only lock first and keeps it is one action. `Abort` rolls
back a transaction in flight. `adjustBalance` reads the balance *before* it
locks the wallet, a request computes its limits after: both orders are kept.
`BuyGold`, `SellGold` and `ShopCapture` are the wallet legs of trading and shop,
with the check of the holds that each really makes.

| run | question | states |
|---|---|---|
| `Wallet_race` | two requests, two admins, two transactions in flight, over midnight, among all other writers: the four tables of a request agree, dual control, limits, decisions stand; balance, liability (2010), bank (1010) and fees (4090) explain each other; holds are only uncovered by those who ignore them | 873 471 |

*Bounds.* One user: limits, holds and balances are per user and the operations
here touch one wallet. Two transactions in flight are every pair. Amounts 20 and
30 lie on both sides of the dual-control threshold (30), the daily limit is 40
and the monthly 50, so that 20 + 30 must be refused on one day and 30 + 30 in
one month. The wallet opens with 20: a larger or a second request needs money that
another writer brings first. The fee is 5 % + 1, at most 2: it is capped for 30
and not for 20. `MaxMoved` bounds what each of the other writers moves.

*Proved*, all of it: `TypeOK` (no balance is ever negative), `TablesAgree`,
`DualControl`, `DecisionsStand`, and the sums `LimitsHold`, `WalletExplained`,
`BooksExplained` and `HoldsCoveredButForced`, for any finite sets of users and
requests and any admins, sessions, limits, fees and amounts.
`IndInv` adds that a session holding a request's row still sees the status it
read, and that no two sessions hold the same row (`SessionInv`), and which
approvals a status calls for (`RequestInv`). That is exactly what the row locks
buy: without `RequestFree` the invariant falls, which is one of the mutants.

The sums stand on `IndInv`, which says what a step finds (a payment finds its
request APPROVED, its transaction PENDING and its hold in place). Each step
changes one request (`RowStep`), so each sum moves by that request's part or
not at all, and the balance, account and hold move with it: `Money`, one lemma
per action that writes, `StillMoney` for the rest. `LimitsHold` is not inductive:
a request is inserted in a later step than the one that added up the others.
`LimitsInv` says that there is still room when it is, because the wallet's lock
keeps other requests of that user out and a midnight in between only makes the
day's sum smaller, no request being of a day to come.

## 4. ShopPayment

`shop-orders/shop-orders.service.ts` and `shop-order-fulfillment.service.ts`.

| state | code |
|---|---|
| `status`, `stock` | `shop_orders.status`, the variant's stock |
| `balance`, `ledger` | the wallet and accounts 1010, 2010, 4020 |
| `hold`, `leg` | the order's row in `wallet_holds`, its PENDING wallet payment |
| `walletPaid`, `payment` | its SUCCESS wallet payments, its gateway payments |
| `gateway` | what the bank did with a payment: the environment |
| `bought`, `refunded` | its SHOP_PURCHASE and REFUND transactions |
| `declined` | history: the payments of which a callback said that the user gave up |
| `call[s]` | where a call of `pay`, a callback or a cancellation is, and the hold that its release has seen |

`payInternal` reads the order outside any transaction and acts later; a callback
reads the payment, asks the gateway and commits later. Those steps are actions
of a session. A callback whose `Status` is not OK is a refusal without asking
(`SaysGivenUp`), whatever the gateway has done; anybody may send one.

`captureWalletOnly` and `reserveWalletHold` hold the wallet's row from their
first read to their end and are one action each. `releaseOrderWalletHold` locks
nothing: it looks for a hold and then writes, and a reservation may commit in
between. So each transaction that calls it is two actions, the look and the
writes (`Release`): `BeginClose` and `CloseUnpaid` (a user's cancellation, an expiry),
`BeginVoid` and `AdminCancel`, `CallbackRefused` and `FailPayment`, `BeginFails`
and `UndoReserve`. The first two pairs hold the order's row between their steps,
as does the confirming transaction (`CallbackCommit`, `Finalize`): `Locked`. A
reservation asks for no such lock. `Drop` ends a call
after any step, as an error or the death of the process does. The user at the
bank pays, turns back, or does neither.

| run | question | states |
|---|---|---|
| `Shop_wallet` | two orders for the last unit, all payment modes, two sessions: money out of and into the wallet is explained; a wallet payment is pending only over a hold of its amount | 1 097 004 |
| `Shop_gateway` | two orders for the last unit, two gateway payments, two sessions, mixed payments: stock, sales, refunds, captured money, and the promise below | 1 422 025 |
| `Shop_charge` | a violation, see section 10 | |

*Bounds.* In `Shop_wallet` two orders compete for one unit, and for a wallet of 5
that pays one order alone (3) but not two; the second order gets the unit when
the first is cancelled. In `Shop_gateway` two gateway payments let one order be
attempted twice, or each order once; all are mixed, so that every callback and
cancellation has a hold to meet (a payment through the gateway alone is a mixed
one whose leg was released, and is itself in `Shop_wallet`). Two sessions are
every pair of a race. The price is 3 and the wallet's part of a mixed payment 1,
so that the parts differ.

*Proved.* `TypeOK` (neither stock nor balance is ever negative) and
`PendingIsHeld` for all payment modes; `StockConserved`, `SalesAndRefundsPair`,
`CapturedOrCancelled` and `CancelledStays` under the assumption
`"WALLET" \notin Modes`. The assumption is needed: a payment from the wallet
alone revives a cancelled order (`Shop_charge` below), and the theorems say that
nothing else does. `IndInv` adds that a call past the gateway's answer is right
about it (`CallInv`), that a payment's row and the gateway's agree
(`PaymentInv`), why a payment may have failed (`FailureExplained`), and that what a
transaction read of an order stays so while it holds the order's row, and that
no two hold the same one (`LockInv`). The
proof splits the state into five independent groups (shelf, money, reserve,
payment rows, calls) with a frame lemma each, so that a step proves only the
groups it changes.

`WalletExplained` is proved for all payment modes, `WALLET` included, since it
needs only `Base`: a payment adds to one order's `walletPaid` what it takes
(`WalletPays`), and only an admin's cancellation gives back, once per order.
So even the charges of `Shop_charge` are all on record.

*The promise.* `OrderPromise` says what all this is for, in three variables: an
order takes a unit from the shelf when placed, earns its price once when sold,
and gives both back, each once, when closed or refunded. Attempts, holds,
gateways and calls are gone. `ShopPayment` implements it with `life` read off
`status` and `refunded` (`Life`), `shelf` being the stock and `income` account
4020. `Checkout` is `Place`, `Finalize` is `Sell` or a stutter,
`CloseUnpaid` is `Close`, `AdminCancel` is `Close` or
`Refund`, shipping is `HandOver`, everything else a stutter. `Shop_gateway`
checks it as `PromiseKept`; `ShopKeepsPromise` proves it under the same
assumption, one lemma per action over `IndInv`, with `LifeMoves` to show that a
step about one order moves no other. The invariant is needed: that a refund is
paid exactly when a sold order is cancelled is `SalesAndRefundsPair`.

## 5. Deposit

`deposit/deposit.service.ts` (declare, hand in, cancel),
`deposit/deposit-admin.service.ts` (review, approve, reject, ask for a new
receipt), `deposit/deposit-expiry.cron.ts`, and `cancel` of
`invoice/invoice.service.ts`.

| state | code |
|---|---|
| `req[d]` | the row of `deposit_requests`: status, user, amount, method, idempotency key, rejections |
| `proforma[d]` | the status of its pro-forma invoice |
| `receipts` | requests with a row in `deposit_receipts` |
| `overdue` | unpaid requests whose `expiresAt` has passed |
| `balance`, `credits`, `ledger` | `wallets.rial_balance`, the request's DEPOSIT transactions, the bank account and account 2010 |
| `batch` | what the hourly job has selected and not yet looked at |
| `tx[s]` | what a call has checked and not yet written |

A new request is checked against its idempotency key and the daily limit in
`create` or `createManual` and inserted in `FinishCreate`; a receipt is checked
in `StartUpload`, stored, and written in `FinishUpload`. The job selects in
`CronSelect` and closes one row at a time in `CronClose`, which reads the status
again under the row's lock. `cancelInvoice` is the panel's
`InvoiceService.cancel`, which takes the lock of the document alone: a pro-forma may
be cancelled while its request goes on, and is still marked as used when the request
is approved, so that a cancelled pro-forma says nothing of its request. A daily
limit of 0 means that there is none. `GiveUp`, `CronSkip` and `Crash` are what may fail.
All other operations are one transaction under the request's lock.

| run | question | states |
|---|---|---|
| `Deposit_live` | two requests and two calls among admins, the job, its failures and crashes: credited once, key used once, wallet and books explained, a pro-forma is used exactly when its request is approved and stands only while it is open, a receipt stops the timer, the limit is exceeded by calls in flight only, an overdue request is closed | 723 581 |

*Bounds.* One user with a daily limit of 1 and requests of 1, so a second request
is one too many; two requests and two calls are every pair of a race; one key,
which both may carry; one rejection, which is also `MAX_REJECTIONS`, so that a
request is refused for good; a job that takes one row at a time has to come back.
All of it happens within one day.

*Fairness.* The scheduler starts the job every hour for ever (`WF` of
`CronSelect`), and a row that the job reaches again and again is not skipped
every time (`SF` of `CronClose`: neither every transaction fails nor every turn
dies). Nothing is assumed of users, admins or calls.

*Proved*, all but the liveness: `DepositTypeOK`, `CreditedOnce`,
`PaperFollowsRequest`, `WalletsExplained` and `CapOvershootBounded`, for any finite
sets of users and sessions, any amounts, limits and keys, and any number of requests.
`DepositIndInv` adds that a
request with a receipt has left PENDING_PAYMENT for good (which is why the timer
cannot take it: `CronClose` looks again), and that a request which was not made
has no pro-forma. `Sources` reads off the state machine which status each status
comes from; then there is one lemma per action.

The two sums are kept on top of it. A wallet changes in one action, `Credit`, by
the amount of the one request that becomes APPROVED; whatever else a step does,
the approved requests and their amounts stay (`ApprovedStay`). For the limit,
most steps only end calls in flight or take a request out of what counts
(`Fading`); a request inserted moves its amount from the calls to the requests
(`InsertCap`), and a call that starts saw that the requests left room for its
own amount, while every other call carries at most the limit
(`CreateManualCap`). That last bound is `CapInv`.

*Model-checked only.* `OverdueCloses` (liveness).

## 6. Bullion and BarTitle

`hologram/hologram.service.ts`, `hologram-transfer.service.ts`,
`hologram-incident.service.ts` with `hologram-incident.util.ts`, and
`buyback/buyback.service.ts`. Three services write a bar's row; none of them
owns it.

| state | code |
|---|---|
| `code[b]`, `owner[b]` | `hologram_codes.status`, the ACTIVE row of `hologram_ownerships` |
| `transfer[t]` | `ownership_transfer_requests`: status, bar, kind, invited person, past its deadline |
| `report[r]` | `hologram_incident_reports` |
| `sale[k]` | `bullion_buyback_requests`: status, price offered, price agreed to, who approved and who paid |
| `tx[s]` | a call that holds one row and waits for the next, or has read and not yet locked |

Four operations are more than one step. A confirmation checks, asks the identity
service (`StartConfirm`), locks the request (`LockConfirm`) and then the code
(`FinishConfirm`). A report checks and locks the code (`createByOwner`,
`createByAdmin`), and then needs the pending request (`FinishReport`): the other
order. A payment locks the buyback request (`LockPay`) and then the code
(`FinishPay`). Where two wait for each other PostgreSQL aborts one, which is
`Abort`, as are a refusal, an error and a crash.

| run | question | states |
|---|---|---|
| `Bullion_race` | one bar, two users, two admins, two transfers, a report, a buyback and two calls in flight: code, owner, transfer and buyback tell one story; a report freezes the bar; a sale is paid as agreed and by two people; the title keeps the promise below | 782 884 |

*Bounds.* One bar, since every operation is about one bar and its rows. Two
transfers: one being confirmed while the next is opened; a report and a buyback
against each. Prices 1 and 2 lie on both sides of the dual-control threshold (2)
and let an offer be renewed at another price. Two calls in flight are every pair,
among them the cycles confirm–report and confirm–pay.

*The promise.* `BarTitle` has a holder, an invited person and an agreed price per
bar: the treasury issues, a holder (or the treasury) invites one person, only
that person takes over, and the bar returns to the treasury at a price its
holder agreed to. `Bullion` implements it with `title` being `owner`, `invited`
the person named by the pending transfer, `agreed` the price of a sale that is
ACCEPTED or APPROVED; `TitleKept` is checked in `Bullion_race`.

*Proved.* `TypeOK`, `OneStory`, `ReportFreezes` and `PaidAsAgreed`, for any bars,
users, admins, prices and calls in flight. `OneStory` and `ReportFreezes` are
not inductive: a call between two locks acts on what it knew. `IndInv` adds what it
knows (`SessionInv`: a request locked for confirmation is still PENDING, a bar
locked for a report is still unreported and, when a user reports it, owned; a
request locked for payment is still APPROVED, and by another admin when it must
be) and that no row is held twice (`Apart`). Each step is about one bar; `BarStep` says that the others keep
their story, so every action proves it for its own bar.

`TitleAlwaysKept` proves the promise for every value of the constants: over
`IndInv`, each action is the step of `BarTitle` for its own bar, or a stutter.
The invariant is what makes `invited` and `agreed` well defined (one pending
transfer, one open sale), and says that a bar is never both given and sold.

## 7. AgentFunds

`agent/agent-funds.service.ts`, `agent-wallet.service.ts`,
`agent-order-payment.service.ts`, the orders of `agent-purchase.service.ts` and
the status of `agent.service.ts`, for one agent.

| state | code |
|---|---|
| `wallet` | `agent_wallets`: balance and blocked |
| `debt`, `active` | `agents.balance_rial`, `agents.status` |
| `order[o]`, `locked` | `agent_purchase_orders`; orders whose price is still locked |
| `deposit[d]`, `open` | `agent_deposit_requests`; gateway deposits whose `expiresAt` is to come |
| `taken` | deposits whose money the gateway has taken: the environment |
| `withdrawal[w]` | `agent_withdrawal_requests` |
| `history` | what was settled from the wallet, and adjusted |
| `call[k]` | what a payment, a callback or a settlement has read or holds |

A callback reads the deposit, asks the gateway, and commits: three steps; one
whose `Status` is not OK is a refusal without asking. The
transaction that approves a deposit and pays its order holds deposit and wallet
and looks at the order twice, without its lock and with it (`finishApproval`
rolls back when the second look finds it changed). A settlement reads the debt
before its transaction. `callDies` ends a call anywhere, which also stands for
a deadlock: this approval locks wallet before order, all other payments order
before wallet.

| run | question | states |
|---|---|---|
| `AgentFunds_race` | an order, two deposits, a withdrawal, two calls in flight, admins, both jobs, suspension: balance, reservations and debt are explained by the rows; what is credited was taken | 721 686 |

*Bounds.* One order of 2; deposits that pay it, or bring 1; two deposits can pay
one order twice, as a retried payment does; a withdrawal of 1 competes for the
same money; two calls are every pair; an admin adjusts by 1 at most. No
fairness is assumed: both jobs may run or not.

*Proved*, all of it: `TypeOK`, which says that the wallet is never overdrawn and
what is reserved is there, `FundsExplained` and `CreditedWasTaken`,
for any finite sets of orders, deposits and withdrawals, any amounts and calls in flight. `TypeOK` is
not inductive: the second step of an approval pays without asking for the
balance again. `IndInv` adds that one call at a time holds the wallet
(`OnePays`), and what each call knows (`CallInv`): the deposit behind an
approval in flight is still approvable and covers, with the wallet, the order's price; a callback
that goes on has had its money collected. Reservations and debt are then
followed one request and one order at a time (`BlockedInv`, `DebtInv`).

The balance is followed by `MoneyInv`: the deposits approved, the orders bought and
the withdrawals paid each change by one member at a time, and the wallet by its
amount (`Books`). It needs that an order still to be paid was not made on credit
(`UnpaidCash`), for a paid credit order would count as bought.

## 8. AgentStock

`agent/agent.service.ts` (consignment and settlements), `agent-sale.service.ts`,
`agent-buyback.service.ts`, the bars of `agent-purchase.service.ts`, and what a
transfer or a buyback does to a customer's bar (`titleTransferred`,
`customerSold`).

| state | code |
|---|---|
| `bar[b]` | `hologram_codes`: status and agent |
| `title[b]` | the sale that the ACTIVE ownership comes from; `Third` after it was passed on |
| `undelivered` | bought bars that the agent has not received |
| `grams[b]` | net journal lines for the bar in 1025 (vault) and 1030 (consigned) |
| `sale`, `settlement`, `buyback` | `agent_sales`, `agent_settlements`, `agent_buyback_orders` with their items |
| `debt[a]` | `agents.balance_rial` |
| `purchases` | a counter, for the bound |
| `call[k]` | a quote a sale relies on, an order read for approval |

| run | question | states |
|---|---|---|
| `AgentStock_race` | one agent, two bars, two sales, two sales back to the company, a settlement, a quote or an approval in flight: grams, titles and debt follow the bars | 723 628 |

*Bounds.* Two bars, so that an order has one item accepted and another refused;
two sales, so that a bar is sold, voided and sold again; two buyback orders,
so that an order that was ended meets its successor about the same bar; the
credit limit (2) is the cost of one consigned bar.

*Proved*, all of it: `TypeOK`, `AccountsExplained` (`BooksFollowBars` and
`DebtExplained`), `HeldBarHasOrder`, `TitleFollowsBar` and `TakenBySaleOnly`, for any agents, bars,
sales, orders and settlements. The conjunction is inductive once a sale is known
to name its agent and bar (`SalesKnown`); the debt needs that only finitely many
sales and settlements exist in any state (`DebtInv`), and then each step adds or
removes at most one member of a set.

## 9. GoldHolds

The gold of users: `physical-delivery/physical-delivery.service.ts`, the orders
of `shop-orders/gold-bar-delivery.service.ts` with their part of
`shop-orders.service.ts` (callback, cancellation, expiry), `internalTransfer` of
`wallet/wallet.service.ts`, and the gold that trades and admins move.

| state | code |
|---|---|
| `gold[u]` | `wallets.gold_balance_grams`; the wallets are numbered in the order of their ids |
| `request[d]` | `physical_delivery_requests`: status, user, grams |
| `order[o]` | `shop_orders` with funding_source MELTED_GOLD: status, user, grams taken or reserved |
| `hold[x]` | `wallet_holds` of a request or an order: none, live, or past its end and not deleted |
| `stock` | bars on the shelf |
| `payment[o]`, `gateway[o]` | the order's gateway payment; what the bank did with it (the environment) |
| `books` | account 2020, and `vault_gold_inventory` summed by type |
| `sweep` | what the hourly job has read and not yet looked at |
| `call[k]` | where a payment, a callback or a transfer is, and the wallets it has locked |
| `history` | gold bought and added, less what was sold; gold taken without a look at the holds |

An operation that locks the row of its request or order first and keeps it is
one action, and waits while a transfer has its wallet. A transfer locks two
wallets: `internalTransfer` takes the smaller, `transfer` the larger. A payment
is begun at the gateway after the order was committed (`orderReserved`,
`beginGatewayPayment`); a callback asks the gateway, or says without asking that
the user gave up (`handleGatewayCallback`),
and then confirms (`finalize`) or fails the payment (`paymentRefused`) and
cancels (`cancelUnpaidGoldOrder`). `callDies` and `jobDies` are crashes between
two steps, `holdLapses` is time.

| run | question | states |
|---|---|---|
| `GoldHolds_live` | two wallets, a delivery, an order, two calls, trades, admins, both jobs, lapsing holds and crashes: gold and bars are in one place; the books follow; gold is reserved for whoever waits, and covered but for those who ignore reservations; transfers do not wait in a circle; what has lapsed is closed | 458 032 |

*Bounds.* Two wallets with a gram each and one to be bought: a request and an
order can reserve different grams of one wallet, or want the same. A bar weighs
1 and costs 1 more, so gold pays for it alone or not. Two calls are two
opposite transfers, or a callback twice, or a callback against a transfer. One
gram may be deducted by force.

*Fairness* (`Fairness`). The hourly job reads again and again (weak), a request
that it has read again and again is taken in the end although jobs die (strong),
and the job for orders reaches each order (weak). Nothing is assumed of users,
admins, the gateway or calls.

*Abstractions.* Only grams: the fee of a delivery and the wallet's share of an
order in rial may refuse a step and change no gold. What follows PAID is in
`ShopPayment`; cancelling a paid order is here because it gives gold back. The
bank's decision shows when the callback asks for it.

*Proved*, all but the liveness: `TypeOK` (no wallet is ever overdrawn),
`HoldFollowsOwner`, `TransfersNeverCross`, `GoldConserved`, `BooksFollowGold`
and `HoldsCoveredButForced`, for any number of wallets, requests, orders, calls
and grams. Two invariants, one on top of the other. `Shape` adds to the types
that a row in use names its user (`Named`) and that a transfer between its steps
holds exactly the smaller of its wallets (`CallsHold`); from this a circle is
impossible, since whoever waits holds a smaller wallet than the one waited for.
`Ledger` has the properties that are sums. Each action changes one owner's row
(`Only`), so each sum changes by that owner's part (`SumsStep`, `HeldStep`), and
an action has only to show that its parts balance (`LedgerStep`); steps on the
wallets alone use `LedgerGold`.

*Sums* (`SumFacts`). The library defines a sum by recursion over the subsets of a set, and
its induction theorems cannot be used here. `SumsExist` shows that the table of all
subsets' sums exists, by looking at a least size up to which there is none; every other fact
about sums, from `SumRemove` to `SumStep` (one member changes, comes or goes),
looks in such a table at a smallest subset for which it would fail. The proofs of
sections 3, 4, 5, 7 and 8 use the same lemmas.

*Model-checked only.* `StaleCloses` (liveness).


## 10. Where code and documentation part

One run violates a property; `PROJECT.json` quotes the lines.

| run | what happens |
|---|---|
| `Shop_charge` | `captureWalletOnly` does not check the order's status again: two payments charge twice, and a payment that meets a cancellation charges for a cancelled order and revives it. |

### Deviations

These were met while modelling. The modules follow the code, and their
properties are stated so that they hold of it.

*Reporting.* The process dies after Approve and before the commit: the row stays
APPROVED without an order, and reconcile selects only RESERVING, RESERVED and
UNKNOWN (`zarpayesh/zarpayesh-trade.service.ts:662`), so nobody is told
(`src/docs/zarpayesh/README.md:52` promises "needs review"). A test reservation
whose answer was lost becomes RESERVED by a follow-up that knows no expiry
(`:604-608`); reconcile skips such a row for ever, before the check of its age
(`:674-680`; the comment says "until it expires"), so it is neither closed nor flagged. Hence
`NeverExpires` in `Converges`.

*Holds.* `captureWalletOnly` ignores `wallet_holds`
(`shop-orders/shop-orders.service.ts:776`): a shop purchase spends rials reserved
for a withdrawal, which `wallet/wallet.service.ts:414` and
`market/trading.service.ts:397-398` look at. Hence `HoldsCoveredButForced`.

*Shop.*
- A second mixed attempt fails and releases the wallet's part; the first
  attempt's gateway payment alone makes the order PAID (`shop-orders.service.ts:1118`
  against `:721`).
- A second confirmed gateway payment posts no entry (`:1105`): account 1010
  misses money received.
- A release that found no hold fails the wallet payment of a reservation which
  commits before the release ends (`:1193-1213` against `:859-914`): rials stay held, until
  the hold expires, for a payment that has failed, and the order is paid by its gateway
  part alone. Hence `PendingIsHeld` is an implication.
- A callback whose `Status` is not OK is a refusal, and the gateway is not asked
  (`payment-gateway/zarinpal-gateway.service.ts:144-152`). When the money was
  captured and the commit failed, such a callback marks the payment FAILED
  while its order awaits payment; and the refusing write looks at no status
  (`shop-orders.service.ts:992-996`), so it also turns a payment that was confirmed
  meanwhile from SUCCESS to FAILED. Hence `declined` in `CapturedOrCancelled`.

*Deposits.*
- A request that was REJECTED does not count towards the daily limit, and counts
  again when a new receipt is handed in, without a new check
  (`CapOnResubmission`); `CapOvershootBounded` leaves such requests out.
- `requestNewReceipt` is to bring the request back to the sending of a receipt
  (`deposit/deposit-admin.service.ts:600`), but sets RECEIPT_UPLOADED, from which
  an upload is refused. It also starts from REJECTED, so a request can be
  reviewed and rejected without an end.

*Bars.*
- The owner's answer to an offer names no price (`buyback/buyback.service.ts:767`):
  one that meets a renewed offer accepts the new price. `PaidAsAgreed` is about
  the price that stood when the answer was served.
- `pay` looks for a report before it waits for the code's row
  (`buyback/buyback.service.ts:1459`, `:1466`): a bar reported meanwhile is paid for.
- `revokeCode` refuses an ASSIGNED code but revokes one whose owner's gift is
  pending (`hologram/hologram.service.ts:469`, `:488`): a REVOKED code with an
  owner. `OneStory` says nothing of REVOKED codes.
- When the bank account is no longer verified, `pay` asks for a new approval
  (`buyback.service.ts:1455`), which an APPROVED request does not admit; only
  `requestReturn` is left.

*Agents' funds.*
- The credit limit is checked when an order is made
  (`agent/agent-purchase.service.ts:394`) and the debt booked when it is approved
  (`:777`): several orders exceed the limit together (`:6-7` says within it).
- When a second look finds the order changed, the whole transaction is undone,
  deposit included (`agent-funds.service.ts:544-545` and
  `agent-order-payment.service.ts:30-33` say that it stays). A repeated callback credits it.
- Two settlements from the wallet at once may settle more than the debt
  (`agent-funds.service.ts:1046`), which then is negative.
- A deposit whose money the gateway took, but which was closed as EXPIRED or
  FAILED before the answer came, or by a callback whose `Status` is not OK, is
  not credited by a later callback.
- An order in PAYMENT_REVIEW stays there when its transfer is approved while the
  agent is suspended, or rejected before the order was updated; only an admin's
  cancellation ends it.

*Gold.*
- A reservation for a bar lasts 15 minutes (`shop-orders/gold-bar-delivery.service.ts:50`),
  its order 30 (`shop-orders.service.ts:39`). A payment confirmed in between is
  refused (`:232`) although the gateway took the money, and stays PENDING until
  the order is cancelled.
- `approve` of a delivery takes a reservation that has lapsed for a valid one, and
  compares with the whole balance
  (`physical-delivery/physical-delivery.service.ts:393`, `:408`; its message at
  `:398` says "not found or expired"): gold reserved for somebody else is
  delivered. `adjustBalance` ignores reservations of gold too. Hence
  `HoldsCoveredButForced`.
- Cancelling an approved delivery sets its fee's transaction, which was
  COMPLETED, to FAILED, and adds a COMPLETED refund of the same fee
  (`:688-705`): summed by status, the fee is returned twice. The fee is not in
  the module.

*Agents' stock.* `approve` writes APPROVED over whatever the order has become
since it was read (`agent-buyback.service.ts:377`, `:385`). An order that was
rejected may then be paid, if its bars wait again for another order, which is
left without them; the books stay right, as proved.

## 11. Not modelled

*Left out of the modules.*
- Calls that are refused, and idempotent replies to repeated calls, change
  nothing and are stutters. `payBatch` is `pay` repeated.
- Prices, weights, discounts, packaging, shipping, cost of goods, invoices,
  document numbers, notifications and texts: no modelled decision reads them. A
  shop order is for one unit at one price; its orders with total 0 are not
  here, and those paid in melted gold are in `GoldHolds`. A bar's offer may be any price.
- The user's identity and bank account are taken as verified; ownership checks
  (`userId`) always pass.
- Configuration is constant. In the code the dual-control threshold is read
  before the transaction, so a change takes effect one payment later.
- A failing database write after a successful Approve is a crash or a time limit
  at the same place.
- `Bullion` has no bars of agents, `AgentStock` no reports and no transfers other
  than `titleTransferred`. A bar's weight is constant, although `allocate` may
  overwrite it and a sale uses its quote's. `AgentFunds` has no
  refusal because of overdue credit, no TERMINATED agent and no delivery dates; what the company
  pays for an agent's bars enters the wallet as other credits do.
- Deadlocks of row locks (`captureWalletOnly` locks wallet then order, the
  callback order then wallet; a confirmation and a report; an agent's approval)
  are broken by PostgreSQL with an error in one of them, which is `Drop`,
  `Abort` or `callDies`. So a run that stops is no error of the system: requests
  are finite, and the runs say `CHECK_DEADLOCK FALSE`.

*Left out as components.* Those with an empty last column in section 1, and those
that `PROJECT.json` lists as not_modelled with the reason: most of the API's
lines, and all of the front ends, are records that are created, edited and
listed in one transaction each, screens, and texts. What is left with a
behaviour of several steps is in the plan.

*Out of the provers' reach.* Liveness under fairness (`Converges`,
`ApprovedRollbackFlagged`, `OverdueCloses`, `StaleCloses`) stays with TLC, on the bounds above. Every
invariant, action property and refinement that a run checks is proved; those of
`Shop_gateway` under the assumption that section 4 explains, which that run makes too.

## 12. Plan

Modules, in this order:

1. **PartnerOrders**: exposure read without a lock, the credit limit.
2. **Checkout**: idempotency key, discount quota, cart expiry against checkout.
3. **Journal** (account rows updated in line order, reversal with its unique
   key), **AuditChain** (two chains, order of creation times), **Sessions**
   (reset and refresh tokens in Redis), **CircuitBreaker**.

Proofs: with each of these modules, its invariants.
