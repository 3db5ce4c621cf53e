------------------------------ MODULE Deposit ------------------------------
(***************************************************************************)
(* Bank deposits: a user declares a deposit, pays at a bank, hands in the   *)
(* receipt; an admin reviews it and the wallet is credited.                 *)
(*                                                                          *)
(* Every change of a request is a transaction under the lock of its row and *)
(* is one step.  What is decided before the transaction starts is a step of *)
(* its own: the idempotency key and the daily limit that a new request was  *)
(* checked against, the status and the count of rejections that an upload   *)
(* was checked against while the file is being stored, and the list of      *)
(* overdue requests that the hourly job walks through.                      *)
(*                                                                          *)
(* All of it happens within one day, the period of the daily limit.         *)
(***************************************************************************)
EXTENDS Integers, FiniteSets, Functions

CONSTANTS Users, Sessions,
          MaxRequests,      \* bound: requests ever made
          Keys, NoKey,      \* idempotency keys, and their absence
          DepositAmounts,
          DailyLimit,       \* deposit.<method>.daily_limit, 0 for none
          MAX_REJECTIONS,
          MaxRejections,    \* bound: rejections of one request
          BatchSize,        \* requests the job takes in one pass
          NoUser

Requests == 1 .. MaxRequests

ASSUME DepositAssumption ==
  /\ IsFiniteSet(Users) /\ IsFiniteSet(Sessions)
  /\ MaxRequests \in Nat /\ MaxRejections \in Nat
  /\ DepositAmounts \subseteq Nat \ {0}
  /\ DailyLimit \in Nat
  /\ MAX_REJECTIONS \in Nat \ {0}
  /\ BatchSize \in Nat \ {0}
  /\ NoUser \notin Users /\ NoKey \notin Keys

VARIABLES req,       \* rows of deposit_requests
          proforma,  \* status of the request's pro-forma invoice
          receipts,  \* requests with a row in deposit_receipts
          overdue,   \* unpaid requests whose expiresAt has passed
          balance,   \* wallets.rial_balance
          credits,   \* number of DEPOSIT transactions of a request
          ledger,    \* account balances: bank debit, 2010 credit
          batch,     \* overdue requests the job has still to look at
          tx         \* tx[s]: what session s has checked and not yet written

depositVars ==
  <<req, proforma, receipts, overdue, balance, credits, ledger, batch, tx>>
money == <<balance, credits, ledger>>

Statuses == {"none", "PENDING_PAYMENT", "RECEIPT_UPLOADED", "UNDER_REVIEW",
             "APPROVED", "REJECTED", "CANCELLED", "EXPIRED"}
Methods   == {"LARGE_TRANSFER", "MANUAL"}
Row       == [status: Statuses \ {"none"}, user: Users, amount: DepositAmounts,
              method: Methods, key: Keys \cup {NoKey}, rejections: Nat]
NoRequest == [status |-> "none", user |-> NoUser, amount |-> 0,
              method |-> "MANUAL", key |-> NoKey, rejections |-> 0]

NoCall == [step |-> "idle"]
Session ==
  {NoCall}
    \cup [step: {"create"}, user: Users, amount: DepositAmounts, method: Methods,
          key: Keys \cup {NoKey}]
    \cup [step: {"upload"}, id: Requests]

DepositInit ==
  /\ req = [d \in Requests |-> NoRequest]
  /\ proforma = [d \in Requests |-> "none"]
  /\ receipts = {} /\ overdue = {} /\ batch = {}
  /\ balance = [u \in Users |-> 0]
  /\ credits = [d \in Requests |-> 0]
  /\ ledger = [bank |-> 0, liability |-> 0]
  /\ tx = [s \in Sessions |-> NoCall]

-----------------------------------------------------------------------------
(* The state machine and what the code reads with aggregate queries. *)

TRANSITIONS ==
  [s \in Statuses |->
     CASE s = "PENDING_PAYMENT"  -> {"RECEIPT_UPLOADED", "CANCELLED", "EXPIRED"}
       [] s = "RECEIPT_UPLOADED" -> {"UNDER_REVIEW", "CANCELLED"}
       [] s = "UNDER_REVIEW"     -> {"APPROVED", "REJECTED", "RECEIPT_UPLOADED"}
       [] s = "REJECTED"         -> {"RECEIPT_UPLOADED"}
       [] OTHER                  -> {}]

canTransition(d, to) == to \in TRANSITIONS[req[d].status]

\* A deadline is looked at only while the request is unpaid.
Set(d, status) ==
  /\ req' = [req EXCEPT ![d].status = status]
  /\ overdue' = overdue \ {d}

RequestAmount == [d \in Requests |-> req[d].amount]
SumOf(S) == SumFunctionOnSet(RequestAmount, S)
Own(u)   == {d \in Requests : req[d].user = u}

CountedStatuses == {"PENDING_PAYMENT", "RECEIPT_UPLOADED", "UNDER_REVIEW",
                    "APPROVED"}

\* Variant: approved requests do not count
UsedTodayOpen(u) ==
  SumOf({d \in Own(u) : /\ req[d].method = "MANUAL"
                        /\ req[d].status \in CountedStatuses \ {"APPROVED"}})

\* assertManualAmount: what the user's requests of the day add up to
UsedToday(u) ==
  SumOf({d \in Own(u) : /\ req[d].method = "MANUAL"
                        /\ req[d].status \in CountedStatuses})

KeyTaken(k) == k # NoKey /\ \E d \in Requests : req[d].key = k

-----------------------------------------------------------------------------
(* The user. *)

\* Both kinds of request answer a key that is known with the earlier request.
Declare(s, u, a, m, k) ==
  /\ tx[s] = NoCall
  /\ ~KeyTaken(k)
  /\ tx' = [tx EXCEPT ![s] = [step |-> "create", user |-> u, amount |-> a,
                              method |-> m, key |-> k]]
  /\ UNCHANGED <<req, proforma, receipts, overdue, money, batch>>

create(s, u, a, k) == Declare(s, u, a, "LARGE_TRANSFER", k)

\* Only the manual methods have a daily limit, and only if one is configured.
prepareManual(u, a) == DailyLimit > 0 => UsedToday(u) + a <= DailyLimit

createManual(s, u, a, k) ==
  /\ prepareManual(u, a)
  /\ Declare(s, u, a, "MANUAL", k)

\* The row and, for a large transfer, its pro-forma.  The unique index on the
\* key turns an insert that lost the race (P2002) into the earlier answer.
Insert(s, d) ==
  LET c == tx[s] IN
  IF KeyTaken(c.key) THEN UNCHANGED <<req, proforma>>
  ELSE
  /\ req' = [req EXCEPT ![d] =
               [status |-> "PENDING_PAYMENT", user |-> c.user,
                amount |-> c.amount, method |-> c.method, key |-> c.key,
                rejections |-> 0]]
  /\ proforma' = IF c.method = "LARGE_TRANSFER"
                   THEN [proforma EXCEPT ![d] = "ISSUED"] ELSE proforma

FinishCreate(s, d) ==
  /\ tx[s].step = "create"
  /\ req[d].status = "none"
  /\ \A e \in Requests : e < d => req[e].status # "none"
  /\ Insert(s, d)
  /\ tx' = [tx EXCEPT ![s] = NoCall]
  /\ UNCHANGED <<receipts, overdue, money, batch>>

\* uploadReceipt before the file is stored
MayUpload(d) ==
  /\ canTransition(d, "RECEIPT_UPLOADED")
  /\ req[d].rejections < MAX_REJECTIONS

StartUpload(s, d) ==
  /\ tx[s] = NoCall
  /\ MayUpload(d)
  /\ tx' = [tx EXCEPT ![s] = [step |-> "upload", id |-> d]]
  /\ UNCHANGED <<req, proforma, receipts, overdue, money, batch>>

\* ... and after: only the status is read again.
FinishUpload(s) ==
  /\ tx[s].step = "upload"
  /\ LET d == tx[s].id IN
       IF canTransition(d, "RECEIPT_UPLOADED")
         THEN /\ receipts' = receipts \cup {d}
              /\ Set(d, "RECEIPT_UPLOADED")
         ELSE UNCHANGED <<receipts, req, overdue>>
  /\ tx' = [tx EXCEPT ![s] = NoCall]
  /\ UNCHANGED <<proforma, money, batch>>

CloseProforma(d, status) ==
  proforma' = IF proforma[d] = "none" THEN proforma
              ELSE [proforma EXCEPT ![d] = status]

cancel(d) ==
  /\ canTransition(d, "CANCELLED")
  /\ Set(d, "CANCELLED")
  /\ CloseProforma(d, "CANCELLED")
  /\ UNCHANGED <<receipts, money, batch, tx>>

-----------------------------------------------------------------------------
(* The admin. *)

startReview(d) ==
  /\ canTransition(d, "UNDER_REVIEW")
  /\ Set(d, "UNDER_REVIEW")
  /\ UNCHANGED <<proforma, receipts, money, batch, tx>>

\* Variant: an answer that was already given is given again
MayApproveAgain(d) ==
  /\ canTransition(d, "APPROVED") \/ req[d].status = "APPROVED"
  /\ d \in receipts

MayApprove(d) ==
  /\ canTransition(d, "APPROVED")
  /\ d \in receipts

\* Variant: the liability is posted without the wallet
CreditLedgerOnly(d) ==
  /\ balance' = balance
  /\ credits' = [credits EXCEPT ![d] = @ + 1]
  /\ ledger' = [bank |-> ledger.bank + req[d].amount,
                liability |-> ledger.liability + req[d].amount]

\* The wallet, its DEPOSIT transaction and the journal entry
Credit(d) ==
  /\ balance' = [balance EXCEPT ![req[d].user] = @ + req[d].amount]
  /\ credits' = [credits EXCEPT ![d] = @ + 1]
  /\ ledger' = [bank |-> ledger.bank + req[d].amount,
                liability |-> ledger.liability + req[d].amount]

approveRequest(d) ==
  /\ MayApprove(d)
  /\ Credit(d)
  /\ Set(d, "APPROVED")
  /\ CloseProforma(d, "CONSUMED")
  /\ UNCHANGED <<receipts, batch, tx>>

\* The last allowed rejection also withdraws the pro-forma.
reject(d) ==
  /\ canTransition(d, "REJECTED")
  /\ req[d].rejections < MaxRejections
  /\ req' = [req EXCEPT ![d].status = "REJECTED", ![d].rejections = @ + 1]
  /\ overdue' = overdue \ {d}
  /\ IF req[d].rejections + 1 >= MAX_REJECTIONS
       THEN CloseProforma(d, "CANCELLED")
       ELSE proforma' = proforma
  /\ UNCHANGED <<receipts, money, batch, tx>>

requestNewReceipt(d) ==
  /\ canTransition(d, "RECEIPT_UPLOADED")
  /\ Set(d, "RECEIPT_UPLOADED")
  /\ UNCHANGED <<proforma, receipts, money, batch, tx>>

\* InvoiceService.cancel, from the panel of invoices: the document only, under
\* its own lock, whatever its request is doing.
cancelInvoice(d) ==
  /\ proforma[d] \notin {"none", "CANCELLED", "CONSUMED"}
  /\ proforma' = [proforma EXCEPT ![d] = "CANCELLED"]
  /\ UNCHANGED <<req, receipts, overdue, money, batch, tx>>

-----------------------------------------------------------------------------
(* The hourly job, time, and failures. *)

DeadlinePasses(d) ==
  /\ req[d].status = "PENDING_PAYMENT"
  /\ d \notin overdue
  /\ overdue' = overdue \cup {d}
  /\ UNCHANGED <<req, proforma, receipts, money, batch, tx>>

\* Variant: only requests with a pro-forma are looked for
StaleLarge == {d \in overdue : /\ req[d].status = "PENDING_PAYMENT"
                               /\ proforma[d] # "none"}

Stale == {d \in overdue : req[d].status = "PENDING_PAYMENT"}

CronSelect ==
  /\ batch = {}
  /\ Stale # {}
  /\ \E B \in SUBSET Stale :
       /\ B = Stale \/ Cardinality(B) = BatchSize
       /\ Cardinality(B) <= BatchSize
       /\ batch' = B
  /\ UNCHANGED <<req, proforma, receipts, overdue, money, tx>>

\* Variant: the status is not read again under the lock
StillPendingAlways(d) == TRUE

StillPending(d) == req[d].status = "PENDING_PAYMENT"

CronClose(d) ==
  /\ d \in batch
  /\ batch' = batch \ {d}
  /\ IF StillPending(d)
       THEN Set(d, "EXPIRED") /\ CloseProforma(d, "EXPIRED")
       ELSE UNCHANGED <<req, proforma, overdue>>
  /\ UNCHANGED <<receipts, money, tx>>

\* A transaction of the job fails: the error is logged, the row is skipped.
CronSkip(d) ==
  /\ d \in batch
  /\ batch' = batch \ {d}
  /\ UNCHANGED <<req, proforma, receipts, overdue, money, tx>>

\* The process dies: calls in flight and the job's list are gone.
Crash ==
  /\ batch' = {}
  /\ tx' = [s \in Sessions |-> NoCall]
  /\ UNCHANGED <<req, proforma, receipts, overdue, money>>

\* The storage refuses the file, the user is not verified, ...
GiveUp(s) ==
  /\ tx[s] # NoCall
  /\ tx' = [tx EXCEPT ![s] = NoCall]
  /\ UNCHANGED <<req, proforma, receipts, overdue, money, batch>>

DepositNext ==
  \/ \E s \in Sessions, u \in Users, a \in DepositAmounts, k \in Keys \cup {NoKey} :
       create(s, u, a, k) \/ createManual(s, u, a, k)
  \/ \E s \in Sessions, d \in Requests : FinishCreate(s, d) \/ StartUpload(s, d)
  \/ \E s \in Sessions : FinishUpload(s) \/ GiveUp(s)
  \/ \E d \in Requests :
       \/ cancel(d) \/ startReview(d) \/ approveRequest(d) \/ reject(d)
       \/ requestNewReceipt(d) \/ cancelInvoice(d) \/ DeadlinePasses(d) \/ CronClose(d)
       \/ CronSkip(d)
  \/ CronSelect
  \/ Crash

\* The scheduler starts the job every hour, for ever; a row that it reaches
\* again and again is not skipped every time (a failed transaction, a crash).
DepositSpec ==
  /\ DepositInit /\ [][DepositNext]_depositVars
  /\ WF_depositVars(CronSelect)
  /\ \A d \in Requests : SF_depositVars(CronClose(d))

-----------------------------------------------------------------------------
(* Properties. *)

\* Every variable keeps the form of its table.
DepositTypeOK ==
  /\ req \in [Requests -> Row \cup {NoRequest}]
  /\ proforma \in [Requests -> {"none", "ISSUED", "CONSUMED", "CANCELLED",
                                "EXPIRED"}]
  /\ receipts \subseteq Requests /\ overdue \subseteq Requests
  /\ batch \subseteq Requests
  /\ balance \in [Users -> Nat]
  /\ credits \in [Requests -> Nat]
  /\ ledger \in [bank: Nat, liability: Nat]
  /\ tx \in [Sessions -> Session]

\* A request is credited once if it is approved and not at all otherwise,
\* whatever approvals, rejections, late receipts and runs of the job overlap;
\* and an idempotency key stands for one request (approve, create).
CreditedOnce ==
  /\ \A d \in Requests :
       credits[d] = IF req[d].status = "APPROVED" THEN 1 ELSE 0
  /\ \A d, e \in Requests :
       d # e /\ req[d].key # NoKey => req[d].key # req[e].key

ApprovedOf(u) == {d \in Own(u) : req[d].status = "APPROVED"}

\* A wallet holds what the user's approved requests add up to, and the bank
\* account and account 2010 hold what all wallets do (approve, postJournal).
WalletsExplained ==
  /\ \A u \in Users : balance[u] = SumOf(ApprovedOf(u))
  /\ ledger.liability = SumFunctionOnSet(balance, Users)
  /\ ledger.bank = ledger.liability

\* ``Money that was deposited must not be lost to the timer'': a request for
\* which a receipt was ever handed in does not expire, although the job decides
\* what to close before it holds the row's lock (deposit-expiry.cron.ts:17-20).
\* And although an admin may cancel the pro-forma on its own at any time: it is
\* used exactly when its request is approved, and one that still stands belongs
\* to a request that is still open and was not refused for good.
PaperFollowsRequest ==
  /\ \A d \in receipts : req[d].status # "EXPIRED"
  /\ \A d \in Requests : proforma[d] # "none" =>
       /\ req[d].status = "APPROVED" <=> proforma[d] = "CONSUMED"
       /\ proforma[d] = "EXPIRED" => req[d].status = "EXPIRED"
       /\ proforma[d] = "ISSUED" =>
            /\ req[d].status \notin {"CANCELLED", "EXPIRED"}
            /\ req[d].rejections < MAX_REJECTIONS

\* What a user declared to pay by hand and never had rejected, and what calls
\* in flight are about to add to it
DeclaredBy(u) ==
  {d \in Own(u) : /\ req[d].method = "MANUAL"
                  /\ req[d].rejections = 0
                  /\ req[d].status \in CountedStatuses}

Declares(s, u) ==
  tx[s].step = "create" /\ tx[s].method = "MANUAL" /\ tx[s].user = u

InFlight(u) == [s \in Sessions |-> IF Declares(s, u) THEN tx[s].amount ELSE 0]

\* The daily limit is checked outside the transaction that inserts the
\* request, so concurrent calls may exceed it, but what is declared and what
\* is about to be never adds up to more than one limit per call in flight.
\* (A rejected request that is handed in again counts again; those are left
\* out, see CapOnResubmission in the README.)
CapOvershootBounded ==
  DailyLimit > 0 =>
    \A u \in Users :
      SumOf(DeclaredBy(u)) + SumFunctionOnSet(InFlight(u), Sessions)
        <= DailyLimit * Cardinality(Sessions)

\* What the inductive argument adds: a call in flight found room for its own
\* amount, and a request that stands rejected was rejected before.
CapInv ==
  /\ DailyLimit > 0 =>
       \A s \in Sessions, u \in Users : InFlight(u)[s] <= DailyLimit
  /\ \A d \in Requests : req[d].status = "REJECTED" => req[d].rejections > 0

\* An unpaid request that is overdue does not stay open: the job closes it,
\* unless the user hands in a receipt or cancels first (expireStaleRequests).
OverdueCloses ==
  \A d \in Requests : d \in overdue ~> req[d].status # "PENDING_PAYMENT"
=============================================================================
