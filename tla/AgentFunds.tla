----------------------------- MODULE AgentFunds -----------------------------
(***************************************************************************)
(* The rial wallet of one agent: deposits through a gateway or a bank,      *)
(* purchase orders paid from the wallet or on credit, withdrawals, and the  *)
(* settlement of the agent's debt.                                          *)
(*                                                                          *)
(* A transaction is one step, with one exception.  The approval of a        *)
(* deposit that pays an order holds the rows of the deposit and the wallet  *)
(* and looks at the order twice, without its lock and then with it; the     *)
(* order may change in between, so the transaction is two steps and its     *)
(* writes are visible after the second.  What a call reads before its       *)
(* transaction is in call[k].  Any call may die between its steps, which    *)
(* also stands for a transaction the database aborts: the approval locks    *)
(* the wallet before the order and every other payment locks the order      *)
(* before the wallet.                                                       *)
(***************************************************************************)
EXTENDS Integers, FiniteSets, Functions

CONSTANTS Orders, Deposits, Withdrawals, Calls, NoOrder, NoRow,
          Price,             \* total of an order
          Amounts,           \* deposits that pay no order, settlements
          WithdrawalAmount, CreditLimit,
          MaxAdjust          \* bound: net amount of the adjustments, from 0

ASSUME FundsAssumption ==
  /\ IsFiniteSet(Orders) /\ IsFiniteSet(Deposits) /\ IsFiniteSet(Withdrawals)
  /\ Price \in Nat \ {0} /\ WithdrawalAmount \in Nat \ {0}
  /\ Amounts \subseteq Nat \ {0}
  /\ CreditLimit \in Nat /\ MaxAdjust \in Nat
  /\ NoOrder \notin Orders /\ NoRow \notin Orders \cup Deposits

VARIABLES wallet,      \* agent_wallets: balance_rial, blocked_rial
          debt,        \* agents.balance_rial
          active,      \* agents.status is ACTIVE
          order,       \* agent_purchase_orders
          locked,      \* orders whose price is still locked
          deposit,     \* agent_deposit_requests
          open,        \* gateway deposits whose expiresAt is to come
          taken,       \* deposits the gateway has collected
          withdrawal,  \* status of agent_withdrawal_requests
          history,     \* what was settled and adjusted
          call         \* call[k]: what call k has read or holds

vars == <<wallet, debt, active, order, locked, deposit, open, taken,
          withdrawal, history, call>>

OrderStatuses == {"none", "PENDING_PAYMENT", "PAYMENT_REVIEW", "PAID",
                  "APPROVED", "DELIVERED", "CANCELLED", "EXPIRED"}
DepositStatuses == {"none", "PENDING_PAYMENT", "PENDING_REVIEW", "APPROVED",
                    "REJECTED", "FAILED", "EXPIRED"}
WithdrawalStatuses == {"none", "PENDING", "APPROVED", "PAID", "REJECTED",
                       "CANCELLED"}
Idle == [op |-> "idle", on |-> NoRow, amount |-> 0]

Init ==
  /\ wallet = [balance |-> 0, blocked |-> 0]
  /\ debt = 0 /\ active = TRUE
  /\ order = [o \in Orders |-> [status |-> "none", credit |-> FALSE]]
  /\ deposit = [d \in Deposits |->
       [status |-> "none", gateway |-> FALSE, amount |-> 0, order |-> NoOrder]]
  /\ locked = {} /\ open = {} /\ taken = {}
  /\ withdrawal = [w \in Withdrawals |-> "none"]
  /\ history = [settled |-> 0, adjusted |-> 0]
  /\ call = [k \in Calls |-> Idle]

-----------------------------------------------------------------------------
(* The wallet. *)

Smaller(a, b) == IF a < b THEN a ELSE b
NotBelowZero(a) == IF a < 0 THEN 0 ELSE a

Available == wallet.balance - wallet.blocked

\* Nobody locks the wallet while the approval of a deposit holds it.
WalletFree == \A k \in Calls : call[k].op # "paying"
DepositFree(d) == \A k \in Calls : ~(call[k].op = "paying" /\ call[k].on = d)

MayPost(credit, debit, consume) ==
  /\ WalletFree
  /\ consume <= wallet.blocked
  /\ debit <= Available + consume + credit

Post(credit, debit, consume) ==
  wallet' = [balance |-> wallet.balance + credit - debit,
             blocked |-> wallet.blocked - consume]

Block(a) ==
  /\ WalletFree
  /\ a <= Available
  /\ wallet' = [wallet EXCEPT !.blocked = @ + a]

Release(a) ==
  /\ WalletFree
  /\ wallet' = [wallet EXCEPT !.blocked = NotBelowZero(@ - a)]

Begin(k, op, on, a) ==
  /\ call[k] = Idle
  /\ call' = [call EXCEPT ![k] = [op |-> op, on |-> on, amount |-> a]]

End(k) == call' = [call EXCEPT ![k] = Idle]

-----------------------------------------------------------------------------
(* Purchase orders. *)

CanPayNow(o, afterLock) ==
  \/ order[o].status = "PAYMENT_REVIEW"
  \/ order[o].status = "PENDING_PAYMENT" /\ (afterLock \/ o \in locked)

\* What isPayable and payFromWallet both ask of the order and the agent
Payable(o, afterLock) == active /\ CanPayNow(o, afterLock)

\* The price lock is looked at only while the order is unpaid.
SetOrder(o, status) ==
  /\ order' = [order EXCEPT ![o].status = status]
  /\ locked' = locked \ {o}

KeepOrder == UNCHANGED <<order, locked>>

NewOrder(o, status, credit) ==
  /\ order[o].status = "none"
  /\ active
  /\ order' = [order EXCEPT ![o] = [status |-> status, credit |-> credit]]
  /\ UNCHANGED <<debt, active, deposit, open, taken, withdrawal, history, call>>

\* An order paid in the transaction that creates it
createOrderWallet(o) ==
  /\ NewOrder(o, "PAID", FALSE)
  /\ MayPost(0, Price, 0) /\ Post(0, Price, 0)
  /\ UNCHANGED locked

\* The limit is compared with the debt, which an order raises at its approval.
createOrderCredit(o) ==
  /\ NewOrder(o, "PAID", TRUE)
  /\ debt + Price <= CreditLimit
  /\ UNCHANGED <<wallet, locked>>

\* Through a gateway or by bank transfer; payOrder or submitTransfer follows.
createOrderUnpaid(o) ==
  /\ NewOrder(o, "PENDING_PAYMENT", FALSE)
  /\ locked' = locked \cup {o}
  /\ UNCHANGED wallet

\* What payOrder reads; the call then pays from the wallet or asks a gateway.
payOrder(k, o) ==
  /\ order[o].status = "PENDING_PAYMENT" /\ o \in locked
  /\ Begin(k, "pay", o, 0)
  /\ UNCHANGED <<wallet, debt, active, order, locked, deposit, open, taken,
                 withdrawal, history>>

\* payFromWallet, which looks at the order again under its lock
payFromWallet(k) ==
  LET o == call[k].on IN
  /\ call[k].op = "pay" /\ WalletFree
  /\ IF Payable(o, FALSE) /\ MayPost(0, Price, 0)
     THEN Post(0, Price, 0) /\ SetOrder(o, "PAID")
     ELSE UNCHANGED wallet /\ KeepOrder
  /\ End(k)
  /\ UNCHANGED <<debt, active, deposit, open, taken, withdrawal, history>>

NewDeposit(d, status, gateway, a, o) ==
  /\ deposit[d].status = "none"
  /\ deposit' = [deposit EXCEPT ![d] =
       [status |-> status, gateway |-> gateway, amount |-> a, order |-> o]]

\* What the wallet lacks comes from the gateway, which may be out of reach.
startGateway(k, d, answered) ==
  /\ call[k].op = "pay"
  /\ Available < Price
  /\ NewDeposit(d, IF answered THEN "PENDING_PAYMENT" ELSE "FAILED", TRUE,
                Price - Available, call[k].on)
  /\ open' = IF answered THEN open \cup {d} ELSE open
  /\ End(k)
  /\ UNCHANGED <<wallet, debt, active, order, locked, taken, withdrawal, history>>

\* The deposit is created first, the order is moved by a write of its own.
submitTransfer(k, o, d) ==
  /\ order[o].status = "PENDING_PAYMENT" /\ o \in locked
  /\ NewDeposit(d, "PENDING_REVIEW", FALSE, Price, o)
  /\ Begin(k, "sent", o, 0)
  /\ UNCHANGED <<wallet, debt, active, order, locked, open, taken, withdrawal,
                 history>>

transferNoted(k) ==
  LET o == call[k].on IN
  /\ call[k].op = "sent"
  /\ IF order[o].status = "PENDING_PAYMENT"
     THEN SetOrder(o, "PAYMENT_REVIEW") ELSE KeepOrder
  /\ End(k)
  /\ UNCHANGED <<wallet, debt, active, deposit, open, taken, withdrawal,
                 history>>

cancelByAgent(o) ==
  /\ order[o].status = "PENDING_PAYMENT"
  /\ SetOrder(o, "CANCELLED")
  /\ UNCHANGED <<wallet, debt, active, deposit, open, taken, withdrawal,
                 history, call>>

ApprovedDebt(o) == IF order[o].credit THEN debt + Price ELSE debt

\* The bars that the order takes out of the vault are in AgentStock.
approve(o) ==
  /\ order[o].status = "PAID"
  /\ SetOrder(o, "APPROVED")
  /\ debt' = ApprovedDebt(o)
  /\ UNCHANGED <<wallet, active, deposit, open, taken, withdrawal,
                 history, call>>

confirmReceipt(o) ==
  /\ order[o].status = "APPROVED"
  /\ SetOrder(o, "DELIVERED")
  /\ UNCHANGED <<wallet, debt, active, deposit, open, taken, withdrawal,
                 history, call>>

Cancellable(o) == order[o].status \in {"PENDING_PAYMENT", "PAYMENT_REVIEW", "PAID"}

Refund(o) == order[o].status = "PAID" /\ ~order[o].credit

adminCancel(o) ==
  /\ Cancellable(o)
  /\ IF Refund(o) THEN MayPost(Price, 0, 0) /\ Post(Price, 0, 0)
     ELSE UNCHANGED wallet
  /\ SetOrder(o, "CANCELLED")
  /\ UNCHANGED <<debt, active, deposit, open, taken, withdrawal, history,
                 call>>

\* A deposit that may still be paid at the gateway keeps its order open.
AwaitsGateway(o) ==
  \E d \in open : /\ deposit[d].order = o /\ deposit[d].gateway
                  /\ deposit[d].status = "PENDING_PAYMENT"

expireOverdue(o) ==
  /\ order[o].status = "PENDING_PAYMENT" /\ o \notin locked
  /\ ~AwaitsGateway(o)
  /\ SetOrder(o, "EXPIRED")
  /\ UNCHANGED <<wallet, debt, active, deposit, open, taken, withdrawal,
                 history, call>>

-----------------------------------------------------------------------------
(* Deposits. *)

\* expiresAt is looked at only while the deposit is unpaid.
SetDeposit(d, status) ==
  /\ deposit' = [deposit EXCEPT ![d].status = status]
  /\ open' = open \ {d}

KeepDeposit == UNCHANGED <<deposit, open>>

\* A deposit for the wallet alone
createDeposit(d, gateway, a, answered) ==
  /\ NewDeposit(d, IF ~gateway THEN "PENDING_REVIEW"
                   ELSE IF answered THEN "PENDING_PAYMENT" ELSE "FAILED",
                gateway, a, NoOrder)
  /\ open' = IF gateway /\ answered THEN open \cup {d} ELSE open
  /\ UNCHANGED <<wallet, debt, active, order, locked, taken, withdrawal, history,
                 call>>

AtGateway(d) == deposit[d].gateway /\ deposit[d].status = "PENDING_PAYMENT"

\* A callback reads the deposit and asks the gateway.
verified(k, d) ==
  /\ AtGateway(d)
  /\ Begin(k, "verified", d, 0)
  /\ taken' = taken \cup {d}
  /\ UNCHANGED <<wallet, debt, active, order, locked, deposit, open, withdrawal,
                 history>>

\* Also when the callback brings a Status other than OK, which is a refusal
\* without asking, whether or not the money was taken.
refused(k, d) ==
  /\ AtGateway(d)
  /\ Begin(k, "refused", d, 0)
  /\ UNCHANGED <<wallet, debt, active, order, locked, deposit, open, taken,
                 withdrawal, history>>

\* Variant: the refusal is written whatever the deposit has become
failDepositBlindly(k) ==
  /\ call[k].op = "refused" /\ DepositFree(call[k].on)
  /\ SetDeposit(call[k].on, "FAILED")
  /\ End(k)
  /\ UNCHANGED <<wallet, debt, active, order, locked, taken, withdrawal, history>>

failDeposit(k) ==
  LET d == call[k].on IN
  /\ call[k].op = "refused" /\ DepositFree(d)
  /\ IF AtGateway(d) THEN SetDeposit(d, "FAILED") ELSE KeepDeposit
  /\ End(k)
  /\ UNCHANGED <<wallet, debt, active, order, locked, taken, withdrawal,
                 history>>

\* Variant: an approved deposit is approved again
ApprovableAgain(d) ==
  deposit[d].status \in {"PENDING_PAYMENT", "PENDING_REVIEW", "APPROVED"}

Approvable(d) == deposit[d].status \in {"PENDING_PAYMENT", "PENDING_REVIEW"}

\* isPayable, after the deposit has been added to the wallet
PaysOrder(d) ==
  LET o == deposit[d].order IN
  /\ o # NoOrder
  /\ Payable(o, ~deposit[d].gateway)
  /\ Available + deposit[d].amount >= Price

\* approveDepositTx and isPayable: a deposit that pays no order is done.
ApproveTx(k, d) ==
  /\ WalletFree
  /\ IF Approvable(d) /\ PaysOrder(d)
     THEN /\ call' = [call EXCEPT ![k] = [op |-> "paying", on |-> d, amount |-> 0]]
          /\ UNCHANGED wallet /\ KeepDeposit
     ELSE /\ End(k)
          /\ IF Approvable(d)
             THEN Post(deposit[d].amount, 0, 0) /\ SetDeposit(d, "APPROVED")
             ELSE UNCHANGED wallet /\ KeepDeposit
  /\ UNCHANGED <<debt, active, order, locked, taken, withdrawal, history>>

handleGatewayCallback(k) == call[k].op = "verified" /\ ApproveTx(k, call[k].on)

approveDeposit(k, d) ==
  /\ call[k] = Idle
  /\ ~deposit[d].gateway /\ Approvable(d)
  /\ ApproveTx(k, d)

\* payFromWallet after isPayable: it throws when the order has changed, and the
\* transaction takes the credit of the deposit back with it.
finishApproval(k) ==
  LET d == call[k].on
      o == deposit[d].order IN
  /\ call[k].op = "paying"
  /\ IF Payable(o, ~deposit[d].gateway)
     THEN /\ Post(deposit[d].amount, Price, 0)
          /\ SetDeposit(d, "APPROVED")
          /\ SetOrder(o, "PAID")
     ELSE UNCHANGED wallet /\ KeepDeposit /\ KeepOrder
  /\ End(k)
  /\ UNCHANGED <<debt, active, taken, withdrawal, history>>

rejectDeposit(d) ==
  LET o == deposit[d].order IN
  /\ deposit[d].status = "PENDING_REVIEW" /\ DepositFree(d)
  /\ SetDeposit(d, "REJECTED")
  /\ IF o # NoOrder /\ order[o].status = "PAYMENT_REVIEW"
     THEN SetOrder(o, "CANCELLED") ELSE KeepOrder
  /\ UNCHANGED <<wallet, debt, active, taken, withdrawal, history,
                 call>>

Abandoned == {d \in Deposits \ open : AtGateway(d)}

expireGatewayDeposits ==
  /\ Abandoned # {}
  /\ \A d \in Abandoned : DepositFree(d)
  /\ deposit' = [d \in Deposits |->
       IF d \in Abandoned THEN [deposit[d] EXCEPT !.status = "EXPIRED"]
       ELSE deposit[d]]
  /\ UNCHANGED <<wallet, debt, active, order, locked, open, taken, withdrawal,
                 history, call>>

-----------------------------------------------------------------------------
(* Withdrawals, settlements, adjustments and the agent's status. *)

SetWithdrawal(w, status) == withdrawal' = [withdrawal EXCEPT ![w] = status]

createWithdrawal(w) ==
  /\ withdrawal[w] = "none"
  /\ debt <= 0
  /\ Block(WithdrawalAmount)
  /\ SetWithdrawal(w, "PENDING")
  /\ UNCHANGED <<debt, active, order, locked, deposit, open, taken, history, call>>

cancelWithdrawal(w) ==
  /\ withdrawal[w] = "PENDING"
  /\ Release(WithdrawalAmount)
  /\ SetWithdrawal(w, "CANCELLED")
  /\ UNCHANGED <<debt, active, order, locked, deposit, open, taken, history, call>>

approveWithdrawal(w) ==
  /\ withdrawal[w] = "PENDING"
  /\ SetWithdrawal(w, "APPROVED")
  /\ UNCHANGED <<wallet, debt, active, order, locked, deposit, open, taken,
                 history, call>>

rejectWithdrawal(w) ==
  /\ withdrawal[w] \in {"PENDING", "APPROVED"}
  /\ Release(WithdrawalAmount)
  /\ SetWithdrawal(w, "REJECTED")
  /\ UNCHANGED <<debt, active, order, locked, deposit, open, taken, history, call>>

payWithdrawal(w) ==
  /\ withdrawal[w] = "APPROVED"
  /\ MayPost(0, WithdrawalAmount, WithdrawalAmount)
  /\ Post(0, WithdrawalAmount, WithdrawalAmount)
  /\ SetWithdrawal(w, "PAID")
  /\ UNCHANGED <<debt, active, order, locked, deposit, open, taken, history, call>>

\* The amount is cut to the debt read before the transaction.
settleDebtFromWallet(k, a) ==
  /\ debt > 0
  /\ Begin(k, "settle", NoRow, Smaller(a, debt))
  /\ UNCHANGED <<wallet, debt, active, order, locked, deposit, open, taken,
                 withdrawal, history>>

debtSettled(k) ==
  LET a == call[k].amount IN
  /\ call[k].op = "settle" /\ WalletFree
  /\ IF MayPost(0, a, 0)
     THEN /\ Post(0, a, 0)
          /\ debt' = debt - a
          /\ history' = [history EXCEPT !.settled = @ + a]
     ELSE UNCHANGED <<wallet, debt, history>>
  /\ End(k)
  /\ UNCHANGED <<active, order, locked, deposit, open, taken, withdrawal>>

adjustWallet(credit, debit) ==
  /\ history.adjusted + credit <= MaxAdjust
  /\ history.adjusted >= debit
  /\ MayPost(credit, debit, 0) /\ Post(credit, debit, 0)
  /\ history' = [history EXCEPT !.adjusted = @ + credit - debit]
  /\ UNCHANGED <<debt, active, order, locked, deposit, open, taken, withdrawal,
                 call>>

changeStatus ==
  /\ active' = ~active
  /\ UNCHANGED <<wallet, debt, order, locked, deposit, open, taken, withdrawal,
                 history, call>>

-----------------------------------------------------------------------------
(* Time and faults. *)

priceLockPasses(o) ==
  /\ o \in locked
  /\ locked' = locked \ {o}
  /\ UNCHANGED <<wallet, debt, active, order, deposit, open, taken, withdrawal,
                 history, call>>

depositTimePasses(d) ==
  /\ d \in open
  /\ open' = open \ {d}
  /\ UNCHANGED <<wallet, debt, active, order, locked, deposit, taken, withdrawal,
                 history, call>>

callDies(k) ==
  /\ call[k] # Idle
  /\ End(k)
  /\ UNCHANGED <<wallet, debt, active, order, locked, deposit, open, taken,
                 withdrawal, history>>

OrderNext ==
  \/ \E o \in Orders : \/ createOrderWallet(o) \/ createOrderCredit(o)
                       \/ createOrderUnpaid(o) \/ cancelByAgent(o)
                       \/ approve(o) \/ confirmReceipt(o) \/ adminCancel(o)
                       \/ expireOverdue(o) \/ priceLockPasses(o)
  \/ \E k \in Calls, o \in Orders :
       \/ payOrder(k, o)
       \/ \E d \in Deposits : submitTransfer(k, o, d)
  \/ \E k \in Calls : payFromWallet(k) \/ transferNoted(k)
  \/ \E k \in Calls, d \in Deposits, answered \in BOOLEAN :
       startGateway(k, d, answered)

FundingNext ==
  \/ \E d \in Deposits, gateway, answered \in BOOLEAN, a \in Amounts :
       createDeposit(d, gateway, a, answered)
  \/ \E k \in Calls, d \in Deposits :
       verified(k, d) \/ refused(k, d) \/ approveDeposit(k, d)
  \/ \E k \in Calls :
       failDeposit(k) \/ handleGatewayCallback(k) \/ finishApproval(k)
  \/ \E d \in Deposits : rejectDeposit(d) \/ depositTimePasses(d)
  \/ expireGatewayDeposits

OtherNext ==
  \/ \E w \in Withdrawals :
       \/ createWithdrawal(w) \/ cancelWithdrawal(w) \/ approveWithdrawal(w)
       \/ rejectWithdrawal(w) \/ payWithdrawal(w)
  \/ \E k \in Calls, a \in Amounts : settleDebtFromWallet(k, a)
  \/ \E k \in Calls : debtSettled(k) \/ callDies(k)
  \/ adjustWallet(1, 0) \/ adjustWallet(0, 1)
  \/ changeStatus

Next == OrderNext \/ FundingNext \/ OtherNext

Spec == Init /\ [][Next]_vars

-----------------------------------------------------------------------------
(* Properties. *)

TypeOK ==
  /\ wallet \in [balance: Nat, blocked: Nat]
  /\ wallet.blocked <= wallet.balance
  /\ debt \in Int /\ active \in BOOLEAN
  /\ order \in [Orders -> [status: OrderStatuses, credit: BOOLEAN]]
  /\ locked \subseteq Orders
  /\ deposit \in [Deposits -> [status: DepositStatuses, gateway: BOOLEAN,
                               amount: Nat, order: Orders \cup {NoOrder}]]
  /\ open \subseteq Deposits /\ taken \subseteq Deposits
  /\ withdrawal \in [Withdrawals -> WithdrawalStatuses]
  /\ history \in [settled: Int, adjusted: Int]
  /\ call \in [Calls ->
       [op: {"idle", "pay", "sent", "verified", "refused", "paying", "settle"},
        on: Orders \cup Deposits \cup {NoRow}, amount: Int]]

PaidStatuses == {"PAID", "APPROVED", "DELIVERED"}
Bought == {o \in Orders : order[o].status \in PaidStatuses /\ ~order[o].credit}
DepositAmount == [d \in Deposits |-> deposit[d].amount]
Credited == {d \in Deposits : deposit[d].status = "APPROVED"}
WithStatus(S) == {w \in Withdrawals : withdrawal[w] \in S}

\* Every rial of the wallet is explained: what the approved deposits brought,
\* less the orders that are paid, the withdrawals paid out and the debt settled.
\* A deposit credited twice, an order charged twice or refunded twice, however
\* callbacks, admins and cancellations interleave, breaks it.
BalanceExplained ==
  wallet.balance =
    SumFunctionOnSet(DepositAmount, Credited)
      - Price * Cardinality(Bought)
      - WithdrawalAmount * Cardinality(WithStatus({"PAID"}))
      - history.settled + history.adjusted

\* What is reserved is what the open withdrawals ask for, so that a release
\* never frees the money of another request and an approved one can be paid.
BlockedExplained ==
  wallet.blocked =
    WithdrawalAmount * Cardinality(WithStatus({"PENDING", "APPROVED"}))

\* The debt is the approved credit orders less what was settled.
DebtExplained ==
  debt = Price * Cardinality({o \in Orders :
                   order[o].credit /\ order[o].status \in {"APPROVED", "DELIVERED"}})
           - history.settled

\* What a callback, an approval, a cancellation, a withdrawal or a settlement
\* does to one of the three figures of an agent is matched by a row of its own.
FundsExplained == BalanceExplained /\ BlockedExplained /\ DebtExplained

\* The gateway's word is final: a gateway deposit is credited only when the
\* gateway has taken the money, and a refusal never closes a credited one.
CreditedWasTaken ==
  [][\A d \in Deposits :
       /\ deposit[d].gateway /\ deposit'[d].status = "APPROVED" => d \in taken
       /\ deposit[d].status = "APPROVED" => deposit'[d].status = "APPROVED"]_vars
=============================================================================
