----------------------------- MODULE ShopPayment -----------------------------
(***************************************************************************)
(* A shop order from checkout to delivery or cancellation, and its payment  *)
(* from the wallet, through a bank gateway, or from both (MIXED).           *)
(*                                                                          *)
(* pay reads the order, and what it does about it comes later; a gateway    *)
(* callback reads the payment, asks the gateway, and what it does about the *)
(* answer comes later.  Those calls are sessions here, with a step for each *)
(* remote call and for each transaction.  A call may die, or be refused,     *)
(* after any step (Drop): what it has committed by then stays.              *)
(*                                                                          *)
(* captureWalletOnly and reserveWalletHold hold the wallet's row from their *)
(* first read on, so each is one step.  Releasing a hold is not: it locks    *)
(* neither wallet nor hold.  A transaction that releases one looks the hold *)
(* up in one step and writes everything in the next; the ones that close an *)
(* order, and the one that confirms a payment, hold the order's row         *)
(* meanwhile (Locked), which no reservation asks for.                       *)
(*                                                                          *)
(* One user, one wallet; every order is for one unit of one variant.        *)
(* Orders paid in melted gold are not here.                                 *)
(***************************************************************************)
EXTENDS Integers, FiniteSets, Functions

CONSTANTS Orders,
          Gateways,      \* bound: the payments begun at a gateway
          Sessions,
          Modes,         \* the payment modes users choose in this run
          Price,         \* total_rial of every order
          Shares,        \* wallet parts of a MIXED payment
          Opening,       \* the wallet's first balance
          Stock,         \* the variant's first stock
          NoOrder, NoGateway

ASSUME ShopAssumption ==
  /\ IsFiniteSet(Orders) /\ IsFiniteSet(Gateways)
  /\ Modes \subseteq {"WALLET", "GATEWAY", "MIXED"}
  /\ Price \in Nat \ {0} /\ Opening \in Nat /\ Stock \in Nat
  /\ Shares \subseteq 1 .. Price - 1
  /\ NoOrder \notin Orders /\ NoGateway \notin Gateways

VARIABLES status,      \* shop_orders.status
          stock,       \* product_variants.stock_quantity
          balance,     \* wallets.rial_balance
          hold,        \* the ORDER row of wallet_holds, amount 0 if none
          leg,         \* amount of the PENDING WALLET payment, 0 if none
          walletPaid,  \* sum of the order's SUCCESS WALLET payments
          payment,     \* the BANK_GATEWAY payments
          gateway,     \* what the gateway did with them
          declined,    \* history: those a callback said the user gave up
          bought,      \* how many SHOP_PURCHASE transactions the order has
          refunded,    \* whether it has a REFUND transaction
          ledger,      \* account balances, credit positive
          call         \* call[s]: what session s is doing

vars == <<status, stock, balance, hold, leg, walletPaid, payment, gateway,
          declined, bought, refunded, ledger, call>>
money == <<balance, walletPaid, bought, refunded, ledger>>
shelf == <<status, stock>>
reserve == <<hold, leg>>
bank == <<gateway, declined>>

Unpaid  == "PENDING_PAYMENT"
Settled == {"PAID", "PROCESSING", "SHIPPED", "DELIVERED"}
Accounts == {"1010", "2010", "4020"}
NoHold  == [amount |-> 0, live |-> FALSE]

\* A session's call: its next step, and what it is about; share is the
\* wallet's part, or the amount of the hold that a release has found
At(step, o, g, share) ==
  [step |-> step, order |-> o, gateway |-> g, share |-> share]
NoCall == At("idle", NoOrder, NoGateway, 0)

\* A row of payments
Row(o, amount, st) == [order |-> o, amount |-> amount, status |-> st]

\* The steps before which a transaction holds the order's row
Locking == {"close", "void", "finalize"}

Steps   == {"idle", "wallet", "reserve", "begin", "undo", "verify", "commit",
            "refused", "fail"} \cup Locking
Call    == [step: Steps,
            order: Orders \cup {NoOrder}, gateway: Gateways \cup {NoGateway},
            share: 0 .. Price]
Payment == [order: Orders \cup {NoOrder}, amount: 0 .. Price,
            status: {"none", "PENDING", "SUCCESS", "FAILED"}]

Init ==
  /\ status = [o \in Orders |-> "none"]
  /\ stock = Stock
  /\ balance = Opening
  /\ hold = [o \in Orders |-> NoHold]
  /\ leg = [o \in Orders |-> 0]
  /\ walletPaid = [o \in Orders |-> 0]
  /\ payment = [g \in Gateways |-> Row(NoOrder, 0, "none")]
  /\ gateway = [g \in Gateways |-> "none"]
  /\ declined = {}
  /\ bought = [o \in Orders |-> 0]
  /\ refunded = [o \in Orders |-> FALSE]
  /\ ledger = [a \in Accounts |-> 0]
  /\ call = [s \in Sessions |-> NoCall]

-----------------------------------------------------------------------------
(* Pieces of transactions.                                                   *)

Of(o)  == {g \in Gateways : payment[g].order = o}
Held   == SumFunctionOnSet([o \in Orders |-> IF hold[o].live
                                             THEN hold[o].amount ELSE 0], Orders)
End(s) == call' = [call EXCEPT ![s] = NoCall]
Locked(o) == \E s \in Sessions : call[s].order = o /\ call[s].step \in Locking

\* No transaction has written the payment's row and not ended
RowFree(g) ==
  ~\E s \in Sessions : call[s].step = "fail" /\ call[s].gateway = g

\* payment.update, by id alone
Mark(g, st) ==
  payment' = [payment EXCEPT ![g] = Row(payment[g].order, payment[g].amount, st)]

\* Variant: the pending wallet payment is left behind
ReleaseHoldOnly(o, seen) ==
  /\ \/ seen = 0 /\ UNCHANGED hold
     \/ /\ seen > 0
        /\ hold[o].amount = seen
        /\ hold' = [hold EXCEPT ![o] = NoHold]
  /\ UNCHANGED leg

\* releaseOrderWalletHold, after its findFirst: the hold is deleted if it was
\* seen, which throws if the row is gone or replaced; the pending payment fails
\* whether or not.  (A hold of the same amount passes for the same row.)
Release(o, seen) ==
  /\ \/ seen = 0 /\ UNCHANGED hold
     \/ /\ seen > 0
        /\ hold[o].amount = seen
        /\ hold' = [hold EXCEPT ![o] = NoHold]
  /\ leg' = [leg EXCEPT ![o] = 0]

\* payment.updateMany: the order's PENDING gateway payments become FAILED
FailPending(o) ==
  payment' = [g \in Gateways |->
                IF g \in Of(o) /\ payment[g].status = "PENDING"
                THEN Row(o, payment[g].amount, "FAILED")
                ELSE payment[g]]

\* Variant: the wallet's part earns nothing
PostSaleGatewayOnly(fromWallet, fromGateway) ==
  ledger' = [ledger EXCEPT !["2010"] = @ - fromWallet,
                           !["1010"] = @ - fromGateway,
                           !["4020"] = @ + fromGateway]

\* buildSaleJournalLines: from the wallet 2010, from the gateway 1010
PostSale(fromWallet, fromGateway) ==
  ledger' = [ledger EXCEPT !["2010"] = @ - fromWallet,
                           !["1010"] = @ - fromGateway,
                           !["4020"] = @ + Price]

-----------------------------------------------------------------------------
(* The shop.                                                                 *)

Checkout(o) ==
  /\ status[o] = "none"
  /\ stock > 0
  /\ stock' = stock - 1
  /\ status' = [status EXCEPT ![o] = Unpaid]
  /\ UNCHANGED <<money, reserve, payment, bank, call>>

\* Variant: the order's row is not locked first
BeginCloseUnlocked(s, o) ==
  /\ call[s].step = "idle"
  /\ status[o] = Unpaid
  /\ call' = [call EXCEPT ![s] = At("close", o, NoGateway, hold[o].amount)]
  /\ UNCHANGED <<shelf, money, reserve, payment, bank>>

\* cancelByUser, or one turn of expireStaleOrders: the order's row is locked
\* and its status read, and the release has looked for a hold
BeginClose(s, o) ==
  /\ call[s].step = "idle"
  /\ ~Locked(o)
  /\ status[o] = Unpaid
  /\ call' = [call EXCEPT ![s] = At("close", o, NoGateway, hold[o].amount)]
  /\ UNCHANGED <<shelf, money, reserve, payment, bank>>

CancelByUser(s, o) == BeginClose(s, o)
ExpireStale(s, o)  == BeginClose(s, o)

CloseUnpaid(s) ==
  LET o == call[s].order
  IN /\ call[s].step = "close"
     /\ stock' = stock + 1
     /\ Release(o, call[s].share)
     /\ FailPending(o)
     /\ status' = [status EXCEPT ![o] = "CANCELLED"]
     /\ End(s)
     /\ UNCHANGED <<money, bank>>

\* adminCancel, as far as the release's look for a hold
BeginVoid(s, o) ==
  /\ call[s].step = "idle"
  /\ ~Locked(o)
  /\ status[o] \in {Unpaid, "PAID", "PROCESSING"}
  /\ call' = [call EXCEPT ![s] = At("void", o, NoGateway, hold[o].amount)]
  /\ UNCHANGED <<shelf, money, reserve, payment, bank>>

\* Variant: an earlier refund is not looked for
AdminCancelAgain(s) ==
  LET o      == call[s].order
      refund == status[o] \in {"PAID", "PROCESSING"}
  IN /\ call[s].step = "void"
     /\ stock' = stock + 1
     /\ Release(o, call[s].share)
     /\ FailPending(o)
     /\ status' = [status EXCEPT ![o] = "CANCELLED"]
     /\ refunded' = [refunded EXCEPT ![o] = @ \/ refund]
     /\ IF refund
        THEN /\ balance' = balance + Price
             /\ ledger' = [ledger EXCEPT !["4020"] = @ - Price,
                                         !["2010"] = @ + Price]
        ELSE UNCHANGED <<balance, ledger>>
     /\ End(s)
     /\ UNCHANGED <<walletPaid, bought, bank>>

\* The rest of adminCancel: a paid order is refunded to the wallet, once
AdminCancel(s) ==
  LET o      == call[s].order
      refund == status[o] \in {"PAID", "PROCESSING"} /\ ~refunded[o]
  IN /\ call[s].step = "void"
     /\ stock' = stock + 1
     /\ Release(o, call[s].share)
     /\ FailPending(o)
     /\ status' = [status EXCEPT ![o] = "CANCELLED"]
     /\ refunded' = [refunded EXCEPT ![o] = @ \/ refund]
     /\ IF refund
        THEN /\ balance' = balance + Price
             /\ ledger' = [ledger EXCEPT !["4020"] = @ - Price,
                                         !["2010"] = @ + Price]
        ELSE UNCHANGED <<balance, ledger>>
     /\ End(s)
     /\ UNCHANGED <<walletPaid, bought, bank>>

Process(o) == status[o] = "PAID" /\ status' = [status EXCEPT ![o] = "PROCESSING"]
Ship(o) == /\ status[o] \in {"PAID", "PROCESSING"}
           /\ status' = [status EXCEPT ![o] = "SHIPPED"]
Deliver(o) == status[o] = "SHIPPED" /\ status' = [status EXCEPT ![o] = "DELIVERED"]

Fulfil(o) ==
  /\ ~Locked(o)
  /\ Process(o) \/ Ship(o) \/ Deliver(o)
  /\ UNCHANGED <<stock, money, reserve, payment, bank, call>>

-----------------------------------------------------------------------------
(* pay.                                                                      *)

\* payInternal: the status is read here, outside any transaction
Pay(s, o, mode, share) ==
  /\ call[s].step = "idle"
  /\ status[o] = Unpaid
  /\ call' = [call EXCEPT ![s] =
       CASE mode = "WALLET"  -> At("wallet", o, NoGateway, 0)
         [] mode = "GATEWAY" -> At("begin", o, NoGateway, 0)
         [] mode = "MIXED"   -> At("reserve", o, NoGateway, share)]
  /\ UNCHANGED <<shelf, money, reserve, payment, bank>>

\* captureWalletOnly: the order's row is written, once nobody holds it, and
\* not looked at again
CaptureWallet(s) ==
  LET o == call[s].order
  IN /\ call[s].step = "wallet"
     /\ ~Locked(o)
     /\ balance >= Price
     /\ balance' = balance - Price
     /\ walletPaid' = [walletPaid EXCEPT ![o] = @ + Price]
     /\ bought' = [bought EXCEPT ![o] = @ + 1]
     /\ PostSale(Price, 0)
     /\ status' = [status EXCEPT ![o] = "PAID"]
     /\ End(s)
     /\ UNCHANGED <<stock, reserve, payment, bank, refunded>>

\* reserveWalletHold: the order's previous hold counts, then is replaced
ReserveHold(s) ==
  LET o == call[s].order
  IN /\ call[s].step = "reserve"
     /\ balance - Held >= call[s].share
     /\ hold' = [hold EXCEPT ![o] = [amount |-> call[s].share, live |-> TRUE]]
     /\ leg' = [leg EXCEPT ![o] = call[s].share]
     /\ call' = [call EXCEPT ![s] = At("begin", o, NoGateway, call[s].share)]
     /\ UNCHANGED <<shelf, money, payment, bank>>

\* beginGatewayPayment
BeginGateway(s, g) ==
  /\ call[s].step = "begin"
  /\ gateway[g] = "none"
  /\ gateway' = [gateway EXCEPT ![g] = "open"]
  /\ payment' = [payment EXCEPT ![g] =
       Row(call[s].order, Price - call[s].share, "PENDING")]
  /\ End(s)
  /\ UNCHANGED <<shelf, money, reserve, declined>>

\* The gateway is disabled or does not answer: a MIXED payment is undone
BeginFails(s) ==
  /\ call[s].step = "begin"
  /\ call[s].share > 0
  /\ call' = [call EXCEPT ![s] =
       At("undo", call[s].order, NoGateway, hold[call[s].order].amount)]
  /\ UNCHANGED <<shelf, money, reserve, payment, bank>>

UndoReserve(s) ==
  /\ call[s].step = "undo"
  /\ Release(call[s].order, call[s].share)
  /\ End(s)
  /\ UNCHANGED <<shelf, money, payment, bank>>

-----------------------------------------------------------------------------
(* The gateway and its callback.                                             *)

UserAtGateway(g) ==
  /\ gateway[g] = "open"
  /\ \E outcome \in {"paid", "cancelled"} :
       gateway' = [gateway EXCEPT ![g] = outcome]
  /\ UNCHANGED <<shelf, money, reserve, payment, declined, call>>

\* handleGatewayCallback, once or again: the payment's row is read
Callback(s, g) ==
  /\ call[s].step = "idle"
  /\ payment[g].status = "PENDING"
  /\ call' = [call EXCEPT ![s] = At("verify", payment[g].order, g, 0)]
  /\ UNCHANGED <<shelf, money, reserve, payment, bank>>

\* What becomes of a call when the callback does not say OK: the user gave up,
\* and the gateway is not asked, whatever it has done
SaysGivenUp(s) ==
  /\ call' = [call EXCEPT ![s] = At("refused", call[s].order, call[s].gateway, 0)]
  /\ declined' = declined \cup {call[s].gateway}
  /\ UNCHANGED gateway

\* Variant: an answer that is lost counts as a refusal
VerifyLostIsRefused(s) ==
  LET g == call[s].gateway
  IN /\ call[s].step = "verify"
     /\ \/ SaysGivenUp(s)
        \/ /\ gateway[g] = "cancelled"
           /\ call' = [call EXCEPT ![s] = At("refused", call[s].order, g, 0)]
           /\ UNCHANGED bank
        \/ /\ gateway[g] \in {"paid", "captured"}
           /\ \E next \in {"commit", "refused"} :
                call' = [call EXCEPT ![s] = At(next, call[s].order, g, 0)]
           /\ gateway' = [gateway EXCEPT ![g] = "captured"]
           /\ UNCHANGED declined
     /\ UNCHANGED <<shelf, money, reserve, payment>>

\* verifyPayment.  When the user comes back with an OK the gateway is asked, and
\* from then on has his money for good; asked again, it gives the same answer
\* (code 101).
Verify(s) ==
  LET g == call[s].gateway
  IN /\ call[s].step = "verify"
     /\ \/ SaysGivenUp(s)
        \/ /\ gateway[g] = "cancelled"
           /\ call' = [call EXCEPT ![s] = At("refused", call[s].order, g, 0)]
           /\ UNCHANGED bank
        \/ /\ gateway[g] \in {"paid", "captured"}
           /\ call' = [call EXCEPT ![s] = At("commit", call[s].order, g, 0)]
           /\ gateway' = [gateway EXCEPT ![g] = "captured"]
           /\ UNCHANGED declined
     /\ UNCHANGED <<shelf, money, reserve, payment>>

\* The refusing transaction takes the payment's row, and none of the order
CallbackRefused(s) ==
  LET g == call[s].gateway
      o == call[s].order
  IN /\ call[s].step = "refused"
     /\ RowFree(g)
     /\ call' = [call EXCEPT ![s] = At("fail", o, g, hold[o].amount)]
     /\ UNCHANGED <<shelf, money, reserve, payment, bank>>

\* Its writes become visible: whatever the payment was, it is FAILED
FailPayment(s) ==
  /\ call[s].step = "fail"
  /\ Mark(call[s].gateway, "FAILED")
  /\ Release(call[s].order, call[s].share)
  /\ End(s)
  /\ UNCHANGED <<shelf, money, bank>>

\* The wallet's part of a confirmed payment, taken from the hold if the
\* order has a pending wallet payment
TakeLeg(o) ==
  \/ /\ leg[o] = 0
     /\ UNCHANGED <<balance, walletPaid, reserve>>
  \/ /\ leg[o] > 0
     /\ hold[o].live
     /\ balance >= hold[o].amount
     /\ balance' = balance - hold[o].amount
     /\ walletPaid' = [walletPaid EXCEPT ![o] = @ + leg[o]]
     /\ Release(o, hold[o].amount)

\* The confirming transaction: the order's row is locked and the payment's
\* status read again
CallbackCommit(s) ==
  LET o == call[s].order
      g == call[s].gateway
  IN /\ call[s].step = "commit"
     /\ ~Locked(o)
     /\ payment[g].status = "PENDING"
     /\ call' = [call EXCEPT ![s] = At("finalize", o, g, 0)]
     /\ UNCHANGED <<shelf, money, reserve, payment, bank>>

\* Variant: an order that is paid already is sold again
FinalizeAgain(s) ==
  LET o    == call[s].order
      g    == call[s].gateway
      part == IF leg[o] > 0 THEN hold[o].amount ELSE 0
  IN /\ call[s].step = "finalize"
     /\ status[o] \in {Unpaid, "PAID"}
     /\ RowFree(g)
     /\ Mark(g, "SUCCESS")
     /\ TakeLeg(o)
     /\ PostSale(part, Price - part)
     /\ bought' = [bought EXCEPT ![o] = @ + 1]
     /\ status' = [status EXCEPT ![o] = "PAID"]
     /\ End(s)
     /\ UNCHANGED <<stock, bank, refunded>>

\* Variant: the order's status is not read again
FinalizeBlind(s) ==
  LET o    == call[s].order
      g    == call[s].gateway
      part == IF leg[o] > 0 THEN hold[o].amount ELSE 0
  IN /\ call[s].step = "finalize"
     /\ RowFree(g)
     /\ Mark(g, "SUCCESS")
     /\ TakeLeg(o)
     /\ IF status[o] # "PAID"
        THEN /\ PostSale(part, Price - part)
             /\ bought' = [bought EXCEPT ![o] = @ + 1]
             /\ status' = [status EXCEPT ![o] = "PAID"]
        ELSE UNCHANGED <<ledger, bought, status>>
     /\ End(s)
     /\ UNCHANGED <<stock, bank, refunded>>

\* The rest of it: the order is paid, or was paid already.  In every other case
\* it is rolled back, that is, the call is dropped.  A refusal of the same
\* payment that ended since the status was read is overwritten.
Finalize(s) ==
  LET o    == call[s].order
      g    == call[s].gateway
      part == IF leg[o] > 0 THEN hold[o].amount ELSE 0
  IN /\ call[s].step = "finalize"
     /\ status[o] \in {Unpaid, "PAID"}
     /\ RowFree(g)
     /\ Mark(g, "SUCCESS")
     /\ TakeLeg(o)
     /\ IF status[o] = Unpaid
        THEN /\ PostSale(part, Price - part)
             /\ bought' = [bought EXCEPT ![o] = @ + 1]
             /\ status' = [status EXCEPT ![o] = "PAID"]
        ELSE UNCHANGED <<ledger, bought, status>>
     /\ End(s)
     /\ UNCHANGED <<stock, bank, refunded>>

-----------------------------------------------------------------------------
HoldExpires(o) ==
  /\ hold[o].live
  /\ hold' = [hold EXCEPT ![o] = [amount |-> hold[o].amount, live |-> FALSE]]
  /\ UNCHANGED <<shelf, money, leg, payment, bank, call>>

Drop(s) ==
  /\ call[s].step # "idle"
  /\ End(s)
  /\ UNCHANGED <<shelf, money, reserve, payment, bank>>

Next ==
  \/ \E o \in Orders : Checkout(o) \/ Fulfil(o) \/ HoldExpires(o)
  \/ \E s \in Sessions :
       \/ \E o \in Orders : CancelByUser(s, o) \/ ExpireStale(s, o) \/ BeginVoid(s, o)
       \/ \E o \in Orders, m \in Modes, share \in Shares : Pay(s, o, m, share)
       \/ \E g \in Gateways : BeginGateway(s, g) \/ Callback(s, g)
       \/ CloseUnpaid(s)
       \/ AdminCancel(s)
       \/ CaptureWallet(s)
       \/ ReserveHold(s)
       \/ BeginFails(s)
       \/ UndoReserve(s)
       \/ Verify(s)
       \/ CallbackRefused(s)
       \/ FailPayment(s)
       \/ CallbackCommit(s)
       \/ Finalize(s)
       \/ Drop(s)
  \/ \E g \in Gateways : UserAtGateway(g)

Spec == Init /\ [][Next]_vars

-----------------------------------------------------------------------------
(* Properties.                                                               *)

TypeOK ==
  /\ status \in [Orders -> {"none", Unpaid, "CANCELLED"} \cup Settled]
  /\ stock \in Nat /\ balance \in Nat
  /\ hold \in [Orders -> [amount: 0 .. Price, live: BOOLEAN]]
  /\ leg \in [Orders -> 0 .. Price]
  /\ walletPaid \in [Orders -> Nat]
  /\ payment \in [Gateways -> Payment]
  /\ gateway \in [Gateways -> {"none", "open", "paid", "cancelled", "captured"}]
  /\ declined \subseteq Gateways
  /\ bought \in [Orders -> Nat]
  /\ refunded \in [Orders -> BOOLEAN]
  /\ ledger \in [Accounts -> Int]
  /\ call \in [Sessions -> Call]

\* Every rial that left the wallet is a SUCCESS wallet payment, for the amount
\* that was reserved, and every rial that came back is the one refund of its
\* order: in any interleaving of captures, callbacks and cancellations.
WalletExplained ==
  balance = Opening - SumFunctionOnSet(walletPaid, Orders)
              + Price * Cardinality({o \in Orders : refunded[o]})

\* A wallet payment is pending only over a hold of the same amount, so that what
\* a callback takes out of the wallet is what it records, although releases and
\* reservations of one order do not exclude each other.  (The other way round
\* does not hold: a release that saw no hold fails the payment of one that is
\* reserved before it ends, and the hold stays until it expires.)
PendingIsHeld == \A o \in Orders : leg[o] > 0 => hold[o].amount = leg[o]

\* Without payments from the wallet alone: a unit is off the shelf exactly
\* while its order is open or settled, whoever cancels and however often.
StockConserved ==
  stock + Cardinality({o \in Orders : status[o] \in {Unpaid} \cup Settled})
    = Stock

\* Without payments from the wallet alone: an order is sold once, and a
\* cancelled order that was sold is refunded, no other.
SalesAndRefundsPair ==
  \A o \in Orders :
    /\ bought[o] = IF status[o] \in Settled \/ refunded[o] THEN 1 ELSE 0
    /\ refunded[o] => status[o] = "CANCELLED"

\* Without payments from the wallet alone: nothing reopens a cancelled order.
CancelledStays ==
  [][\A o \in Orders : status[o] = "CANCELLED" => status'[o] = "CANCELLED"]_vars

\* Without payments from the wallet alone: money the gateway has taken is
\* turned down for good only because the order was cancelled meanwhile, or
\* because a callback said that the user gave up.  No answer that is late or
\* lost does it.
CapturedOrCancelled ==
  \A g \in Gateways :
    gateway[g] = "captured" /\ payment[g].status = "FAILED"
      => status[payment[g].order] = "CANCELLED" \/ g \in declined

\* What the inductive argument adds: a call that is past the gateway's answer
\* knows the payment it is about and what the gateway did, a payment fails
\* only with its order, at the gateway or by its user, and what a transaction
\* has read of an order under the order's lock stays so.
CallInv(s) ==
  /\ call[s].step # "idle" => call[s].order \in Orders
  /\ call[s].step \in {"verify", "commit", "refused", "fail", "finalize"} =>
       /\ call[s].gateway \in Gateways
       /\ payment[call[s].gateway].order = call[s].order
       /\ payment[call[s].gateway].status # "none"
  /\ call[s].step \in {"refused", "fail"} => \/ gateway[call[s].gateway] = "cancelled"
                                            \/ call[s].gateway \in declined

PaymentInv(g) ==
  /\ payment[g].status = "none" <=> gateway[g] = "none"
  /\ payment[g].status # "none" => payment[g].order \in Orders

FailureExplained(g) ==
  payment[g].status = "FAILED" => \/ status[payment[g].order] = "CANCELLED"
                                 \/ gateway[g] = "cancelled"
                                 \/ g \in declined

LockInv ==
  \A s \in Sessions :
    /\ call[s].step = "close" => status[call[s].order] = Unpaid
    /\ call[s].step = "void" => status[call[s].order] \in {Unpaid, "PAID", "PROCESSING"}
    /\ \A t \in Sessions : {call[s].step, call[t].step} \subseteq Locking /\ s # t
                            => call[s].order # call[t].order

Base ==
  /\ TypeOK /\ PendingIsHeld
  /\ \A s \in Sessions : CallInv(s)
  /\ \A g \in Gateways : PaymentInv(g)

IndInv ==
  /\ Base /\ StockConserved /\ SalesAndRefundsPair /\ LockInv
  /\ \A g \in Gateways : FailureExplained(g)
  /\ \A s \in Sessions : call[s].step # "wallet"

\* The order each status stands for in OrderPromise
Life ==
  [o \in Orders |->
     CASE status[o] = "none"  -> "none"
       [] status[o] = Unpaid  -> "open"
       [] status[o] \in {"PAID", "PROCESSING"} -> "sold"
       [] status[o] \in {"SHIPPED", "DELIVERED"} -> "sent"
       [] OTHER -> IF refunded[o] THEN "refunded" ELSE "closed"]
Promise == INSTANCE OrderPromise WITH life <- Life, shelf <- stock,
                                      income <- ledger["4020"]

\* Without payments from the wallet alone: whatever calls, callbacks,
\* cancellations and expiry do, shelf, orders and revenue account together move
\* only as OrderPromise allows.
PromiseKept == Promise!Spec

\* The wallet is charged for an order only while the order awaits payment.
ChargedWhileUnpaid ==
  [][\A o \in Orders : walletPaid'[o] > walletPaid[o] => status[o] = Unpaid]_vars
=============================================================================
