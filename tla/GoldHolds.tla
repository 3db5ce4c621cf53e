------------------------------ MODULE GoldHolds ------------------------------
(***************************************************************************)
(* The gold of the users' wallets, and what reserves it and takes it out:   *)
(* requests for physical delivery, orders of a bar paid in melted gold,     *)
(* transfers between wallets, trades and admins' adjustments.               *)
(*                                                                          *)
(* A reservation is a row of wallet_holds with an end; it counts against    *)
(* what may be spent only until then, and the row stays until someone       *)
(* deletes it.  A transaction that locks the row of a request or an order   *)
(* first is one step here, and waits for a wallet another call has locked.  *)
(* A transfer locks two wallets, and takes a step for each.  The payment of *)
(* an order at the gateway, its callback and the hourly job are calls with  *)
(* steps, that may die between them.                                        *)
(*                                                                          *)
(* Grams only: the rial parts (the fee of a delivery, the wallet's share of *)
(* an order) may refuse a step, and are in WalletWithdrawal and ShopPayment.*)
(***************************************************************************)
EXTENDS Integers, FiniteSets, Functions

CONSTANTS N,           \* the users' wallets are 1 .. N, ordered as their ids
          Requests, Orders,
          Calls,       \* bound: calls in flight at a time
          Amounts,     \* grams of a request and of a transfer
          Weight,      \* grams of the bar
          Premium,     \* its price above them, in grams
          MinGold,     \* physical_delivery.min_gold_grams
          Opening,     \* the gold of every wallet at first
          Stock,       \* bars on the shelf at first
          MaxBought,   \* bound: grams bought or added, less those sold
          MaxDeducted, \* bound: grams of a wallet an admin deducts
          NoOrder

ASSUME GoldAssumption ==
  /\ N \in Nat
  /\ IsFiniteSet(Requests) /\ IsFiniteSet(Orders)
  /\ Requests \cap Orders = {} /\ NoOrder \notin Orders
  /\ Amounts \subseteq Nat \ {0}
  /\ Weight \in Nat \ {0} /\ Premium \in Nat /\ MinGold \in Nat \ {0}
  /\ Opening \in Nat /\ Stock \in Nat
  /\ MaxBought \in Nat /\ MaxDeducted \in Nat

VARIABLES gold,      \* wallets.gold_balance_grams
          request,   \* physical_delivery_requests
          order,     \* shop_orders with funding_source MELTED_GOLD
          hold,      \* wallet_holds of a request or an order
          stock,     \* product_variants.stock_quantity
          payment,   \* status of the order's BANK_GATEWAY payment
          gateway,   \* what the gateway did with it
          books,     \* account 2020 and vault_gold_inventory by type
          sweep,     \* stale holds the hourly job has read
          call,      \* the calls in flight
          history    \* grams bought, and taken without a look at the holds

vars == <<gold, request, order, hold, stock, payment, gateway, books,
          sweep, call, history>>
shop == <<order, stock, payment, gateway>>
rest == <<sweep, call, history>>

Users  == 1 .. N
NoUser == 0
Owners == Requests \cup Orders
Free   == [op |-> "idle", order |-> NoOrder, from |-> NoUser, to |-> NoUser,
           grams |-> 0, has |-> {}]
Row    == [status |-> "none", user |-> NoUser, grams |-> 0]

Init ==
  /\ gold = [u \in Users |-> Opening]
  /\ request = [d \in Requests |-> Row]
  /\ order = [o \in Orders |-> Row]
  /\ hold = [x \in Owners |-> "none"]
  /\ stock = Stock
  /\ payment = [o \in Orders |-> "none"]
  /\ gateway = [o \in Orders |-> "none"]
  /\ books = [liability |-> Opening * Cardinality(Users), physical |-> 0,
              reserved |-> 0, transit |-> 0]
  /\ sweep = {}
  /\ call = [k \in Calls |-> Free]
  /\ history = [bought |-> 0, forced |-> [u \in Users |-> 0]]

-----------------------------------------------------------------------------
(* Pieces of transactions.                                                  *)

Smaller(a, b) == IF a < b THEN a ELSE b
NotBelowZero(a) == IF a < 0 THEN 0 ELSE a
RowOf(x) == IF x \in Requests THEN request[x] ELSE order[x]

\* Nobody else has locked the wallet's row.
WalletFree(u) == \A k \in Calls : u \notin call[k].has

Grams == [x \in Owners |-> RowOf(x).grams]
GramsOf(S) == SumFunctionOnSet(Grams, S)

\* What the wallet's reservations that have not lapsed come to
HoldsOf(u) == {x \in Owners : hold[x] = "live" /\ RowOf(x).user = u}
Held(u) == GramsOf(HoldsOf(u))
Available(u) == gold[u] - Held(u)

SetHold(x, state) == hold' = [hold EXCEPT ![x] = state]
SetRequest(d, status) == request' = [request EXCEPT ![d].status = status]

\* Gold leaves a wallet.
Take(u, g) == gold' = [gold EXCEPT ![u] = @ - g]

\* An entry of the books, and the movements of the vault
Post(liability, physical, reserved, transit) ==
  books' = [liability |-> books.liability + liability,
            physical  |-> books.physical + physical,
            reserved  |-> books.reserved + reserved,
            transit   |-> books.transit + transit]

Note(u, bought, forced) ==
  history' = [bought |-> history.bought + bought,
              forced |-> [history.forced EXCEPT ![u] = @ + forced]]

End(k) == call' = [call EXCEPT ![k] = Free]
Goes(k, op, o) ==
  call' = [call EXCEPT ![k] = [Free EXCEPT !.op = op, !.order = o]]

-----------------------------------------------------------------------------
(* Requests for physical delivery.                                          *)

createInternal(d, u, g) ==
  /\ request[d].status = "none"
  /\ WalletFree(u) /\ g <= Available(u)
  /\ request' = [request EXCEPT ![d] =
                  [status |-> "PENDING", user |-> u, grams |-> g]]
  /\ SetHold(d, "live")
  /\ UNCHANGED <<gold, books, shop, rest>>

\* What cancelByUser and adminCancel do to a request that waits
CancelPending(d) ==
  /\ request[d].status = "PENDING"
  /\ SetRequest(d, "CANCELLED") /\ SetHold(d, "none")
  /\ UNCHANGED <<gold, books, shop, rest>>

\* A hold that has lapsed but was not yet deleted will do, and the amount is
\* compared with the whole balance.
approve(d) ==
  LET u == request[d].user
      g == request[d].grams
  IN /\ request[d].status = "PENDING" /\ hold[d] # "none"
     /\ WalletFree(u) /\ gold[u] >= g
     /\ Take(u, g)
     /\ SetRequest(d, "APPROVED") /\ SetHold(d, "none")
     /\ Post(-g, -g, g, 0)
     /\ Note(u, 0, IF hold[d] = "live" THEN 0 ELSE g)
     /\ UNCHANGED <<shop, sweep, call>>

ship(d) ==
  /\ request[d].status = "APPROVED"
  /\ SetRequest(d, "SHIPPED")
  /\ Post(0, 0, -request[d].grams, request[d].grams)
  /\ UNCHANGED <<gold, hold, shop, rest>>

deliver(d) ==
  /\ request[d].status = "SHIPPED"
  /\ SetRequest(d, "DELIVERED")
  /\ Post(0, 0, 0, -request[d].grams)
  /\ UNCHANGED <<gold, hold, shop, rest>>

\* Variant: the entry in the books is not taken back
BooksAfterCancelVaultOnly(g) == Post(0, g, -g, 0)

BooksAfterCancel(g) == Post(g, g, -g, 0)

\* Of an approved request
adminCancel(d) ==
  LET u == request[d].user
      g == request[d].grams
  IN /\ request[d].status = "APPROVED" /\ WalletFree(u)
     /\ Take(u, -g)
     /\ SetRequest(d, "CANCELLED")
     /\ BooksAfterCancel(g)
     /\ UNCHANGED <<hold, shop, rest>>

\* Variant: the ends of the holds are compared the wrong way round
StillReserved == {d \in Requests : hold[d] = "live"}

Stale == {d \in Requests : hold[d] = "lapsed"}

\* The hourly job reads the holds that have lapsed, and then takes each
\* request in a transaction of its own.
expireStaleRequests ==
  /\ sweep = {} /\ sweep' = Stale
  /\ UNCHANGED <<gold, request, hold, books, shop, call, history>>

\* Variant: the request is not looked at again under its lock
StillPendingAlways(d) == TRUE

StillPending(d) == request[d].status = "PENDING"

expireRequest(d) ==
  /\ d \in sweep
  /\ sweep' = sweep \ {d}
  /\ IF StillPending(d)
     THEN SetRequest(d, "CANCELLED") /\ SetHold(d, "none")
     ELSE UNCHANGED <<request, hold>>
  /\ UNCHANGED <<gold, books, shop, call, history>>

-----------------------------------------------------------------------------
(* A bar paid in melted gold.                                               *)

\* planGoldBarPayment: the bar's weight, or all there is; and, if asked for,
\* gold for the rest of the price.
Applied(u, useExtraGold) ==
  Smaller(NotBelowZero(Available(u)),
          IF useExtraGold THEN Weight + Premium ELSE Weight)

OpenOrder(o, u, g, status) ==
  /\ order[o].status = "none" /\ stock > 0
  /\ WalletFree(u) /\ Available(u) >= MinGold
  /\ order' = [order EXCEPT ![o] =
                [status |-> status, user |-> u, grams |-> g]]
  /\ stock' = stock - 1

\* Gold, and rial of the wallet, cover the price: captureWithoutGateway.
orderPaid(o, u, useExtraGold) ==
  LET g == Applied(u, useExtraGold) IN
  /\ OpenOrder(o, u, g, "PAID")
  /\ Take(u, g)
  /\ Post(-g, 0, 0, 0)
  /\ UNCHANGED <<request, hold, payment, gateway, rest>>

\* Otherwise the gold is reserved and a payment begun at a gateway.
orderReserved(k, o, u, useExtraGold) ==
  LET g == Applied(u, useExtraGold) IN
  /\ g < Weight + Premium
  /\ call[k] = Free
  /\ OpenOrder(o, u, g, "PENDING_PAYMENT")
  /\ SetHold(o, "live")
  /\ Goes(k, "begin", o)
  /\ UNCHANGED <<gold, request, payment, gateway, books, sweep, history>>

\* The row is written after the gateway has answered, whatever the order is by
\* then.
beginGatewayPayment(k) ==
  LET o == call[k].order IN
  /\ call[k].op = "begin"
  /\ payment' = [payment EXCEPT ![o] = "PENDING"]
  /\ gateway' = [gateway EXCEPT ![o] = "open"]
  /\ End(k)
  /\ UNCHANGED <<gold, request, order, hold, stock, books, sweep, history>>

\* Variant: the gold stays reserved
CancelUnpaidKeepsHold(o) ==
  /\ order' = [order EXCEPT ![o].status = "CANCELLED"]
  /\ stock' = stock + 1
  /\ payment' = [payment EXCEPT ![o] = IF @ = "PENDING" THEN "FAILED" ELSE @]
  /\ UNCHANGED hold

\* What every way to cancel an unpaid order does: the bar goes back, the
\* reservation is deleted and a pending payment fails.
CancelUnpaid(o) ==
  /\ order' = [order EXCEPT ![o].status = "CANCELLED"]
  /\ SetHold(o, "none")
  /\ stock' = stock + 1
  /\ payment' = [payment EXCEPT ![o] = IF @ = "PENDING" THEN "FAILED" ELSE @]

\* After a payment that was not begun, and after one that was refused
cancelUnpaidGoldOrder(k) ==
  LET o == call[k].order IN
  /\ call[k].op \in {"begin", "cancel"}
  /\ IF order[o].status = "PENDING_PAYMENT" THEN CancelUnpaid(o)
     ELSE UNCHANGED <<order, hold, stock, payment>>
  /\ End(k)
  /\ UNCHANGED <<gold, request, gateway, books, sweep, history>>

\* cancelByUser and adminCancel of an unpaid order
cancelOrder(o) ==
  /\ order[o].status = "PENDING_PAYMENT"
  /\ CancelUnpaid(o)
  /\ UNCHANGED <<gold, request, gateway, books, rest>>

\* The job; the reservation ends before the order's time does.
expireStaleOrders(o) ==
  /\ hold[o] # "live"
  /\ cancelOrder(o)

\* A callback reads the payment, asks the gateway, and acts on the answer.  One
\* that brings a Status other than OK is a refusal without asking, whatever the
\* gateway did.
handleGatewayCallback(k, o, outcome) ==
  /\ call[k] = Free /\ payment[o] = "PENDING"
  /\ \/ /\ gateway[o] \in {"open", outcome}
        /\ gateway' = [gateway EXCEPT ![o] = outcome]
     \/ outcome = "refused" /\ UNCHANGED gateway
  /\ Goes(k, IF outcome = "taken" THEN "commit" ELSE "refuse", o)
  /\ UNCHANGED <<gold, request, order, hold, stock, payment, books, sweep,
                 history>>

\* captureGoldLeg, requireHold
MayCapture(o) ==
  /\ hold[o] = "live" /\ gold[order[o].user] >= order[o].grams

finalize(k) ==
  LET o == call[k].order
      u == order[o].user
      g == order[o].grams
  IN /\ call[k].op = "commit" /\ WalletFree(u)
     /\ IF /\ payment[o] = "PENDING" /\ order[o].status = "PENDING_PAYMENT"
           /\ MayCapture(o)
        THEN /\ payment' = [payment EXCEPT ![o] = "SUCCESS"]
             /\ order' = [order EXCEPT ![o].status = "PAID"]
             /\ SetHold(o, "none")
             /\ Take(u, g)
             /\ Post(-g, 0, 0, 0)
        ELSE UNCHANGED <<payment, order, hold, gold, books>>
     /\ End(k)
     /\ UNCHANGED <<request, stock, gateway, sweep, history>>

\* The payment fails and the reservation goes in one transaction, the order in
\* the next.
paymentRefused(k) ==
  LET o == call[k].order IN
  /\ call[k].op = "refuse"
  /\ payment' = [payment EXCEPT ![o] = "FAILED"]
  /\ SetHold(o, "none")
  /\ Goes(k, "cancel", o)
  /\ UNCHANGED <<gold, request, order, stock, gateway, books, sweep, history>>

\* adminCancel of a paid order gives the gold back as gold.
cancelPaid(o) ==
  LET u == order[o].user
      g == order[o].grams
  IN /\ order[o].status = "PAID" /\ WalletFree(u)
     /\ Take(u, -g)
     /\ order' = [order EXCEPT ![o].status = "CANCELLED"]
     /\ stock' = stock + 1
     /\ Post(g, 0, 0, 0)
     /\ UNCHANGED <<request, hold, payment, gateway, rest>>

-----------------------------------------------------------------------------
(* Transfers between wallets.                                               *)

\* Variant: the sender's wallet is locked first
FirstOfSender(u, v) == u

\* The wallets are locked in the order of their ids.
First(u, v) == Smaller(u, v)

\* The call has locked one of the wallets, and must lock the other.
internalTransfer(k, u, v, g) ==
  /\ u # v /\ call[k] = Free
  /\ WalletFree(First(u, v))
  /\ call' = [call EXCEPT ![k] = [Free EXCEPT !.op = "transfer", !.from = u,
                                              !.to = v, !.grams = g,
                                              !.has = {First(u, v)}]]
  /\ UNCHANGED <<gold, request, hold, books, shop, sweep, history>>

Wanted(k) == {call[k].from, call[k].to} \ call[k].has

\* Variant: reserved gold goes too
MayTransferHeld(k) == call[k].grams <= gold[call[k].from]

MayTransfer(k) == call[k].grams <= Available(call[k].from)

transfer(k) ==
  LET u == call[k].from
      v == call[k].to
      g == call[k].grams
  IN /\ call[k].op = "transfer"
     /\ \A w \in Wanted(k) : WalletFree(w)
     /\ gold' = IF MayTransfer(k)
                THEN [gold EXCEPT ![u] = @ - g, ![v] = @ + g] ELSE gold
     /\ End(k)
     /\ UNCHANGED <<request, hold, books, shop, sweep, history>>

-----------------------------------------------------------------------------
(* Trades and adjustments.                                                  *)

Move(u, g, forced) ==
  /\ WalletFree(u)
  /\ history.bought + g \in 0 .. MaxBought
  /\ gold' = [gold EXCEPT ![u] = @ + g]
  /\ Post(g, 0, 0, 0)
  /\ Note(u, g, forced)
  /\ UNCHANGED <<request, hold, shop, sweep, call>>

\* A trade of the platform, or an admin's credit
buy(u) == Move(u, 1, 0)

\* createOrder, side SELL: reserved gold is not for sale.
sell(u) == Available(u) >= 1 /\ Move(u, -1, 0)

\* adjustBalance: an admin's deduction looks at the balance only.
deduct(u) ==
  /\ gold[u] >= 1 /\ history.forced[u] < MaxDeducted
  /\ Move(u, -1, 1)

-----------------------------------------------------------------------------
(* Time, the gateway and faults.                                            *)

holdLapses(x) ==
  /\ hold[x] = "live"
  /\ SetHold(x, "lapsed")
  /\ UNCHANGED <<gold, request, books, shop, rest>>

callDies(k) ==
  /\ call[k] # Free
  /\ End(k)
  /\ UNCHANGED <<gold, request, hold, books, shop, sweep, history>>

jobDies ==
  /\ sweep # {} /\ sweep' = {}
  /\ UNCHANGED <<gold, request, hold, books, shop, call, history>>

RequestNext ==
  \/ \E d \in Requests :
       \/ \E u \in Users, g \in Amounts : createInternal(d, u, g)
       \/ CancelPending(d) \/ approve(d) \/ ship(d) \/ deliver(d)
       \/ adminCancel(d) \/ expireRequest(d)
  \/ expireStaleRequests

OrderNext ==
  \/ \E o \in Orders, u \in Users, useExtraGold \in BOOLEAN :
       \/ orderPaid(o, u, useExtraGold)
       \/ \E k \in Calls : orderReserved(k, o, u, useExtraGold)
  \/ \E o \in Orders : \/ cancelOrder(o) \/ expireStaleOrders(o)
                       \/ cancelPaid(o)
  \/ \E k \in Calls : \/ beginGatewayPayment(k) \/ cancelUnpaidGoldOrder(k)
                      \/ finalize(k) \/ paymentRefused(k)
                      \/ \E o \in Orders, outcome \in {"taken", "refused"} :
                           handleGatewayCallback(k, o, outcome)

WalletNext ==
  \/ \E k \in Calls : \/ \E u, v \in Users, g \in Amounts :
                           internalTransfer(k, u, v, g)
                      \/ transfer(k) \/ callDies(k)
  \/ \E u \in Users : buy(u) \/ sell(u) \/ deduct(u)
  \/ \E x \in Owners : holdLapses(x)
  \/ jobDies

Next == RequestNext \/ OrderNext \/ WalletNext
Spec == Init /\ [][Next]_vars

\* The jobs run again and again, and get through in the end although they may
\* be stopped.
Fairness ==
  /\ WF_vars(expireStaleRequests)
  /\ \A d \in Requests : SF_vars(expireRequest(d))
  /\ \A o \in Orders : WF_vars(expireStaleOrders(o))

FairSpec == Spec /\ Fairness

-----------------------------------------------------------------------------
(* Properties.                                                              *)

RequestStatuses ==
  {"none", "PENDING", "APPROVED", "SHIPPED", "DELIVERED", "CANCELLED"}
OrderStatuses == {"none", "PENDING_PAYMENT", "PAID", "CANCELLED"}

TypeOK ==
  /\ gold \in [Users -> Nat]
  /\ request \in [Requests ->
                   [status: RequestStatuses, user: 0 .. N, grams: Nat]]
  /\ order \in [Orders -> [status: OrderStatuses, user: 0 .. N, grams: Nat]]
  /\ hold \in [Owners -> {"none", "live", "lapsed"}]
  /\ stock \in Nat
  /\ payment \in [Orders -> {"none", "PENDING", "SUCCESS", "FAILED"}]
  /\ gateway \in [Orders -> {"none", "open", "taken", "refused"}]
  /\ sweep \subseteq Requests
  /\ books \in [liability: Int, physical: Int, reserved: Int, transit: Int]
  /\ call \in [Calls -> [op: {"idle", "begin", "commit", "refuse", "cancel",
                              "transfer"},
                         order: Orders \cup {NoOrder},
                         from: 0 .. N, to: 0 .. N,
                         grams: Nat, has: SUBSET Users]]
  /\ history \in [bought: Int, forced: [Users -> Nat]]

AllGold == SumFunctionOnSet(gold, Users)
In(S) == {d \in Requests : request[d].status \in S}
Bought == {o \in Orders : order[o].status = "PAID"}
Selling == {o \in Orders : order[o].status \notin {"none", "CANCELLED"}}

\* Gold is in the wallets, in requests that were approved or in orders that
\* are paid, and in one of them only; a bar is on the shelf or in an open order.
\* An approval or a capture that happens twice, a cancellation that gives back
\* what was not taken, or a transfer that loses a half, breaks it.
GoldConserved ==
  /\ AllGold + GramsOf(In({"APPROVED", "SHIPPED", "DELIVERED"}) \cup Bought)
       = Opening * Cardinality(Users) + history.bought
  /\ stock + Cardinality(Selling) = Stock

\* Account 2020 is what the company owes its users in gold, and the vault's
\* movements place the gold of every request where its status says it is.
BooksFollowGold ==
  /\ books.liability = AllGold
  /\ books.reserved = GramsOf(In({"APPROVED"}))
  /\ books.transit = GramsOf(In({"SHIPPED"}))
  /\ books.physical = - GramsOf(In({"APPROVED", "SHIPPED", "DELIVERED"}))

\* Gold is reserved for whoever waits for it, and for nobody else: a request
\* has a hold exactly while it is pending, an order at most while it is unpaid.
HoldFollowsOwner ==
  /\ \A d \in Requests : hold[d] # "none" <=> request[d].status = "PENDING"
  /\ \A o \in Orders : hold[o] # "none" => order[o].status = "PENDING_PAYMENT"

\* What is reserved is in the wallet, but for what the two who do not look at
\* the holds took: an admin's deduction, and the approval of a request whose
\* own hold has lapsed.
HoldsCoveredButForced ==
  \A u \in Users : Held(u) - gold[u] <= history.forced[u]

\* Transfers never wait for each other in a circle.
Waits(k, j) == /\ call[k].op = "transfer" /\ k # j
               /\ Wanted(k) \cap call[j].has # {}
TransfersNeverCross ==
  ~ \E S \in (SUBSET Calls) \ {{}} : \A k \in S : \E j \in S : Waits(k, j)

\* A request whose reservation has lapsed is decided in the end, and an order
\* that is not paid in time is closed.
StaleCloses ==
  /\ \A d \in Requests : (hold[d] = "lapsed") ~> (hold[d] # "lapsed")
  /\ \A o \in Orders :
       (order[o].status = "PENDING_PAYMENT" /\ hold[o] # "live")
         ~> (order[o].status # "PENDING_PAYMENT")
=============================================================================
