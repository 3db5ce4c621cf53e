-------------------------- MODULE ShopPaymentProofs --------------------------
(***************************************************************************)
(* Proofs about ShopPayment, for any orders, payments, sessions and prices. *)
(* The invariant Base holds whatever modes users pay with, and over it the  *)
(* wallet is explained; IndInv, which adds the shop's promises and what the *)
(* order's lock keeps, holds when no order is paid from the wallet alone.   *)
(* Base is taken apart by the tables it speaks of, so that an action only   *)
(* has to account for those it writes.                                      *)
(***************************************************************************)
EXTENDS ShopPayment, SumFacts, TLAPS, FiniteSetTheorems

\* The parts of Base
ShelfOK == /\ status \in [Orders -> {"none", Unpaid, "CANCELLED"} \cup Settled]
           /\ stock \in Nat
MoneyOK == /\ balance \in Nat
           /\ walletPaid \in [Orders -> Nat]
           /\ bought \in [Orders -> Nat]
           /\ refunded \in [Orders -> BOOLEAN]
           /\ ledger \in [Accounts -> Int]
ReserveOK == /\ hold \in [Orders -> [amount: 0 .. Price, live: BOOLEAN]]
             /\ leg \in [Orders -> 0 .. Price]
             /\ \A o \in Orders : leg[o] > 0 => hold[o].amount = leg[o]
RowsOK == /\ payment \in [Gateways -> Payment]
          /\ gateway \in [Gateways -> {"none", "open", "paid", "cancelled",
                                       "captured"}]
          /\ declined \subseteq Gateways
          /\ \A g \in Gateways : PaymentInv(g)
CallsOK == /\ call \in [Sessions -> Call]
           /\ \A s \in Sessions : CallInv(s)

LEMMA BaseParts == Base <=> ShelfOK /\ MoneyOK /\ ReserveOK /\ RowsOK /\ CallsOK
  BY DEF Base, TypeOK, PendingIsHeld, ShelfOK, MoneyOK, ReserveOK, RowsOK, CallsOK

LEMMA BasePartsNext ==
  Base' <=> ShelfOK' /\ MoneyOK' /\ ReserveOK' /\ RowsOK' /\ CallsOK'
  BY DEF Base, TypeOK, PendingIsHeld, ShelfOK, MoneyOK, ReserveOK, RowsOK, CallsOK

-----------------------------------------------------------------------------
(* What is untouched stays as it was.                                        *)

LEMMA ShelfFrame == ShelfOK /\ UNCHANGED <<status, stock>> => ShelfOK'
  BY DEF ShelfOK

LEMMA MoneyFrame ==
  MoneyOK /\ UNCHANGED <<balance, walletPaid, bought, refunded, ledger>> => MoneyOK'
  BY DEF MoneyOK

LEMMA ReserveFrame == ReserveOK /\ UNCHANGED <<hold, leg>> => ReserveOK'
  BY DEF ReserveOK

LEMMA RowsFrame == RowsOK /\ UNCHANGED <<payment, gateway, declined>> => RowsOK'
  BY DEF RowsOK, PaymentInv

LEMMA CallsFrame ==
  CallsOK /\ UNCHANGED <<call, payment, gateway, declined>> => CallsOK'
  BY DEF CallsOK, CallInv

-----------------------------------------------------------------------------
(* The pieces of transactions.                                               *)

LEMMA AtFields ==
  ASSUME NEW st, NEW o, NEW g, NEW share
  PROVE  /\ At(st, o, g, share).step = st
         /\ At(st, o, g, share).order = o
         /\ At(st, o, g, share).gateway = g
         /\ At(st, o, g, share).share = share
  BY DEF At

LEMMA AtTyped ==
  ASSUME NEW st \in Steps,
         NEW o \in Orders \cup {NoOrder}, NEW g \in Gateways \cup {NoGateway},
         NEW share \in 0 .. Price
  PROVE  At(st, o, g, share) \in Call
  BY DEF At, Call

LEMMA CallFields ==
  ASSUME call \in [Sessions -> Call], NEW s \in Sessions
  PROVE  /\ call[s] \in Call
         /\ call[s].order \in Orders \cup {NoOrder}
         /\ call[s].gateway \in Gateways \cup {NoGateway}
         /\ call[s].share \in 0 .. Price
  BY DEF Call

LEMMA RowFields ==
  ASSUME NEW o, NEW amount, NEW st
  PROVE  /\ Row(o, amount, st).order = o
         /\ Row(o, amount, st).amount = amount
         /\ Row(o, amount, st).status = st
  BY DEF Row

LEMMA RowTyped ==
  ASSUME NEW o \in Orders \cup {NoOrder}, NEW amount \in 0 .. Price,
         NEW st \in {"none", "PENDING", "SUCCESS", "FAILED"}
  PROVE  Row(o, amount, st) \in Payment
  BY DEF Row, Payment

LEMMA PaymentFields ==
  ASSUME payment \in [Gateways -> Payment], NEW g \in Gateways
  PROVE  /\ payment[g] \in Payment
         /\ payment[g].order \in Orders \cup {NoOrder}
         /\ payment[g].amount \in 0 .. Price
         /\ payment[g].status \in {"none", "PENDING", "SUCCESS", "FAILED"}
  BY DEF Payment

LEMMA ReleaseOK ==
  ASSUME ReserveOK, NEW o \in Orders, NEW seen, Release(o, seen)
  PROVE  ReserveOK'
<1>1. /\ NoHold \in [amount: 0 .. Price, live: BOOLEAN]
      /\ 0 \in 0 .. Price
  BY ShopAssumption DEF NoHold
<1>2. /\ UNCHANGED hold \/ hold' = [hold EXCEPT ![o] = NoHold]
      /\ leg' = [leg EXCEPT ![o] = 0]
  BY DEF Release
<1> QED
  BY <1>1, <1>2 DEF ReserveOK

\* A payment's row keeps its order when its status changes
LEMMA MarkRows ==
  ASSUME RowsOK, NEW g \in Gateways, NEW st \in {"PENDING", "SUCCESS", "FAILED"},
         payment[g].status # "none", Mark(g, st)
  PROVE  /\ payment' \in [Gateways -> Payment]
         /\ \A h \in Gateways : payment'[h].order = payment[h].order
         /\ \A h \in Gateways : payment'[h].status = "none"
                                  <=> payment[h].status = "none"
<1> DEFINE row == Row(payment[g].order, payment[g].amount, st)
<1>1. row \in Payment /\ row.order = payment[g].order /\ row.status = st
  BY PaymentFields, RowTyped, RowFields DEF RowsOK
<1>2. payment' = [payment EXCEPT ![g] = row] /\ payment \in [Gateways -> Payment]
  BY DEF Mark, RowsOK
<1> HIDE DEF row
<1> QED
  BY <1>1, <1>2

LEMMA FailRows ==
  ASSUME RowsOK, NEW o \in Orders, FailPending(o)
  PROVE  /\ payment' \in [Gateways -> Payment]
         /\ \A h \in Gateways : payment'[h].order = payment[h].order
         /\ \A h \in Gateways : payment'[h].status = "none"
                                  <=> payment[h].status = "none"
         /\ \A h \in Gateways : payment'[h].status = "FAILED" =>
              payment[h].status = "FAILED" \/ payment[h].order = o
<1> DEFINE row(h) == Row(o, payment[h].amount, "FAILED")
           new(h) == IF h \in Of(o) /\ payment[h].status = "PENDING"
                     THEN row(h) ELSE payment[h]
<1>1. ASSUME NEW h \in Gateways
      PROVE  row(h) \in Payment /\ row(h).order = o /\ row(h).status = "FAILED"
  BY PaymentFields, RowTyped, RowFields DEF RowsOK
<1>2. payment' = [h \in Gateways |-> new(h)]
  BY DEF FailPending
<1>3. ASSUME NEW h \in Gateways, h \in Of(o) PROVE payment[h].order = o
  BY <1>3 DEF Of
<1>4. payment \in [Gateways -> Payment]
  BY DEF RowsOK
<1> HIDE DEF row
<1> QED
  BY <1>1, <1>2, <1>3, <1>4

\* Rows that keep their orders leave rows and calls as they should be
LEMMA RowsKept ==
  ASSUME RowsOK, CallsOK, UNCHANGED <<gateway, declined>>,
         payment' \in [Gateways -> Payment],
         \A h \in Gateways : payment'[h].order = payment[h].order,
         \A h \in Gateways : payment'[h].status = "none" <=> payment[h].status = "none"
  PROVE  /\ RowsOK'
         /\ \A s \in Sessions : call'[s] = call[s] => CallInv(s)'
<1>1. RowsOK'
  BY DEF RowsOK, PaymentInv
<1>2. ASSUME NEW s \in Sessions, call'[s] = call[s] PROVE CallInv(s)'
  BY <1>2 DEF CallsOK, CallInv
<1> QED
  BY <1>1, <1>2

\* A call that ends, whatever becomes of the rows it knew
LEMMA EndCalls ==
  ASSUME CallsOK, NEW s \in Sessions, End(s),
         \A t \in Sessions : call'[t] = call[t] => CallInv(t)'
  PROVE  CallsOK'
<1>1. NoCall \in Call /\ NoCall.step = "idle"
  BY AtTyped, AtFields, ShopAssumption DEF NoCall, Steps
<1>2. call' = [call EXCEPT ![s] = NoCall] /\ call \in [Sessions -> Call]
  BY DEF End, CallsOK
<1>3. CallInv(s)'
  BY <1>1, <1>2 DEF CallInv
<1>4. ASSUME NEW t \in Sessions, t # s PROVE CallInv(t)'
  BY <1>2, <1>4
<1> QED
  BY <1>1, <1>2, <1>3, <1>4 DEF CallsOK

\* ... and when no row changes
LEMMA EndCallsOnly ==
  ASSUME CallsOK, NEW s \in Sessions, End(s),
         UNCHANGED <<payment, gateway, declined>>
  PROVE  CallsOK'
<1>1. \A t \in Sessions : call'[t] = call[t] => CallInv(t)'
  BY DEF CallsOK, CallInv
<1> QED
  BY <1>1, EndCalls

\* What CallInv says of a session, said of a call
CallOK(c) ==
  /\ c.step # "idle" => c.order \in Orders
  /\ c.step \in {"verify", "commit", "refused", "fail", "finalize"} =>
       /\ c.gateway \in Gateways
       /\ payment[c.gateway].order = c.order
       /\ payment[c.gateway].status # "none"
  /\ c.step \in {"refused", "fail"} => \/ gateway[c.gateway] = "cancelled"
                                      \/ c.gateway \in declined

LEMMA CallKnown ==
  ASSUME CallsOK, NEW s \in Sessions
  PROVE  call[s] \in Call /\ CallOK(call[s])
  BY DEF CallsOK, CallInv, CallOK

\* A call takes a step that only it sees
LEMMA MoveCall ==
  ASSUME CallsOK, NEW s \in Sessions, NEW c \in Call, CallOK(c),
         call' = [call EXCEPT ![s] = c], UNCHANGED <<payment, gateway, declined>>
  PROVE  CallsOK'
<1>1. call \in [Sessions -> Call]
  BY DEF CallsOK
<1>2. ASSUME NEW t \in Sessions, t # s PROVE CallInv(t)'
  BY <1>1, <1>2 DEF CallsOK, CallInv
<1>3. CallInv(s)'
  BY <1>1 DEF CallOK, CallInv
<1> QED
  BY <1>1, <1>2, <1>3 DEF CallsOK

-----------------------------------------------------------------------------
(* Base is inductive.                                                        *)

LEMMA BaseInit == Init => Base
<1> SUFFICES ASSUME Init PROVE Base
  OBVIOUS
<1>1. /\ NoHold \in [amount: 0 .. Price, live: BOOLEAN] /\ NoHold.amount = 0
      /\ 0 \in 0 .. Price
  BY ShopAssumption DEF NoHold
<1>2. NoCall \in Call /\ NoCall.step = "idle"
  BY AtTyped, AtFields, ShopAssumption DEF NoCall, Steps
<1>3. Row(NoOrder, 0, "none") \in Payment /\ Row(NoOrder, 0, "none").status = "none"
  BY RowTyped, RowFields, <1>1
<1>4. ShelfOK /\ MoneyOK
  BY ShopAssumption DEF Init, ShelfOK, MoneyOK
<1>5. ReserveOK
  BY <1>1 DEF Init, ReserveOK
<1>6. RowsOK
  BY <1>3 DEF Init, RowsOK, PaymentInv
<1>7. CallsOK
  BY <1>2 DEF Init, CallsOK, CallInv
<1> QED
  BY <1>4, <1>5, <1>6, <1>7, BaseParts

LEMMA CheckoutBase ==
  ASSUME Base, NEW o \in Orders, Checkout(o) PROVE Base'
<1>1. ShelfOK'
  BY BaseParts DEF ShelfOK, Checkout
<1> QED
  BY <1>1, BaseParts, BasePartsNext, MoneyFrame, ReserveFrame, RowsFrame,
     CallsFrame DEF Checkout, money, reserve, bank

\* Closing, by whomever: the rows of the order's payments fail
LEMMA FailingBase ==
  ASSUME RowsOK, CallsOK, NEW o \in Orders, NEW s \in Sessions, FailPending(o),
         End(s), UNCHANGED <<gateway, declined>>
  PROVE  RowsOK' /\ CallsOK'
<1>1. /\ RowsOK'
      /\ \A t \in Sessions : call'[t] = call[t] => CallInv(t)'
  BY FailRows, RowsKept
<1>2. CallsOK'
  BY <1>1, EndCalls
<1> QED
  BY <1>1, <1>2

LEMMA CloseBase ==
  ASSUME Base, NEW s \in Sessions, CloseUnpaid(s) PROVE Base'
<1>0. call[s].order \in Orders
  BY BaseParts, CallKnown DEF CallOK, CloseUnpaid
<1>1. ShelfOK'
  BY <1>0, BaseParts DEF ShelfOK, CloseUnpaid
<1>2. ReserveOK'
  BY <1>0, BaseParts, ReleaseOK DEF CloseUnpaid
<1>3. RowsOK' /\ CallsOK'
  BY <1>0, BaseParts, FailingBase DEF CloseUnpaid, bank
<1> QED
  BY <1>1, <1>2, <1>3, BaseParts, BasePartsNext, MoneyFrame DEF CloseUnpaid, money

LEMMA AdminCancelBase ==
  ASSUME Base, NEW s \in Sessions, AdminCancel(s) PROVE Base'
<1>0. call[s].order \in Orders
  BY BaseParts, CallKnown DEF CallOK, AdminCancel
<1>1. ShelfOK'
  BY <1>0, BaseParts DEF ShelfOK, AdminCancel
<1>2. ReserveOK'
  BY <1>0, BaseParts, ReleaseOK DEF AdminCancel
<1>3. RowsOK' /\ CallsOK'
  BY <1>0, BaseParts, FailingBase DEF AdminCancel, bank
<1>4. MoneyOK'
  <2>1. /\ UNCHANGED <<walletPaid, bought>>
        /\ refunded' \in [Orders -> BOOLEAN]
    BY <1>0, BaseParts DEF MoneyOK, AdminCancel
  <2>2. \/ balance' = balance + Price /\ ledger' = [ledger EXCEPT !["4020"] = @ - Price,
                                                                 !["2010"] = @ + Price]
        \/ UNCHANGED <<balance, ledger>>
    BY DEF AdminCancel
  <2> QED
    BY <2>1, <2>2, BaseParts, ShopAssumption DEF MoneyOK, Accounts
<1> QED
  BY <1>1, <1>2, <1>3, <1>4, BasePartsNext

LEMMA FulfilBase ==
  ASSUME Base, NEW o \in Orders, Fulfil(o) PROVE Base'
<1>1. ShelfOK'
  BY BaseParts DEF ShelfOK, Fulfil, Process, Ship, Deliver, Settled
<1> QED
  BY <1>1, BaseParts, BasePartsNext, MoneyFrame, ReserveFrame, RowsFrame,
     CallsFrame DEF Fulfil, money, reserve, bank

LEMMA HoldExpiresBase ==
  ASSUME Base, NEW o \in Orders, HoldExpires(o) PROVE Base'
<1>1. ReserveOK'
  BY BaseParts DEF ReserveOK, HoldExpires
<1> QED
  BY <1>1, BaseParts, BasePartsNext, ShelfFrame, MoneyFrame, RowsFrame,
     CallsFrame DEF HoldExpires, money, shelf, bank

\* The steps that change nothing but the call that takes them
LEMMA MoveBase ==
  ASSUME Base, NEW s \in Sessions, NEW c \in Call, CallOK(c),
         call' = [call EXCEPT ![s] = c],
         UNCHANGED <<shelf, money, reserve, payment, bank>>
  PROVE  Base'
<1>1. CallsOK'
  BY BaseParts, MoveCall DEF bank
<1> QED
  BY <1>1, BaseParts, BasePartsNext, ShelfFrame, MoneyFrame, ReserveFrame,
     RowsFrame DEF money, reserve, shelf, bank

LEMMA PayBase ==
  ASSUME Base, NEW s \in Sessions, NEW o \in Orders, NEW m \in Modes,
         NEW share \in Shares, Pay(s, o, m, share)
  PROVE  Base'
<1> DEFINE c == CASE m = "WALLET"  -> At("wallet", o, NoGateway, 0)
                  [] m = "GATEWAY" -> At("begin", o, NoGateway, 0)
                  [] m = "MIXED"   -> At("reserve", o, NoGateway, share)
<1>1. share \in 0 .. Price /\ 0 \in 0 .. Price /\ m \in {"WALLET", "GATEWAY", "MIXED"}
  BY ShopAssumption
<1>2. c \in Call /\ c.order = o /\ c.step \in {"wallet", "begin", "reserve"}
  <2>1. ASSUME NEW st \in {"wallet", "begin", "reserve"}, NEW n \in 0 .. Price
        PROVE  /\ At(st, o, NoGateway, n) \in Call
               /\ At(st, o, NoGateway, n).order = o
               /\ At(st, o, NoGateway, n).step = st
    BY AtTyped, AtFields DEF Steps
  <2> QED
    BY <1>1, <2>1
<1>3. /\ call' = [call EXCEPT ![s] = c]
      /\ UNCHANGED <<shelf, money, reserve, payment, bank>>
  BY DEF Pay
<1> HIDE DEF c
<1>4. CallOK(c)
  BY <1>2 DEF CallOK
<1> QED
  BY <1>2, <1>3, <1>4, MoveBase

\* A releasing transaction has looked for the order's hold
LEMMA LookBase ==
  ASSUME Base, NEW s \in Sessions, NEW st \in {"close", "void", "undo"},
         NEW o \in Orders,
         call' = [call EXCEPT ![s] = At(st, o, NoGateway, hold[o].amount)],
         UNCHANGED <<shelf, money, reserve, payment, bank>>
  PROVE  Base'
<1> DEFINE c == At(st, o, NoGateway, hold[o].amount)
<1>1. hold[o].amount \in 0 .. Price
  BY BaseParts DEF ReserveOK
<1>2. c \in Call /\ c.order = o /\ c.step = st
  BY <1>1, AtTyped, AtFields DEF Steps, Locking
<1> HIDE DEF c
<1>3. CallOK(c)
  BY <1>2 DEF CallOK
<1>4. call' = [call EXCEPT ![s] = c]
  BY DEF c
<1> QED
  BY <1>2, <1>3, <1>4, MoveBase

LEMMA BeginCloseBase ==
  ASSUME Base, NEW s \in Sessions, NEW o \in Orders, BeginClose(s, o) PROVE Base'
  BY LookBase DEF BeginClose

LEMMA BeginVoidBase ==
  ASSUME Base, NEW s \in Sessions, NEW o \in Orders, BeginVoid(s, o) PROVE Base'
  BY LookBase DEF BeginVoid

LEMMA BeginFailsBase ==
  ASSUME Base, NEW s \in Sessions, BeginFails(s) PROVE Base'
<1>1. call[s].order \in Orders
  BY BaseParts, CallKnown DEF CallOK, BeginFails
<1> QED
  BY <1>1, LookBase DEF BeginFails

\* A call about a gateway payment goes on to its next step
LEMMA NextStepBase ==
  ASSUME Base, NEW s \in Sessions, NEW g \in Gateways, NEW share \in 0 .. Price,
         NEW st \in {"verify", "commit", "refused", "fail", "finalize"},
         payment[g].status # "none",
         st \in {"refused", "fail"} => gateway[g] = "cancelled" \/ g \in declined,
         call' = [call EXCEPT ![s] = At(st, payment[g].order, g, share)],
         UNCHANGED <<shelf, money, reserve, payment, bank>>
  PROVE  Base'
<1> DEFINE c == At(st, payment[g].order, g, share)
<1>1. payment[g].order \in Orders
  BY BaseParts DEF RowsOK, PaymentInv
<1>2. c \in Call /\ c.order = payment[g].order /\ c.step = st /\ c.gateway = g
  BY <1>1, AtTyped, AtFields DEF Steps, Locking
<1> HIDE DEF c
<1>3. CallOK(c)
  BY <1>1, <1>2 DEF CallOK
<1>4. call' = [call EXCEPT ![s] = c]
  BY DEF c
<1> QED
  BY <1>2, <1>3, <1>4, MoveBase

LEMMA CallbackBase ==
  ASSUME Base, NEW s \in Sessions, NEW g \in Gateways, Callback(s, g) PROVE Base'
<1>1. payment[g].status # "none" /\ 0 \in 0 .. Price
  BY ShopAssumption DEF Callback
<1> QED
  BY <1>1, NextStepBase DEF Callback

LEMMA CallbackCommitBase ==
  ASSUME Base, NEW s \in Sessions, CallbackCommit(s) PROVE Base'
<1>1. /\ call[s].gateway \in Gateways
      /\ payment[call[s].gateway].order = call[s].order
      /\ payment[call[s].gateway].status # "none" /\ 0 \in 0 .. Price
  BY BaseParts, CallKnown, ShopAssumption DEF CallOK, CallbackCommit
<1> QED
  BY <1>1, NextStepBase DEF CallbackCommit

LEMMA CallbackRefusedBase ==
  ASSUME Base, NEW s \in Sessions, CallbackRefused(s) PROVE Base'
<1>1. /\ call[s].gateway \in Gateways /\ call[s].order \in Orders
      /\ payment[call[s].gateway].order = call[s].order
      /\ payment[call[s].gateway].status # "none"
      /\ gateway[call[s].gateway] = "cancelled" \/ call[s].gateway \in declined
  BY BaseParts, CallKnown DEF CallOK, CallbackRefused
<1>2. hold[call[s].order].amount \in 0 .. Price
  BY <1>1, BaseParts DEF ReserveOK
<1> QED
  BY <1>1, <1>2, NextStepBase DEF CallbackRefused

LEMMA CaptureWalletBase ==
  ASSUME Base, NEW s \in Sessions, CaptureWallet(s) PROVE Base'
<1>1. call[s].order \in Orders
  BY BaseParts DEF CallsOK, CallInv, CaptureWallet
<1>2. ShelfOK'
  BY <1>1, BaseParts DEF ShelfOK, CaptureWallet, Settled
<1>3. MoneyOK'
  BY <1>1, BaseParts, ShopAssumption DEF MoneyOK, CaptureWallet, PostSale, Accounts
<1>4. CallsOK'
  BY BaseParts, EndCallsOnly DEF CaptureWallet, bank
<1> QED
  BY <1>2, <1>3, <1>4, BaseParts, BasePartsNext, ReserveFrame, RowsFrame
     DEF CaptureWallet, reserve, bank

LEMMA ReserveHoldBase ==
  ASSUME Base, NEW s \in Sessions, ReserveHold(s) PROVE Base'
<1> DEFINE o == call[s].order
           c == At("begin", o, NoGateway, call[s].share)
<1>1. o \in Orders /\ call[s].share \in 0 .. Price
  BY BaseParts, CallKnown, CallFields DEF CallOK, CallsOK, ReserveHold
<1>2. ReserveOK'
  BY <1>1, BaseParts DEF ReserveOK, ReserveHold
<1>3. c \in Call /\ c.order \in Orders /\ c.step = "begin"
  BY <1>1, AtTyped, AtFields DEF Steps
<1>4. call' = [call EXCEPT ![s] = c] /\ UNCHANGED <<payment, bank>>
  BY DEF ReserveHold
<1> HIDE DEF c
<1>5. CallsOK'
  BY <1>3, <1>4, BaseParts, MoveCall DEF CallOK, bank
<1> QED
  BY <1>2, <1>5, BaseParts, BasePartsNext, ShelfFrame, MoneyFrame, RowsFrame
     DEF ReserveHold, money, shelf, bank

LEMMA BeginGatewayBase ==
  ASSUME Base, NEW s \in Sessions, NEW g \in Gateways, BeginGateway(s, g)
  PROVE  Base'
<1> DEFINE row == Row(call[s].order, Price - call[s].share, "PENDING")
<1>1. call[s].order \in Orders
  BY BaseParts, CallKnown DEF CallOK, BeginGateway
<1>2. Price - call[s].share \in 0 .. Price
  BY BaseParts, CallFields, ShopAssumption DEF CallsOK
<1>3. row \in Payment /\ row.order \in Orders /\ row.status = "PENDING"
  BY <1>1, <1>2, RowTyped, RowFields
<1>4. /\ payment' = [payment EXCEPT ![g] = row]
      /\ gateway' = [gateway EXCEPT ![g] = "open"]
      /\ gateway[g] = "none" /\ End(s) /\ UNCHANGED declined
  BY DEF BeginGateway
<1> HIDE DEF row
<1>5. RowsOK'
  BY <1>3, <1>4, BaseParts DEF RowsOK, PaymentInv
<1>6. payment[g].status = "none"
  BY <1>4, BaseParts DEF RowsOK, PaymentInv
<1>7. ASSUME NEW t \in Sessions, call'[t] = call[t] PROVE CallInv(t)'
  <2>1. CallOK(call[t]) /\ payment \in [Gateways -> Payment]
        /\ gateway \in [Gateways -> {"none", "open", "paid", "cancelled", "captured"}]
    BY BaseParts, CallKnown DEF RowsOK
  <2>2. CASE call[t].step \in {"verify", "commit", "refused", "fail", "finalize"}
    <3>1. call[t].gateway \in Gateways /\ call[t].gateway # g
      BY <1>6, <2>1, <2>2 DEF CallOK
    <3> QED
      BY <1>4, <1>7, <2>1, <3>1 DEF CallOK, CallInv
  <2>3. CASE call[t].step \notin {"verify", "commit", "refused", "fail", "finalize"}
    BY <1>7, <2>1, <2>3 DEF CallOK, CallInv
  <2> QED
    BY <2>2, <2>3
<1>8. CallsOK'
  BY <1>4, <1>7, BaseParts, EndCalls
<1> QED
  BY <1>5, <1>8, BaseParts, BasePartsNext, ShelfFrame, MoneyFrame, ReserveFrame
     DEF BeginGateway, money, reserve, shelf

LEMMA UndoReserveBase ==
  ASSUME Base, NEW s \in Sessions, UndoReserve(s) PROVE Base'
<1>1. call[s].order \in Orders
  BY BaseParts, CallKnown DEF CallOK, UndoReserve
<1>2. ReserveOK'
  BY <1>1, BaseParts, ReleaseOK DEF UndoReserve
<1>3. CallsOK'
  BY BaseParts, EndCallsOnly DEF UndoReserve, bank
<1> QED
  BY <1>2, <1>3, BaseParts, BasePartsNext, ShelfFrame, MoneyFrame, RowsFrame
     DEF UndoReserve, money, shelf, bank

LEMMA UserAtGatewayBase ==
  ASSUME Base, NEW g \in Gateways, UserAtGateway(g) PROVE Base'
<1>1. PICK outcome \in {"paid", "cancelled"} : gateway' = [gateway EXCEPT ![g] = outcome]
  BY DEF UserAtGateway
<1>2. gateway[g] = "open" /\ UNCHANGED <<payment, call, declined>>
  BY DEF UserAtGateway
<1>3. RowsOK'
  BY <1>1, <1>2, BaseParts DEF RowsOK, PaymentInv
<1>4. CallsOK'
  BY <1>1, <1>2, BaseParts DEF CallsOK, CallInv, RowsOK
<1> QED
  BY <1>3, <1>4, BaseParts, BasePartsNext, ShelfFrame, MoneyFrame, ReserveFrame
     DEF UserAtGateway, money, reserve, shelf

\* Whatever the gateway has done for good, or the user said, stays so
LEMMA VerifyBase ==
  ASSUME Base, NEW s \in Sessions, Verify(s) PROVE Base'
<1> DEFINE g == call[s].gateway
           o == call[s].order
           no == At("refused", o, g, 0)
           yes == At("commit", o, g, 0)
<1>1. /\ CallsOK /\ RowsOK
      /\ g \in Gateways /\ o \in Orders /\ payment[g].order = o
      /\ payment[g].status # "none" /\ UNCHANGED payment
  BY BaseParts, CallKnown DEF CallOK, Verify
<1>2. /\ no \in Call /\ no.step = "refused" /\ no.order = o /\ no.gateway = g
      /\ yes \in Call /\ yes.step = "commit" /\ yes.order = o /\ yes.gateway = g
  BY <1>1, AtTyped, AtFields, ShopAssumption DEF Steps
<1>3. \/ /\ call' = [call EXCEPT ![s] = no]
         /\ declined' = declined \cup {g} /\ UNCHANGED gateway
      \/ /\ gateway[g] = "cancelled" /\ call' = [call EXCEPT ![s] = no]
         /\ UNCHANGED <<gateway, declined>>
      \/ /\ gateway[g] \in {"paid", "captured"} /\ call' = [call EXCEPT ![s] = yes]
         /\ gateway' = [gateway EXCEPT ![g] = "captured"]
         /\ UNCHANGED declined
  BY DEF Verify, SaysGivenUp, bank
<1> HIDE DEF no, yes
<1>4. RowsOK'
  BY <1>1, <1>3 DEF RowsOK, PaymentInv
<1>5. /\ \A h \in Gateways : gateway[h] = "cancelled" => gateway'[h] = "cancelled"
      /\ declined \subseteq declined'
  BY <1>1, <1>3 DEF RowsOK
<1>6. ASSUME NEW t \in Sessions, call'[t] = call[t] PROVE CallInv(t)'
  BY <1>1, <1>5, <1>6 DEF CallsOK, CallInv
<1>7. call \in [Sessions -> Call] /\ call'[s] \in {no, yes}
  BY <1>1, <1>3 DEF CallsOK
<1>8. CallInv(s)'
  <2>1. CASE /\ call'[s] = no
             /\ g \in declined' \/ gateway'[g] = "cancelled"
    BY <1>1, <1>2, <2>1 DEF CallInv
  <2>2. CASE call'[s] = yes
    BY <1>1, <1>2, <2>2 DEF CallInv
  <2> QED
    BY <1>3, <1>7, <2>1, <2>2
<1>9. CallsOK'
  <2>1. call' \in [Sessions -> Call] /\ \A t \in Sessions : t # s => call'[t] = call[t]
    BY <1>2, <1>3, <1>7
  <2> QED
    BY <1>6, <1>8, <2>1 DEF CallsOK
<1> QED
  BY <1>4, <1>9, BaseParts, BasePartsNext, ShelfFrame, MoneyFrame, ReserveFrame
     DEF Verify, money, reserve, shelf

LEMMA FailPaymentBase ==
  ASSUME Base, NEW s \in Sessions, FailPayment(s) PROVE Base'
<1> DEFINE g == call[s].gateway
<1>1. /\ CallsOK /\ RowsOK /\ g \in Gateways /\ call[s].order \in Orders
      /\ payment[g].status # "none"
  BY BaseParts, CallKnown DEF CallOK, FailPayment
<1>2. Mark(g, "FAILED") /\ End(s) /\ UNCHANGED <<gateway, declined>>
  BY DEF FailPayment, bank
<1>3. /\ RowsOK'
      /\ \A t \in Sessions : call'[t] = call[t] => CallInv(t)'
  BY <1>1, <1>2, MarkRows, RowsKept
<1>4. CallsOK'
  BY <1>1, <1>2, <1>3, EndCalls
<1>5. ReserveOK'
  BY <1>1, BaseParts, ReleaseOK DEF FailPayment
<1> QED
  BY <1>3, <1>4, <1>5, BaseParts, BasePartsNext, ShelfFrame, MoneyFrame
     DEF FailPayment, money, shelf

LEMMA FinalizeBase ==
  ASSUME Base, NEW s \in Sessions, Finalize(s) PROVE Base'
<1> DEFINE g == call[s].gateway
           o == call[s].order
           part == IF leg[o] > 0 THEN hold[o].amount ELSE 0
<1>1. /\ CallsOK /\ RowsOK /\ g \in Gateways /\ o \in Orders
      /\ payment[g].status # "none"
  BY BaseParts, CallKnown DEF CallOK, Finalize
<1>2. Mark(g, "SUCCESS") /\ End(s) /\ UNCHANGED <<gateway, declined>>
  BY DEF Finalize, bank
<1>3. /\ RowsOK'
      /\ \A t \in Sessions : call'[t] = call[t] => CallInv(t)'
  BY <1>1, <1>2, MarkRows, RowsKept
<1>4. CallsOK'
  BY <1>1, <1>2, <1>3, EndCalls
<1>5. ShelfOK'
  BY <1>1, BaseParts DEF ShelfOK, Finalize, Settled
<1>6. /\ ReserveOK'
      /\ balance' \in Nat
      /\ walletPaid' \in [Orders -> Nat]
  <2>1. leg[o] \in Nat /\ hold[o].amount \in Nat
    BY <1>1, BaseParts, ShopAssumption DEF ReserveOK
  <2>2. CASE leg[o] = 0 /\ UNCHANGED <<balance, walletPaid, reserve>>
    BY <2>2, BaseParts, ReserveFrame DEF MoneyOK, reserve
  <2>3. CASE /\ balance >= hold[o].amount
             /\ balance' = balance - hold[o].amount
             /\ walletPaid' = [walletPaid EXCEPT ![o] = @ + leg[o]]
             /\ Release(o, hold[o].amount)
    <3>1. ReserveOK'
      BY <1>1, <2>3, BaseParts, ReleaseOK
    <3>2. balance' \in Nat /\ walletPaid' \in [Orders -> Nat]
      BY <1>1, <2>1, <2>3, BaseParts DEF MoneyOK
    <3> QED
      BY <3>1, <3>2
  <2> QED
    BY <2>2, <2>3 DEF Finalize, TakeLeg
<1>7. ledger' \in [Accounts -> Int] /\ bought' \in [Orders -> Nat]
  <2>1. part \in Int
    BY <1>1, BaseParts, ShopAssumption DEF ReserveOK
  <2>2. \/ PostSale(part, Price - part) /\ bought' = [bought EXCEPT ![o] = @ + 1]
        \/ UNCHANGED <<ledger, bought>>
    BY DEF Finalize
  <2> HIDE DEF part
  <2> QED
    BY <1>1, <2>1, <2>2, BaseParts, ShopAssumption DEF MoneyOK, PostSale, Accounts
<1>8. MoneyOK'
  BY <1>6, <1>7, BaseParts DEF MoneyOK, Finalize
<1> QED
  BY <1>3, <1>4, <1>5, <1>6, <1>8, BasePartsNext

LEMMA DropBase ==
  ASSUME Base, NEW s \in Sessions, Drop(s) PROVE Base'
<1>1. CallsOK'
  BY BaseParts, EndCallsOnly DEF Drop, bank
<1> QED
  BY <1>1, BaseParts, BasePartsNext, ShelfFrame, MoneyFrame, ReserveFrame,
     RowsFrame DEF Drop, money, shelf, reserve, bank

LEMMA BaseStep == Base /\ [Next]_vars => Base'
<1> SUFFICES ASSUME Base, [Next]_vars PROVE Base'
  OBVIOUS
<1>1. CASE UNCHANGED vars
  BY <1>1, BaseParts, BasePartsNext, ShelfFrame, MoneyFrame, ReserveFrame,
     RowsFrame, CallsFrame DEF vars
<1>2. ASSUME NEW o \in Orders, Checkout(o) \/ Fulfil(o) \/ HoldExpires(o)
      PROVE  Base'
  BY <1>2, CheckoutBase, FulfilBase, HoldExpiresBase
<1>3. ASSUME NEW s \in Sessions, NEW o \in Orders,
             CancelByUser(s, o) \/ ExpireStale(s, o) \/ BeginVoid(s, o)
      PROVE  Base'
  BY <1>3, BeginCloseBase, BeginVoidBase DEF CancelByUser, ExpireStale
<1>4. ASSUME NEW s \in Sessions, NEW o \in Orders, NEW m \in Modes,
             NEW share \in Shares, Pay(s, o, m, share)
      PROVE  Base'
  BY <1>4, PayBase
<1>5. ASSUME NEW s \in Sessions, NEW g \in Gateways,
             BeginGateway(s, g) \/ Callback(s, g)
      PROVE  Base'
  BY <1>5, BeginGatewayBase, CallbackBase
<1>6. ASSUME NEW s \in Sessions,
             CloseUnpaid(s) \/ AdminCancel(s) \/ CaptureWallet(s) \/ ReserveHold(s)
               \/ BeginFails(s) \/ UndoReserve(s)
      PROVE  Base'
  BY <1>6, CloseBase, AdminCancelBase, CaptureWalletBase, ReserveHoldBase,
     BeginFailsBase, UndoReserveBase
<1>7. ASSUME NEW s \in Sessions,
             Verify(s) \/ CallbackRefused(s) \/ FailPayment(s) \/ CallbackCommit(s)
               \/ Finalize(s) \/ Drop(s)
      PROVE  Base'
  BY <1>7, VerifyBase, CallbackRefusedBase, FailPaymentBase, CallbackCommitBase,
     FinalizeBase, DropBase
<1>8. ASSUME NEW g \in Gateways, UserAtGateway(g) PROVE Base'
  BY <1>8, UserAtGatewayBase
<1> QED
  BY <1>1, <1>2, <1>3, <1>4, <1>5, <1>6, <1>7, <1>8 DEF Next

LEMMA BaseInvariance == Spec => []Base
  BY BaseInit, BaseStep, PTL DEF Spec

\* The tables have their types in every reachable state; neither the wallet
\* nor the stock ever goes below zero (captureWalletOnly, the gateway's
\* callback, checkout).
THEOREM TypesHold == Spec => []TypeOK
<1>1. Base => TypeOK
  BY DEF Base
<1> QED
  BY <1>1, BaseInvariance, PTL

\* A wallet payment is pending only over a hold of its amount, whoever replaced
\* or released the hold in between: what a callback takes out of the wallet is
\* what it records (handleGatewayCallback, reserveWalletHold,
\* releaseOrderWalletHold).
THEOREM PendingAlwaysHeld == Spec => []PendingIsHeld
<1>1. Base => PendingIsHeld
  BY DEF Base
<1> QED
  BY <1>1, BaseInvariance, PTL

-----------------------------------------------------------------------------
(* The shop's promises, when no order is paid from the wallet alone.         *)

NoSolo   == \A s \in Sessions : call[s].step # "wallet"
Explained == \A g \in Gateways : FailureExplained(g)
OffShelf == {o \in Orders : status[o] \in {Unpaid} \cup Settled}

LEMMA IndParts ==
  IndInv <=> /\ Base /\ StockConserved /\ SalesAndRefundsPair
             /\ Explained /\ NoSolo /\ LockInv
  BY DEF IndInv, Explained, NoSolo

LEMMA IndPartsNext ==
  IndInv' <=> /\ Base' /\ StockConserved' /\ SalesAndRefundsPair'
              /\ Explained' /\ NoSolo' /\ LockInv'
  BY DEF IndInv, Explained, NoSolo

LEMMA OffShelfFinite ==
  /\ IsFiniteSet(OffShelf) /\ Cardinality(OffShelf) \in Nat
  /\ StockConserved <=> stock + Cardinality(OffShelf) = Stock
  /\ StockConserved' <=> stock' + Cardinality(OffShelf') = Stock
<1>1. OffShelf \subseteq Orders
  BY DEF OffShelf
<1> QED
  BY <1>1, ShopAssumption, FS_Subset, FS_CardinalityType DEF OffShelf, StockConserved

\* One order more is off the shelf, one unit less is on it
LEMMA TakeOff ==
  ASSUME Base, StockConserved, NEW o \in Orders, status[o] \in {"none", "CANCELLED"},
         status' = [status EXCEPT ![o] = Unpaid], stock' = stock - 1
  PROVE  StockConserved'
<1>1. status \in [Orders -> {"none", Unpaid, "CANCELLED"} \cup Settled] /\ stock \in Nat
  BY BaseParts DEF ShelfOK
<1>2. o \notin OffShelf
  BY DEF OffShelf, Unpaid, Settled
<1>3. OffShelf' = OffShelf \cup {o}
  BY <1>1 DEF OffShelf
<1>4. Cardinality(OffShelf') = Cardinality(OffShelf) + 1
  BY <1>2, <1>3, OffShelfFinite, FS_AddElement
<1> QED
  BY <1>1, <1>4, OffShelfFinite, ShopAssumption

LEMMA PutBack ==
  ASSUME Base, StockConserved, NEW o \in Orders, status[o] \in {Unpaid} \cup Settled,
         status' = [status EXCEPT ![o] = "CANCELLED"], stock' = stock + 1
  PROVE  StockConserved'
<1>1. status \in [Orders -> {"none", Unpaid, "CANCELLED"} \cup Settled] /\ stock \in Nat
  BY BaseParts DEF ShelfOK
<1>2. o \in OffShelf
  BY DEF OffShelf
<1>3. OffShelf' = OffShelf \ {o}
  BY <1>1 DEF OffShelf, Unpaid, Settled
<1>4. Cardinality(OffShelf') = Cardinality(OffShelf) - 1
  BY <1>2, <1>3, OffShelfFinite, FS_RemoveElement
<1> QED
  BY <1>1, <1>4, OffShelfFinite, ShopAssumption

LEMMA MoveOn ==
  ASSUME Base, StockConserved, NEW o \in Orders, NEW st \in Settled,
         status[o] \in {Unpaid} \cup Settled,
         status' = [status EXCEPT ![o] = st], stock' = stock
  PROVE  StockConserved'
<1>1. status \in [Orders -> {"none", Unpaid, "CANCELLED"} \cup Settled]
  BY BaseParts DEF ShelfOK
<1>2. OffShelf' = OffShelf
  BY <1>1 DEF OffShelf
<1> QED
  BY <1>2, OffShelfFinite

LEMMA StockFrame == StockConserved /\ UNCHANGED shelf => StockConserved'
  BY DEF StockConserved, shelf

LEMMA PairFrame ==
  SalesAndRefundsPair /\ UNCHANGED <<status, bought, refunded>> => SalesAndRefundsPair'
  BY DEF SalesAndRefundsPair

LEMMA ExplainedFrame ==
  Explained /\ UNCHANGED <<status, payment, gateway, declined>> => Explained'
  BY DEF Explained, FailureExplained

LEMMA SoloFrame == NoSolo /\ UNCHANGED call => NoSolo'
  BY DEF NoSolo

LEMMA SoloStep ==
  ASSUME Base, NoSolo, NEW s \in Sessions, NEW c, c.step # "wallet",
         call' = [call EXCEPT ![s] = c]
  PROVE  NoSolo'
<1>1. call \in [Sessions -> Call]
  BY BaseParts DEF CallsOK
<1> QED
  BY <1>1 DEF NoSolo

LEMMA SoloEnd ==
  ASSUME Base, NoSolo, NEW s \in Sessions, End(s) PROVE NoSolo'
<1>1. NoCall.step # "wallet"
  BY AtFields DEF NoCall
<1> QED
  BY <1>1, SoloStep DEF End

-----------------------------------------------------------------------------
(* What the order's lock keeps.                                              *)

LEMMA LockFrame == LockInv /\ UNCHANGED <<status, call>> => LockInv'
  BY DEF LockInv

\* A call that takes no lock takes a step
LEMMA LockStep ==
  ASSUME Base, LockInv, NEW s \in Sessions, NEW c, c.step \notin Locking,
         call' = [call EXCEPT ![s] = c], UNCHANGED status
  PROVE  LockInv'
<1>1. call \in [Sessions -> Call]
  BY BaseParts DEF CallsOK
<1>2. call'[s] = c /\ \A t \in Sessions : t # s => call'[t] = call[t]
  BY <1>1
<1> QED
  BY <1>2 DEF LockInv, Locking

LEMMA LockEnd ==
  ASSUME Base, LockInv, NEW s \in Sessions, End(s), UNCHANGED status
  PROVE  LockInv'
<1>1. NoCall.step \notin Locking
  BY AtFields DEF NoCall, Locking
<1> QED
  BY <1>1, LockStep DEF End

\* A call locks an order that nobody has locked
LEMMA LockTaken ==
  ASSUME Base, LockInv, NEW s \in Sessions, NEW c,
         call' = [call EXCEPT ![s] = c], UNCHANGED status,
         ~Locked(c.order),
         c.step = "close" => status[c.order] = Unpaid,
         c.step = "void" => status[c.order] \in {Unpaid, "PAID", "PROCESSING"}
  PROVE  LockInv'
<1>1. call \in [Sessions -> Call]
  BY BaseParts DEF CallsOK
<1>2. call'[s] = c /\ \A t \in Sessions : t # s => call'[t] = call[t]
  BY <1>1
<1>3. \A t \in Sessions : call[t].step \in Locking => call[t].order # c.order
  BY DEF Locked
<1> QED
  BY <1>2, <1>3 DEF LockInv

\* The one that holds the lock writes the order and ends
LEMMA LockLeft ==
  ASSUME Base, LockInv, NEW s \in Sessions, call[s].step \in Locking, End(s),
         NEW st, \/ UNCHANGED status
                 \/ status' = [status EXCEPT ![call[s].order] = st]
  PROVE  LockInv'
<1>1. /\ call \in [Sessions -> Call] /\ NoCall.step = "idle"
      /\ status \in [Orders -> {"none", Unpaid, "CANCELLED"} \cup Settled]
  BY BaseParts, AtFields DEF CallsOK, ShelfOK, NoCall
<1>2. call'[s] = NoCall /\ \A t \in Sessions : t # s => call'[t] = call[t]
  BY <1>1 DEF End
<1>3. \A t \in Sessions : t # s /\ call[t].step \in Locking
                            => call[t].order # call[s].order
  BY DEF LockInv
<1>4. \A t \in Sessions : t # s /\ call[t].step \in Locking
                            => status'[call[t].order] = status[call[t].order]
  <2>1. SUFFICES ASSUME NEW t \in Sessions, t # s, call[t].step \in Locking
                 PROVE  status'[call[t].order] = status[call[t].order]
    OBVIOUS
  <2>2. call[t].order \in Orders
    BY <2>1, BaseParts, CallKnown DEF CallOK, Locking
  <2> QED
    BY <1>1, <1>3, <2>1, <2>2
<1> QED
  BY <1>1, <1>2, <1>4 DEF LockInv, Locking

\* An order nobody is closing is written
LEMMA LockFree ==
  ASSUME Base, LockInv, NEW o \in Orders, NEW st, UNCHANGED call,
         status' = [status EXCEPT ![o] = st],
         \A t \in Sessions : call[t].step \in {"close", "void"} => call[t].order # o
  PROVE  LockInv'
<1>1. status \in [Orders -> {"none", Unpaid, "CANCELLED"} \cup Settled]
  BY BaseParts DEF ShelfOK
<1>2. \A p \in Orders : p # o => status'[p] = status[p]
  BY <1>1
<1>3. \A t \in Sessions : call[t].step \in {"close", "void"}
                            => status'[call[t].order] = status[call[t].order]
  BY <1>1
<1> QED
  BY <1>3 DEF LockInv

\* A closed order explains the failure of its payments
LEMMA CloseExplains ==
  ASSUME Base, Explained, NEW o \in Orders, FailPending(o), UNCHANGED bank,
         status' = [status EXCEPT ![o] = "CANCELLED"]
  PROVE  Explained'
<1>1. status \in [Orders -> {"none", Unpaid, "CANCELLED"} \cup Settled] /\ RowsOK
  BY BaseParts DEF ShelfOK
<1>2. /\ \A h \in Gateways : payment'[h].order = payment[h].order
      /\ \A h \in Gateways : payment'[h].status = "FAILED" =>
           payment[h].status = "FAILED" \/ payment[h].order = o
  BY <1>1, FailRows
<1> QED
  BY <1>1, <1>2 DEF Explained, FailureExplained, bank

LEMMA IndInit == Init => IndInv
<1> SUFFICES ASSUME Init PROVE IndInv
  OBVIOUS
<1>1. Base
  BY BaseInit
<1>2. StockConserved
  <2>1. OffShelf = {}
    BY DEF Init, OffShelf, Unpaid, Settled
  <2> QED
    BY <2>1, OffShelfFinite, FS_EmptySet, ShopAssumption DEF Init
<1>3. SalesAndRefundsPair
  BY DEF Init, SalesAndRefundsPair, Settled
<1>4. Explained
  BY RowFields DEF Init, Explained, FailureExplained
<1>5. NoSolo
  BY AtFields DEF Init, NoSolo, NoCall
<1>6. LockInv
  BY AtFields DEF Init, LockInv, NoCall, Locking
<1> QED
  BY <1>1, <1>2, <1>3, <1>4, <1>5, <1>6, IndParts

LEMMA CheckoutInd ==
  ASSUME IndInv, NEW o \in Orders, Checkout(o)
  PROVE  StockConserved' /\ SalesAndRefundsPair' /\ Explained' /\ NoSolo' /\ LockInv'
<1>1. Base /\ StockConserved /\ SalesAndRefundsPair /\ Explained /\ NoSolo /\ LockInv
  BY IndParts
<1>2. status \in [Orders -> {"none", Unpaid, "CANCELLED"} \cup Settled]
  BY <1>1, BaseParts DEF ShelfOK
<1>3. StockConserved'
  BY <1>1, TakeOff DEF Checkout
<1>4. SalesAndRefundsPair'
  BY <1>1, <1>2 DEF SalesAndRefundsPair, Checkout, money, Unpaid, Settled
<1>5. Explained'
  BY <1>1, <1>2, BaseParts DEF Explained, FailureExplained, Checkout, bank
<1>6. LockInv'
  <2>1. \A t \in Sessions : call[t].step \in {"close", "void"} => call[t].order # o
    BY <1>1 DEF LockInv, Checkout, Unpaid
  <2> QED
    BY <1>1, <2>1, LockFree DEF Checkout
<1> QED
  BY <1>1, <1>3, <1>4, <1>5, <1>6, SoloFrame DEF Checkout

LEMMA CloseInd ==
  ASSUME IndInv, NEW s \in Sessions, CloseUnpaid(s)
  PROVE  StockConserved' /\ SalesAndRefundsPair' /\ Explained' /\ NoSolo' /\ LockInv'
<1> DEFINE o == call[s].order
<1>1. Base /\ StockConserved /\ SalesAndRefundsPair /\ Explained /\ NoSolo /\ LockInv
  BY IndParts
<1>2. /\ status \in [Orders -> {"none", Unpaid, "CANCELLED"} \cup Settled]
      /\ o \in Orders /\ status[o] = Unpaid
  BY <1>1, BaseParts, CallKnown DEF ShelfOK, CallOK, LockInv, CloseUnpaid
<1>3. /\ status' = [status EXCEPT ![o] = "CANCELLED"] /\ stock' = stock + 1
      /\ FailPending(o) /\ End(s) /\ UNCHANGED <<bank, bought, refunded>>
  BY DEF CloseUnpaid, money
<1>4. StockConserved'
  BY <1>1, <1>2, <1>3, PutBack
<1>5. SalesAndRefundsPair'
  BY <1>1, <1>2, <1>3 DEF SalesAndRefundsPair, Unpaid, Settled
<1>6. Explained'
  BY <1>1, <1>2, <1>3, CloseExplains
<1>7. LockInv'
  BY <1>1, <1>3, LockLeft DEF CloseUnpaid, Locking
<1> QED
  BY <1>1, <1>3, <1>4, <1>5, <1>6, <1>7, SoloEnd

LEMMA AdminCancelInd ==
  ASSUME IndInv, NEW s \in Sessions, AdminCancel(s)
  PROVE  StockConserved' /\ SalesAndRefundsPair' /\ Explained' /\ NoSolo' /\ LockInv'
<1> DEFINE o == call[s].order
<1>1. Base /\ StockConserved /\ SalesAndRefundsPair /\ Explained /\ NoSolo /\ LockInv
  BY IndParts
<1>2. /\ status \in [Orders -> {"none", Unpaid, "CANCELLED"} \cup Settled]
      /\ refunded \in [Orders -> BOOLEAN]
      /\ o \in Orders /\ status[o] \in {Unpaid, "PAID", "PROCESSING"}
  BY <1>1, BaseParts, CallKnown DEF ShelfOK, MoneyOK, CallOK, LockInv, AdminCancel
<1>3. /\ status' = [status EXCEPT ![o] = "CANCELLED"] /\ stock' = stock + 1
      /\ FailPending(o) /\ End(s) /\ UNCHANGED bank
  BY DEF AdminCancel
<1>4. StockConserved'
  BY <1>1, <1>2, <1>3, PutBack DEF Settled
<1>5. SalesAndRefundsPair'
  <2> DEFINE refund == status[o] \in {"PAID", "PROCESSING"} /\ ~refunded[o]
  <2>1. bought' = bought /\ refunded' = [refunded EXCEPT ![o] = @ \/ refund]
    BY DEF AdminCancel
  <2>2. ~refunded[o]
    BY <1>1, <1>2 DEF SalesAndRefundsPair, Unpaid
  <2>3. ASSUME NEW p \in Orders, p # o
        PROVE  status'[p] = status[p] /\ refunded'[p] = refunded[p]
    BY <1>2, <1>3, <2>1, <2>3
  <2>4. status'[o] = "CANCELLED" /\ (refunded'[o] <=> status[o] \in {"PAID", "PROCESSING"})
    BY <1>2, <1>3, <2>1, <2>2
  <2>5. bought[o] = IF status[o] \in {"PAID", "PROCESSING"} THEN 1 ELSE 0
    BY <1>1, <1>2, <2>2 DEF SalesAndRefundsPair, Unpaid, Settled
  <2>6. ASSUME NEW p \in Orders
        PROVE  /\ bought'[p] = IF status'[p] \in Settled \/ refunded'[p] THEN 1 ELSE 0
               /\ refunded'[p] => status'[p] = "CANCELLED"
    <3>1. CASE p = o
      BY <2>1, <2>4, <2>5, <3>1 DEF Settled
    <3>2. CASE p # o
      BY <1>1, <2>1, <2>3, <3>2 DEF SalesAndRefundsPair
    <3> QED
      BY <3>1, <3>2
  <2> QED
    BY <2>6 DEF SalesAndRefundsPair
<1>6. Explained'
  BY <1>1, <1>2, <1>3, CloseExplains
<1>7. LockInv'
  BY <1>1, <1>3, LockLeft DEF AdminCancel, Locking
<1> QED
  BY <1>1, <1>3, <1>4, <1>5, <1>6, <1>7, SoloEnd

LEMMA FulfilInd ==
  ASSUME IndInv, NEW o \in Orders, Fulfil(o)
  PROVE  StockConserved' /\ SalesAndRefundsPair' /\ Explained' /\ NoSolo' /\ LockInv'
<1>1. Base /\ StockConserved /\ SalesAndRefundsPair /\ Explained /\ NoSolo /\ LockInv
  BY IndParts
<1>2. status \in [Orders -> {"none", Unpaid, "CANCELLED"} \cup Settled]
  BY <1>1, BaseParts DEF ShelfOK
<1>3. PICK st \in Settled : status[o] \in Settled /\ status' = [status EXCEPT ![o] = st]
  BY DEF Fulfil, Process, Ship, Deliver, Settled
<1>4. StockConserved'
  BY <1>1, <1>3, MoveOn DEF Fulfil
<1>5. SalesAndRefundsPair'
  BY <1>1, <1>2, <1>3 DEF SalesAndRefundsPair, Fulfil, money, Settled
<1>6. Explained'
  BY <1>1, <1>2, <1>3, BaseParts DEF Explained, FailureExplained, Fulfil, Settled, bank
<1>7. LockInv'
  <2>1. \A t \in Sessions : call[t].step \in {"close", "void"} => call[t].order # o
    BY DEF Fulfil, Locked, Locking
  <2> QED
    BY <1>1, <1>3, <2>1, LockFree DEF Fulfil
<1> QED
  BY <1>1, <1>4, <1>5, <1>6, <1>7, SoloFrame DEF Fulfil

LEMMA FinalizeInd ==
  ASSUME IndInv, NEW s \in Sessions, Finalize(s)
  PROVE  StockConserved' /\ SalesAndRefundsPair' /\ Explained' /\ NoSolo' /\ LockInv'
<1> DEFINE g == call[s].gateway
           o == call[s].order
<1>1. Base /\ StockConserved /\ SalesAndRefundsPair /\ Explained /\ NoSolo /\ LockInv
  BY IndParts
<1>2. /\ status \in [Orders -> {"none", Unpaid, "CANCELLED"} \cup Settled]
      /\ bought \in [Orders -> Nat]
      /\ RowsOK
  BY <1>1, BaseParts DEF ShelfOK, MoneyOK
<1>3. g \in Gateways /\ o \in Orders /\ payment[g].status # "none"
  BY <1>1, BaseParts, CallKnown DEF CallOK, Finalize
<1>4. /\ Mark(g, "SUCCESS") /\ End(s) /\ UNCHANGED <<stock, bank, refunded>>
      /\ status[o] \in {Unpaid, "PAID"}
      /\ IF status[o] = Unpaid
         THEN /\ bought' = [bought EXCEPT ![o] = @ + 1]
              /\ status' = [status EXCEPT ![o] = "PAID"]
         ELSE UNCHANGED <<bought, status>>
  BY DEF Finalize
<1>5. Explained'
  <2>1. /\ \A h \in Gateways : payment'[h].order = payment[h].order
        /\ payment'[g].status = "SUCCESS"
        /\ \A h \in Gateways : h # g => payment'[h].status = payment[h].status
    BY <1>2, <1>3, <1>4, MarkRows, RowFields DEF Mark, RowsOK
  <2>2. \A p \in Orders : status[p] = "CANCELLED" => status'[p] = "CANCELLED"
    BY <1>2, <1>4 DEF Unpaid
  <2>3. \A h \in Gateways : payment[h].status # "none" => payment[h].order \in Orders
    BY <1>2 DEF RowsOK, PaymentInv
  <2> QED
    BY <1>1, <1>4, <2>1, <2>2, <2>3 DEF Explained, FailureExplained, bank
<1>6. LockInv'
  BY <1>1, <1>4, LockLeft DEF Finalize, Locking
<1>7. CASE status[o] = Unpaid
  <2>1. StockConserved'
    BY <1>1, <1>3, <1>4, <1>7, MoveOn DEF Settled
  <2>2. SalesAndRefundsPair'
    BY <1>1, <1>2, <1>3, <1>4, <1>7 DEF SalesAndRefundsPair, Unpaid, Settled
  <2> QED
    BY <1>1, <1>4, <1>5, <1>6, <2>1, <2>2, SoloEnd
<1>8. CASE status[o] # Unpaid
  BY <1>1, <1>4, <1>5, <1>6, <1>8, StockFrame, PairFrame, SoloEnd DEF shelf
<1> QED
  BY <1>7, <1>8

LEMMA FailPaymentInd ==
  ASSUME IndInv, NEW s \in Sessions, FailPayment(s)
  PROVE  StockConserved' /\ SalesAndRefundsPair' /\ Explained' /\ NoSolo' /\ LockInv'
<1> DEFINE g == call[s].gateway
<1>1. Base /\ StockConserved /\ SalesAndRefundsPair /\ Explained /\ NoSolo /\ LockInv
  BY IndParts
<1>2. RowsOK /\ CallsOK
  BY <1>1, BaseParts
<1>3. /\ g \in Gateways /\ payment[g].status # "none"
      /\ gateway[g] = "cancelled" \/ g \in declined
  BY <1>2, CallKnown DEF CallOK, FailPayment
<1>4. Mark(g, "FAILED") /\ UNCHANGED <<gateway, declined, status>>
  BY DEF FailPayment, shelf, bank
<1>5. Explained'
  <2>1. /\ \A h \in Gateways : payment'[h].order = payment[h].order
        /\ \A h \in Gateways : h # g => payment'[h].status = payment[h].status
    BY <1>2, <1>3, <1>4, MarkRows DEF Mark, RowsOK
  <2> QED
    BY <1>1, <1>3, <1>4, <2>1 DEF Explained, FailureExplained
<1>6. LockInv'
  BY <1>1, LockEnd DEF FailPayment, shelf
<1> QED
  BY <1>1, <1>5, <1>6, StockFrame, PairFrame, SoloEnd DEF FailPayment, shelf, money

\* The actions that only move a call on, or the gateway
LEMMA QuietInd ==
  ASSUME IndInv, UNCHANGED <<shelf, bought, refunded, payment>>,
         \A g \in Gateways : gateway[g] = "cancelled" => gateway'[g] = "cancelled",
         declined \subseteq declined', NoSolo', LockInv'
  PROVE  StockConserved' /\ SalesAndRefundsPair' /\ Explained' /\ NoSolo' /\ LockInv'
<1>1. Explained'
  BY IndParts DEF Explained, FailureExplained, shelf
<1> QED
  BY <1>1, IndParts, StockFrame, PairFrame DEF shelf

LEMMA QuietStep ==
  ASSUME IndInv, UNCHANGED <<shelf, bought, refunded, payment>>,
         \A g \in Gateways : gateway[g] = "cancelled" => gateway'[g] = "cancelled",
         declined \subseteq declined',
         NEW s \in Sessions, NEW c, call' = [call EXCEPT ![s] = c],
         c.step \notin Locking \cup {"wallet"}
  PROVE  StockConserved' /\ SalesAndRefundsPair' /\ Explained' /\ NoSolo' /\ LockInv'
<1>1. NoSolo' /\ LockInv'
  BY IndParts, SoloStep, LockStep DEF shelf
<1> QED
  BY <1>1, QuietInd

LEMMA QuietLock ==
  ASSUME IndInv, UNCHANGED <<shelf, money, payment, bank>>,
         NEW s \in Sessions, NEW st \in Locking, NEW o, NEW g, NEW share,
         call' = [call EXCEPT ![s] = At(st, o, g, share)], ~Locked(o),
         st = "close" => status[o] = Unpaid,
         st = "void" => status[o] \in {Unpaid, "PAID", "PROCESSING"}
  PROVE  StockConserved' /\ SalesAndRefundsPair' /\ Explained' /\ NoSolo' /\ LockInv'
<1> DEFINE c == At(st, o, g, share)
<1>1. c.step = st /\ c.order = o /\ c.step # "wallet"
  BY AtFields DEF Locking
<1>2. call' = [call EXCEPT ![s] = c]
  OBVIOUS
<1> HIDE DEF c
<1>3. NoSolo' /\ LockInv'
  BY <1>1, <1>2, IndParts, SoloStep, LockTaken DEF shelf
<1> QED
  BY <1>3, QuietInd DEF money, bank

LEMMA BeginGatewayInd ==
  ASSUME IndInv, NEW s \in Sessions, NEW g \in Gateways, BeginGateway(s, g)
  PROVE  StockConserved' /\ SalesAndRefundsPair' /\ Explained' /\ NoSolo' /\ LockInv'
<1> DEFINE row == Row(call[s].order, Price - call[s].share, "PENDING")
<1>1. Base /\ StockConserved /\ SalesAndRefundsPair /\ Explained /\ NoSolo /\ LockInv
  BY IndParts
<1>2. /\ payment \in [Gateways -> Payment]
      /\ gateway \in [Gateways -> {"none", "open", "paid", "cancelled", "captured"}]
  BY <1>1, BaseParts DEF RowsOK
<1>3. row.status = "PENDING"
  BY RowFields
<1>4. /\ payment' = [payment EXCEPT ![g] = row]
      /\ gateway' = [gateway EXCEPT ![g] = "open"]
      /\ UNCHANGED <<status, declined>>
  BY DEF BeginGateway, shelf
<1> HIDE DEF row
<1>5. Explained'
  BY <1>1, <1>2, <1>3, <1>4 DEF Explained, FailureExplained
<1>6. LockInv'
  BY <1>1, LockEnd DEF BeginGateway, shelf
<1> QED
  BY <1>1, <1>5, <1>6, StockFrame, PairFrame, SoloEnd DEF BeginGateway, shelf, money

LEMMA PayInd ==
  ASSUME IndInv, "WALLET" \notin Modes, NEW s \in Sessions, NEW o \in Orders,
         NEW m \in Modes, NEW share \in Shares, Pay(s, o, m, share)
  PROVE  StockConserved' /\ SalesAndRefundsPair' /\ Explained' /\ NoSolo' /\ LockInv'
<1> DEFINE c == CASE m = "WALLET"  -> At("wallet", o, NoGateway, 0)
                  [] m = "GATEWAY" -> At("begin", o, NoGateway, 0)
                  [] m = "MIXED"   -> At("reserve", o, NoGateway, share)
<1>1. c.step \notin Locking \cup {"wallet"}
  BY ShopAssumption, AtFields DEF Locking
<1>2. call' = [call EXCEPT ![s] = c]
  BY DEF Pay
<1> HIDE DEF c
<1> QED
  BY <1>1, <1>2, QuietStep DEF Pay, shelf, money, bank

\* A call of pay or of the callback goes on and takes no lock
LEMMA GoOnInd ==
  ASSUME IndInv, NEW s \in Sessions, NEW o, NEW g, NEW share,
         NEW st \in {"begin", "undo", "verify", "refused", "commit", "fail"},
         call' = [call EXCEPT ![s] = At(st, o, g, share)],
         UNCHANGED <<shelf, bought, refunded, payment>>,
         \A h \in Gateways : gateway[h] = "cancelled" => gateway'[h] = "cancelled",
         declined \subseteq declined'
  PROVE  StockConserved' /\ SalesAndRefundsPair' /\ Explained' /\ NoSolo' /\ LockInv'
<1> DEFINE c == At(st, o, g, share)
<1>1. c.step \notin Locking \cup {"wallet"}
  BY AtFields DEF Locking
<1>2. call' = [call EXCEPT ![s] = c]
  OBVIOUS
<1> HIDE DEF c
<1> QED
  BY <1>1, <1>2, QuietStep

LEMMA VerifyInd ==
  ASSUME IndInv, NEW s \in Sessions, Verify(s)
  PROVE  StockConserved' /\ SalesAndRefundsPair' /\ Explained' /\ NoSolo' /\ LockInv'
<1>1. gateway \in [Gateways -> {"none", "open", "paid", "cancelled", "captured"}]
  BY IndParts, BaseParts DEF RowsOK
<1>2. /\ \A h \in Gateways : gateway[h] = "cancelled" => gateway'[h] = "cancelled"
      /\ declined \subseteq declined'
  BY <1>1 DEF Verify, SaysGivenUp, bank
<1>3. PICK st \in {"refused", "commit"} :
        call' = [call EXCEPT ![s] = At(st, call[s].order, call[s].gateway, 0)]
  BY DEF Verify, SaysGivenUp
<1> QED
  BY <1>2, <1>3, GoOnInd DEF Verify, shelf, money

LEMMA EndInd ==
  ASSUME IndInv, NEW s \in Sessions, UndoReserve(s) \/ Drop(s)
  PROVE  StockConserved' /\ SalesAndRefundsPair' /\ Explained' /\ NoSolo' /\ LockInv'
<1>1. call' = [call EXCEPT ![s] = NoCall] /\ NoCall.step \notin Locking \cup {"wallet"}
  BY AtFields DEF UndoReserve, Drop, End, NoCall, Locking
<1> QED
  BY <1>1, QuietStep DEF UndoReserve, Drop, shelf, money, bank

LEMMA UserAtGatewayInd ==
  ASSUME IndInv, NEW g \in Gateways, UserAtGateway(g)
  PROVE  StockConserved' /\ SalesAndRefundsPair' /\ Explained' /\ NoSolo' /\ LockInv'
<1>1. NoSolo' /\ LockInv'
  BY IndParts, SoloFrame, LockFrame DEF UserAtGateway, shelf
<1>2. gateway \in [Gateways -> {"none", "open", "paid", "cancelled", "captured"}]
  BY IndParts, BaseParts DEF RowsOK
<1>3. \A h \in Gateways : gateway[h] = "cancelled" => gateway'[h] = "cancelled"
  BY <1>2 DEF UserAtGateway
<1> QED
  BY <1>1, <1>3, QuietInd DEF UserAtGateway, shelf, money

LEMMA IndStep ==
  ASSUME "WALLET" \notin Modes
  PROVE  IndInv /\ [Next]_vars => IndInv'
<1> SUFFICES ASSUME IndInv, [Next]_vars PROVE IndInv'
  OBVIOUS
<1> DEFINE Rest == /\ StockConserved' /\ SalesAndRefundsPair'
                   /\ Explained' /\ NoSolo' /\ LockInv'
<1>1. CASE UNCHANGED vars
  <2>1. NoSolo' /\ LockInv'
    BY <1>1, IndParts, SoloFrame, LockFrame DEF vars
  <2>2. Rest
    BY <1>1, <2>1, QuietInd DEF vars, shelf
  <2> QED
    BY <1>1, <2>2, IndParts, IndPartsNext, BaseStep
<1>2. ASSUME NEW o \in Orders, Checkout(o) \/ Fulfil(o) PROVE Rest
  BY <1>2, CheckoutInd, FulfilInd
<1>3. ASSUME NEW o \in Orders, HoldExpires(o) PROVE Rest
  <2>1. NoSolo' /\ LockInv'
    BY <1>3, IndParts, SoloFrame, LockFrame DEF HoldExpires, shelf
  <2> QED
    BY <1>3, <2>1, QuietInd DEF HoldExpires, shelf, money, bank
<1>4. ASSUME NEW s \in Sessions, NEW o \in Orders, NEW m \in Modes,
             NEW share \in Shares, Pay(s, o, m, share)
      PROVE  Rest
  BY <1>4, PayInd
<1>5. ASSUME NEW s \in Sessions, NEW o \in Orders,
             CancelByUser(s, o) \/ ExpireStale(s, o) \/ BeginVoid(s, o)
      PROVE  Rest
  BY <1>5, QuietLock DEF CancelByUser, ExpireStale, BeginClose, BeginVoid, Locking
<1>6. ASSUME NEW s \in Sessions, CallbackCommit(s) PROVE Rest
  BY <1>6, QuietLock DEF CallbackCommit, Locking
<1>7. ASSUME NEW s \in Sessions, CaptureWallet(s) PROVE Rest
  BY <1>7, IndParts DEF CaptureWallet, NoSolo
<1>8. ASSUME NEW s \in Sessions, ReserveHold(s) \/ BeginFails(s) \/ CallbackRefused(s)
      PROVE  Rest
  BY <1>8, GoOnInd DEF ReserveHold, BeginFails, CallbackRefused, shelf, money, bank
<1>9. ASSUME NEW s \in Sessions, NEW g \in Gateways, Callback(s, g) PROVE Rest
  BY <1>9, GoOnInd DEF Callback, shelf, money, bank
<1>10. ASSUME NEW s \in Sessions,
              CloseUnpaid(s) \/ AdminCancel(s) \/ Verify(s) \/ FailPayment(s)
                \/ Finalize(s) \/ UndoReserve(s) \/ Drop(s)
       PROVE  Rest
  BY <1>10, CloseInd, AdminCancelInd, VerifyInd, FailPaymentInd, FinalizeInd, EndInd
<1>11. ASSUME NEW s \in Sessions, NEW g \in Gateways, BeginGateway(s, g) PROVE Rest
  BY <1>11, BeginGatewayInd
<1>12. ASSUME NEW g \in Gateways, UserAtGateway(g) PROVE Rest
  BY <1>12, UserAtGatewayInd
<1>13. CASE Next
  <2>1. Rest
    BY <1>2, <1>3, <1>4, <1>5, <1>6, <1>7, <1>8, <1>9, <1>10, <1>11, <1>12, <1>13
       DEF Next
  <2> QED
    BY <2>1, IndParts, IndPartsNext, BaseStep
<1> QED
  BY <1>1, <1>13

\* The invariant the shop's promises follow from, when nobody pays from the
\* wallet alone: callbacks that are repeated, late or lost, cancellations and
\* expiry in any order (handleGatewayCallback, cancelByUser, adminCancel,
\* expireStaleOrders).
THEOREM ShopInvariance ==
  ASSUME "WALLET" \notin Modes PROVE Spec => []IndInv
  BY IndInit, IndStep, PTL DEF Spec

\* releaseStock puts a unit back once for every unit checkout took: the shelf
\* and the orders that are open or settled make up the first stock.
THEOREM NoUnitLostOrSoldTwice ==
  ASSUME "WALLET" \notin Modes PROVE Spec => []StockConserved
<1>1. IndInv => StockConserved
  BY DEF IndInv
<1> QED
  BY <1>1, ShopInvariance, PTL

\* However many payments were begun for an order and confirmed at the gateway,
\* it is sold once, and refunded exactly if it is cancelled after that.
THEOREM SoldOnceRefundedOnce ==
  ASSUME "WALLET" \notin Modes PROVE Spec => []SalesAndRefundsPair
<1>1. IndInv => SalesAndRefundsPair
  BY DEF IndInv
<1> QED
  BY <1>1, ShopInvariance, PTL

\* A payment the gateway has taken is FAILED only if its order is cancelled, or
\* a callback of it said that the user gave up (verifyPayment): no lost answer,
\* late callback or race of two of them turns the user's money down.
THEOREM TakenMoneyTurnedDown ==
  ASSUME "WALLET" \notin Modes PROVE Spec => []CapturedOrCancelled
<1>1. IndInv => CapturedOrCancelled
  BY DEF IndInv, FailureExplained, CapturedOrCancelled
<1> QED
  BY <1>1, ShopInvariance, PTL

\* No callback, however late, brings a cancelled order back.
THEOREM CancelledForGood ==
  ASSUME "WALLET" \notin Modes PROVE Spec => CancelledStays
<1>1. IndInv /\ [Next]_vars =>
        [\A o \in Orders : status[o] = "CANCELLED" => status'[o] = "CANCELLED"]_vars
  <2> SUFFICES ASSUME IndInv, Next, NEW p \in Orders, status[p] = "CANCELLED"
               PROVE  status'[p] = "CANCELLED"
    BY DEF vars
  <2>1. status \in [Orders -> {"none", Unpaid, "CANCELLED"} \cup Settled]
    BY IndParts, BaseParts DEF ShelfOK
  <2>2. ASSUME NEW o \in Orders, Checkout(o) \/ Fulfil(o) \/ HoldExpires(o)
        PROVE  status'[p] = "CANCELLED"
    BY <2>1, <2>2 DEF Checkout, Fulfil, Process, Ship, Deliver, HoldExpires, shelf
  <2>3. ASSUME NEW s \in Sessions,
               CloseUnpaid(s) \/ AdminCancel(s) \/ Finalize(s)
        PROVE  status'[p] = "CANCELLED"
    BY <2>1, <2>3 DEF CloseUnpaid, AdminCancel, Finalize, Unpaid
  <2>4. ASSUME NEW s \in Sessions, CaptureWallet(s) PROVE status'[p] = "CANCELLED"
    BY <2>4, IndParts DEF CaptureWallet, NoSolo
  <2>5. ASSUME NEW s \in Sessions,
               ReserveHold(s) \/ BeginFails(s) \/ UndoReserve(s) \/ Verify(s)
                 \/ CallbackRefused(s) \/ FailPayment(s) \/ CallbackCommit(s)
                 \/ Drop(s)
        PROVE  status'[p] = "CANCELLED"
    BY <2>5 DEF ReserveHold, BeginFails, UndoReserve, Verify, CallbackRefused,
       FailPayment, CallbackCommit, Drop, shelf
  <2>6. ASSUME NEW s \in Sessions, NEW o \in Orders,
               \/ CancelByUser(s, o) \/ ExpireStale(s, o) \/ BeginVoid(s, o)
               \/ \E m \in Modes, share \in Shares : Pay(s, o, m, share)
        PROVE  status'[p] = "CANCELLED"
    BY <2>6 DEF CancelByUser, ExpireStale, BeginClose, BeginVoid, Pay, shelf
  <2>7. ASSUME NEW s \in Sessions, NEW g \in Gateways,
               BeginGateway(s, g) \/ Callback(s, g)
        PROVE  status'[p] = "CANCELLED"
    BY <2>7 DEF BeginGateway, Callback, shelf
  <2>8. ASSUME NEW g \in Gateways, UserAtGateway(g) PROVE status'[p] = "CANCELLED"
    BY <2>8 DEF UserAtGateway, shelf
  <2> QED
    BY <2>2, <2>3, <2>4, <2>5, <2>6, <2>7, <2>8 DEF Next
<1> QED
  BY <1>1, ShopInvariance, PTL DEF Spec, CancelledStays

-----------------------------------------------------------------------------
(* ShopPayment implements OrderPromise, when no order is paid from the       *)
(* wallet alone.                                                             *)

\* The order each status stands for
LEMMA LifeAt ==
  ASSUME NEW o \in Orders, ShelfOK
  PROVE  /\ status[o] = "none" => Life[o] = "none"
         /\ status[o] = Unpaid => Life[o] = "open"
         /\ status[o] \in {"PAID", "PROCESSING"} => Life[o] = "sold"
         /\ status[o] \in {"SHIPPED", "DELIVERED"} => Life[o] = "sent"
         /\ status[o] = "CANCELLED" =>
              Life[o] = IF refunded[o] THEN "refunded" ELSE "closed"
  BY DEF Life, Unpaid

LEMMA LifeAtNext ==
  ASSUME NEW o \in Orders
  PROVE  /\ status'[o] = "none" => Life'[o] = "none"
         /\ status'[o] = Unpaid => Life'[o] = "open"
         /\ status'[o] \in {"PAID", "PROCESSING"} => Life'[o] = "sold"
         /\ status'[o] \in {"SHIPPED", "DELIVERED"} => Life'[o] = "sent"
         /\ status'[o] = "CANCELLED" =>
              Life'[o] = IF refunded'[o] THEN "refunded" ELSE "closed"
  BY DEF Life, Unpaid

LEMMA LifeKept == UNCHANGED <<status, refunded>> => Life' = Life
  BY DEF Life

\* A step that changes one order's status moves that order's life alone
LEMMA LifeMoves ==
  ASSUME NEW o \in Orders, ShelfOK, NEW st,
         status' = [status EXCEPT ![o] = st],
         \A p \in Orders : p # o => refunded'[p] = refunded[p]
  PROVE  Life' = [Life EXCEPT ![o] = Life'[o]]
<1>1. \A p \in Orders : p # o => status'[p] = status[p]
  BY DEF ShelfOK
<1>2. \A p \in Orders : p # o => Life'[p] = Life[p]
  BY <1>1 DEF Life
<1>3. DOMAIN Life = Orders /\ DOMAIN Life' = Orders
  BY DEF Life
<1>4. Life = [p \in Orders |-> Life[p]] /\ Life' = [p \in Orders |-> Life'[p]]
  BY DEF Life
<1> QED
  BY <1>2, <1>3, <1>4

LEMMA PromiseInit == Init => Promise!Init
<1> SUFFICES ASSUME Init PROVE Promise!Init
  OBVIOUS
<1>1. \A o \in Orders : status[o] = "none"
  BY DEF Init
<1>2. Life = [o \in Orders |-> "none"]
  <2>1. \A o \in Orders : Life[o] = "none"
    BY <1>1 DEF Life, Unpaid
  <2>2. Life = [o \in Orders |-> Life[o]]
    BY DEF Life
  <2> QED
    BY <2>1, <2>2
<1>3. stock = Stock
  BY DEF Init
<1>4. ledger["4020"] = 0
  BY DEF Init, Accounts
<1> QED
  BY <1>2, <1>3, <1>4 DEF Promise!Init

LEMMA CheckoutPlaces ==
  ASSUME IndInv, NEW o \in Orders, Checkout(o) PROVE Promise!Place(o)
<1>1. ShelfOK
  BY IndParts, BaseParts
<1>2. Life' = [Life EXCEPT ![o] = Life'[o]]
  BY <1>1, LifeMoves DEF Checkout, money
<1>3. Life[o] = "none" /\ Life'[o] = "open"
  BY <1>1, LifeAt, LifeAtNext DEF Checkout, ShelfOK
<1> QED
  BY <1>2, <1>3 DEF Checkout, money, Promise!Place, Promise!Move

LEMMA CloseCloses ==
  ASSUME IndInv, NEW s \in Sessions, CloseUnpaid(s)
  PROVE  \E o \in Orders : Promise!Close(o)
<1> DEFINE o == call[s].order
<1>1. ShelfOK /\ o \in Orders /\ status[o] = Unpaid
  BY IndParts, BaseParts, CallKnown DEF CallOK, LockInv, CloseUnpaid
<1>2. ~refunded[o]
  BY <1>1, IndParts DEF SalesAndRefundsPair, Unpaid
<1>3. /\ status' = [status EXCEPT ![o] = "CANCELLED"] /\ stock' = stock + 1
      /\ UNCHANGED <<refunded, ledger>>
  BY DEF CloseUnpaid, money
<1>4. Life' = [Life EXCEPT ![o] = Life'[o]]
  BY <1>1, <1>3, LifeMoves
<1>5. Life[o] = "open" /\ Life'[o] = "closed"
  BY <1>1, <1>2, <1>3, LifeAt, LifeAtNext DEF ShelfOK
<1>6. Promise!Close(o)
  BY <1>3, <1>4, <1>5 DEF Promise!Close, Promise!Move
<1> QED
  BY <1>1, <1>6

LEMMA AdminCancelClosesOrRefunds ==
  ASSUME IndInv, NEW s \in Sessions, AdminCancel(s)
  PROVE  \E o \in Orders : Promise!Close(o) \/ Promise!Refund(o)
<1> DEFINE o == call[s].order
           refund == status[o] \in {"PAID", "PROCESSING"} /\ ~refunded[o]
<1>1. /\ ShelfOK /\ MoneyOK /\ o \in Orders
      /\ status[o] \in {Unpaid, "PAID", "PROCESSING"}
  BY IndParts, BaseParts, CallKnown DEF CallOK, LockInv, AdminCancel
<1>2. ~refunded[o]
  BY <1>1, IndParts DEF SalesAndRefundsPair, Unpaid
<1>3. /\ status' = [status EXCEPT ![o] = "CANCELLED"] /\ stock' = stock + 1
      /\ refunded' = [refunded EXCEPT ![o] = @ \/ refund]
  BY DEF AdminCancel
<1>4. Life' = [Life EXCEPT ![o] = Life'[o]]
  <2>1. \A p \in Orders : p # o => refunded'[p] = refunded[p]
    BY <1>1, <1>3 DEF MoneyOK
  <2> QED
    BY <1>1, <1>3, <2>1, LifeMoves
<1>5. /\ status'[o] = "CANCELLED"
      /\ refunded'[o] <=> status[o] \in {"PAID", "PROCESSING"}
  <2>1. status'[o] = "CANCELLED"
    BY <1>1, <1>3 DEF ShelfOK
  <2>2. refunded'[o] = (refunded[o] \/ refund)
    BY <1>1, <1>3, Zenon DEF MoneyOK
  <2> QED
    BY <1>2, <2>1, <2>2
<1>6. CASE status[o] = Unpaid
  <2>1. Life[o] = "open" /\ Life'[o] = "closed"
    BY <1>1, <1>5, <1>6, LifeAt, LifeAtNext DEF Unpaid
  <2>2. UNCHANGED ledger
    BY <1>6 DEF AdminCancel, Unpaid
  <2>3. Promise!Close(o)
    BY <1>3, <1>4, <2>1, <2>2 DEF Promise!Close, Promise!Move
  <2> QED
    BY <1>1, <2>3
<1>7. CASE status[o] \in {"PAID", "PROCESSING"}
  <2>1. Life[o] = "sold" /\ Life'[o] = "refunded"
    BY <1>1, <1>5, <1>7, LifeAt, LifeAtNext
  <2>2. ledger'["4020"] = ledger["4020"] - Price
    BY <1>1, <1>2, <1>7 DEF AdminCancel, MoneyOK, Accounts
  <2>3. Promise!Refund(o)
    BY <1>3, <1>4, <2>1, <2>2 DEF Promise!Refund, Promise!Move
  <2> QED
    BY <1>1, <2>3
<1> QED
  BY <1>1, <1>6, <1>7

LEMMA FulfilHandsOver ==
  ASSUME IndInv, NEW o \in Orders, Fulfil(o)
  PROVE  Promise!HandOver(o) \/ UNCHANGED Promise!vars
<1>1. ShelfOK /\ UNCHANGED <<stock, ledger, refunded>>
  BY IndParts, BaseParts DEF Fulfil, money
<1>2. PICK st \in Settled : status' = [status EXCEPT ![o] = st]
  BY DEF Fulfil, Process, Ship, Deliver, Settled
<1>3. Life' = [Life EXCEPT ![o] = Life'[o]]
  BY <1>1, <1>2, LifeMoves
<1>4. CASE Ship(o)
  <2>1. Life[o] = "sold" /\ Life'[o] = "sent"
    BY <1>1, <1>4, LifeAt, LifeAtNext DEF Ship, ShelfOK
  <2> QED
    BY <1>1, <1>3, <2>1 DEF Promise!HandOver, Promise!Move
<1>5. CASE Process(o) \/ Deliver(o)
  <2>1. Life'[o] = Life[o]
    BY <1>1, <1>5, LifeAt, LifeAtNext DEF Process, Deliver, ShelfOK
  <2>2. Life' = Life
    BY <1>3, <2>1, Zenon DEF Life
  <2> QED
    BY <1>1, <2>2 DEF Promise!vars
<1> QED
  BY <1>4, <1>5 DEF Fulfil

LEMMA FinalizeSells ==
  ASSUME IndInv, NEW s \in Sessions, Finalize(s)
  PROVE  (\E o \in Orders : Promise!Sell(o)) \/ UNCHANGED Promise!vars
<1> DEFINE o == call[s].order
<1>1. ShelfOK /\ MoneyOK /\ CallsOK /\ UNCHANGED <<stock, refunded>>
  BY IndParts, BaseParts DEF Finalize
<1>2. o \in Orders
  BY <1>1, CallKnown DEF CallOK, Finalize
<1>3. CASE status[o] = Unpaid
  <2>1. /\ status' = [status EXCEPT ![o] = "PAID"]
        /\ ledger'["4020"] = ledger["4020"] + Price
    BY <1>1, <1>3 DEF Finalize, PostSale, MoneyOK, Accounts
  <2>2. Life' = [Life EXCEPT ![o] = Life'[o]]
    BY <1>1, <1>2, <2>1, LifeMoves
  <2>3. Life[o] = "open" /\ Life'[o] = "sold"
    BY <1>1, <1>2, <1>3, <2>1, LifeAt, LifeAtNext DEF ShelfOK
  <2>4. Promise!Sell(o)
    BY <1>1, <2>1, <2>2, <2>3 DEF Promise!Sell, Promise!Move
  <2> QED
    BY <1>2, <2>4
<1>4. CASE status[o] # Unpaid
  <2>1. UNCHANGED <<status, ledger>>
    BY <1>4 DEF Finalize
  <2> QED
    BY <1>1, <2>1, LifeKept DEF Promise!vars
<1> QED
  BY <1>3, <1>4

LEMMA PromiseStep == IndInv /\ [Next]_vars => [Promise!Next]_(Promise!vars)
<1> SUFFICES ASSUME IndInv, [Next]_vars PROVE [Promise!Next]_(Promise!vars)
  OBVIOUS
<1>1. ASSUME UNCHANGED <<status, stock, refunded, ledger>>
      PROVE  UNCHANGED Promise!vars
  BY <1>1, LifeKept DEF Promise!vars
<1>2. CASE UNCHANGED vars
  BY <1>1, <1>2 DEF vars
<1>3. ASSUME NEW o \in Orders, Checkout(o) \/ Fulfil(o)
      PROVE  [Promise!Next]_(Promise!vars)
  BY <1>3, CheckoutPlaces, FulfilHandsOver DEF Promise!Next
<1>4. ASSUME NEW s \in Sessions, CloseUnpaid(s) \/ AdminCancel(s) \/ Finalize(s)
      PROVE  [Promise!Next]_(Promise!vars)
  BY <1>4, CloseCloses, AdminCancelClosesOrRefunds, FinalizeSells DEF Promise!Next
<1>5. ASSUME NEW s \in Sessions, CaptureWallet(s) PROVE FALSE
  BY <1>5, IndParts DEF CaptureWallet, NoSolo
<1>6. ASSUME NEW o \in Orders, HoldExpires(o) PROVE UNCHANGED Promise!vars
  BY <1>1, <1>6 DEF HoldExpires, shelf, money
<1>7. ASSUME NEW s \in Sessions,
             ReserveHold(s) \/ BeginFails(s) \/ UndoReserve(s) \/ Verify(s)
               \/ CallbackRefused(s) \/ FailPayment(s) \/ CallbackCommit(s)
               \/ Drop(s)
      PROVE  UNCHANGED Promise!vars
  BY <1>1, <1>7 DEF ReserveHold, BeginFails, UndoReserve, Verify, CallbackRefused,
     FailPayment, CallbackCommit, Drop, shelf, money
<1>8. ASSUME NEW s \in Sessions, NEW o \in Orders,
             \/ CancelByUser(s, o) \/ ExpireStale(s, o) \/ BeginVoid(s, o)
             \/ \E m \in Modes, share \in Shares : Pay(s, o, m, share)
      PROVE  UNCHANGED Promise!vars
  BY <1>1, <1>8 DEF CancelByUser, ExpireStale, BeginClose, BeginVoid, Pay, shelf, money
<1>9. ASSUME NEW s \in Sessions, NEW g \in Gateways,
             BeginGateway(s, g) \/ Callback(s, g)
      PROVE  UNCHANGED Promise!vars
  BY <1>1, <1>9 DEF BeginGateway, Callback, shelf, money
<1>10. ASSUME NEW g \in Gateways, UserAtGateway(g) PROVE UNCHANGED Promise!vars
  BY <1>1, <1>10 DEF UserAtGateway, shelf, money
<1> QED
  BY <1>2, <1>3, <1>4, <1>5, <1>6, <1>7, <1>8, <1>9, <1>10 DEF Next

\* The shop's transactions, callbacks, cancellations and expiry together do
\* what OrderPromise promises of the shelf, the orders and the revenue.
THEOREM ShopKeepsPromise ==
  ASSUME "WALLET" \notin Modes PROVE Spec => PromiseKept
  BY PromiseInit, PromiseStep, ShopInvariance, PTL DEF Spec, PromiseKept, Promise!Spec

-----------------------------------------------------------------------------
(* What the wallet holds, whatever modes users pay with.                     *)

PaidTotal == SumFunctionOnSet(walletPaid, Orders)
Returned  == Price * Cardinality({o \in Orders : refunded[o]})

LEMMA WalletParts ==
  /\ WalletExplained <=> balance = Opening - PaidTotal + Returned
  /\ WalletExplained' <=> balance' = Opening - PaidTotal' + Returned'
  BY DEF WalletExplained, PaidTotal, Returned

LEMMA WalletNumbers ==
  ASSUME MoneyOK
  PROVE  PaidTotal \in Int /\ Returned \in Int /\ Opening \in Int /\ Price \in Int
<1>1. PaidTotal \in Int
  BY ShopAssumption, SumType DEF MoneyOK, PaidTotal
<1>2. IsFiniteSet({o \in Orders : refunded[o]})
  BY ShopAssumption, FS_Subset
<1>3. Returned \in Int
  BY <1>2, ShopAssumption, ProductInt DEF Returned
<1> QED
  BY <1>1, <1>3, ShopAssumption

\* A payment from the wallet is one more SUCCESS row of the order.
LEMMA WalletPays ==
  ASSUME MoneyOK, MoneyOK', WalletExplained, NEW o \in Orders, NEW a \in Int,
         walletPaid' = [walletPaid EXCEPT ![o] = @ + a],
         balance' = balance - a, UNCHANGED refunded
  PROVE  WalletExplained'
<1>1. /\ walletPaid'[o] = walletPaid[o] + a /\ walletPaid[o] \in Int
      /\ \A p \in Orders \ {o} : walletPaid'[p] = walletPaid[p]
      /\ \A p \in Orders : walletPaid[p] \in Int /\ walletPaid'[p] \in Int
  BY DEF MoneyOK
<1>2. PaidTotal' = PaidTotal + walletPaid'[o] - walletPaid[o]
  <2> DEFINE f == walletPaid
             h == walletPaid'
  <2> HIDE DEF f, h
  <2>1. /\ \A p \in Orders : f[p] \in Int /\ h[p] \in Int
        /\ \A p \in Orders \ {o} : f[p] = h[p]
    BY <1>1 DEF f, h
  <2>2. SumFunctionOnSet(h, Orders) = SumFunctionOnSet(f, Orders) + h[o] - f[o]
    BY <2>1, ShopAssumption, SumChange
  <2> QED
    BY <2>2 DEF PaidTotal, f, h
<1>3. Returned' = Returned
  BY DEF Returned
<1>4. balance \in Int /\ PaidTotal \in Int /\ Returned \in Int /\ Opening \in Int
  BY WalletNumbers DEF MoneyOK
<1> QED
  BY <1>1, <1>2, <1>3, <1>4, WalletParts

LEMMA WalletStill ==
  ASSUME WalletExplained, UNCHANGED <<balance, walletPaid, refunded>>
  PROVE  WalletExplained'
  BY DEF WalletExplained

LEMMA AdminCancelWallet ==
  ASSUME Base, WalletExplained, NEW s \in Sessions, AdminCancel(s)
  PROVE  WalletExplained'
<1> DEFINE o == call[s].order
           refund == status[o] \in {"PAID", "PROCESSING"} /\ ~refunded[o]
           R == {p \in Orders : refunded[p]}
<1>1. MoneyOK /\ o \in Orders
  BY BaseParts, CallKnown DEF CallOK, AdminCancel
<1>2. /\ walletPaid' = walletPaid
      /\ refunded' = [refunded EXCEPT ![o] = @ \/ refund]
      /\ refund => balance' = balance + Price
      /\ ~refund => balance' = balance
  BY DEF AdminCancel
<1> HIDE DEF o
<1>3. refunded \in [Orders -> BOOLEAN]
  BY <1>1 DEF MoneyOK
<1>4. /\ \A p \in Orders \ {o} : refunded'[p] = refunded[p]
      /\ refunded'[o] = (refunded[o] \/ refund)
  BY <1>1, <1>2, <1>3, Zenon
<1>5. PaidTotal' = PaidTotal
  BY <1>2 DEF PaidTotal
<1>6. CASE refund
  <2>1. o \notin R /\ {p \in Orders : refunded'[p]} = R \cup {o}
    BY <1>1, <1>4, <1>6
  <2>2. IsFiniteSet(R) /\ Price \in Int
    BY ShopAssumption, FS_Subset
  <2>3. Returned' = Returned + Price
    BY <2>1, <2>2, AddOne DEF Returned
  <2>4. balance \in Int
    BY <1>1 DEF MoneyOK
  <2> HIDE DEF refund
  <2> QED
    BY <1>1, <1>2, <1>5, <1>6, <2>2, <2>3, <2>4, WalletNumbers, WalletParts
<1>7. CASE ~refund
  <2> HIDE DEF refund
  <2>1. refunded'[o] <=> refunded[o]
    BY <1>1, <1>4, <1>7, Zenon
  <2>2. {p \in Orders : refunded'[p]} = {p \in Orders : refunded[p]}
    BY <1>4, <2>1
  <2>3. Returned' = Returned
    BY <2>2 DEF Returned
  <2> QED
    BY <1>2, <1>5, <1>7, <2>3, WalletParts
<1> QED
  BY <1>6, <1>7

LEMMA CaptureWalletPays ==
  ASSUME Base, Base', WalletExplained, NEW s \in Sessions, CaptureWallet(s)
  PROVE  WalletExplained'
<1> DEFINE o == call[s].order
<1>1. MoneyOK /\ MoneyOK' /\ o \in Orders
  BY BaseParts, BasePartsNext, CallKnown DEF CallOK, CaptureWallet
<1>2. /\ balance' = balance - Price
      /\ walletPaid' = [walletPaid EXCEPT ![o] = @ + Price]
      /\ UNCHANGED refunded
  BY DEF CaptureWallet
<1>3. Price \in Int
  BY ShopAssumption
<1> HIDE DEF o
<1> QED
  BY <1>1, <1>2, <1>3, WalletPays

LEMMA FinalizePays ==
  ASSUME Base, Base', WalletExplained, NEW s \in Sessions, Finalize(s)
  PROVE  WalletExplained'
<1> DEFINE o == call[s].order
<1>1. MoneyOK /\ MoneyOK' /\ ReserveOK /\ o \in Orders
  BY BaseParts, BasePartsNext, CallKnown DEF CallOK, Finalize
<1>2. TakeLeg(o) /\ UNCHANGED refunded
  BY DEF Finalize
<1> HIDE DEF o
<1>3. CASE UNCHANGED <<balance, walletPaid>>
  BY <1>2, <1>3, WalletStill
<1>4. CASE /\ leg[o] > 0
           /\ balance' = balance - hold[o].amount
           /\ walletPaid' = [walletPaid EXCEPT ![o] = @ + leg[o]]
  <2>1. leg[o] = hold[o].amount /\ leg[o] \in 0 .. Price
    BY <1>1, <1>4 DEF ReserveOK
  <2>2. leg[o] \in Int
    BY <2>1, ShopAssumption
  <2> QED
    BY <1>1, <1>2, <1>4, <2>1, <2>2, WalletPays
<1> QED
  BY <1>2, <1>3, <1>4 DEF TakeLeg

LEMMA WalletStep == Base /\ Base' /\ WalletExplained /\ [Next]_vars => WalletExplained'
<1> SUFFICES ASSUME Base, Base', WalletExplained, [Next]_vars PROVE WalletExplained'
  OBVIOUS
<1>1. CASE UNCHANGED vars
  BY <1>1, WalletStill DEF vars
<1>2. ASSUME NEW o \in Orders, Checkout(o) \/ Fulfil(o) \/ HoldExpires(o)
      PROVE  WalletExplained'
  BY <1>2, WalletStill DEF Checkout, Fulfil, HoldExpires, money
<1>3. ASSUME NEW s \in Sessions, AdminCancel(s) PROVE WalletExplained'
  BY <1>3, AdminCancelWallet
<1>4. ASSUME NEW s \in Sessions, CaptureWallet(s) \/ Finalize(s)
      PROVE  WalletExplained'
  BY <1>4, CaptureWalletPays, FinalizePays
<1>5. ASSUME NEW s \in Sessions,
             \/ CloseUnpaid(s) \/ ReserveHold(s) \/ BeginFails(s) \/ UndoReserve(s)
             \/ Verify(s) \/ CallbackRefused(s) \/ FailPayment(s) \/ CallbackCommit(s)
             \/ Drop(s)
             \/ \E g \in Gateways : BeginGateway(s, g) \/ Callback(s, g)
      PROVE  WalletExplained'
  BY <1>5, WalletStill DEF CloseUnpaid, ReserveHold, BeginFails, UndoReserve, Verify,
     CallbackRefused, FailPayment, CallbackCommit, Drop, BeginGateway, Callback, money
<1>6. ASSUME NEW s \in Sessions, NEW o \in Orders,
             \/ CancelByUser(s, o) \/ ExpireStale(s, o) \/ BeginVoid(s, o)
             \/ \E m \in Modes, share \in Shares : Pay(s, o, m, share)
      PROVE  WalletExplained'
  BY <1>6, WalletStill DEF CancelByUser, ExpireStale, BeginClose, BeginVoid, Pay, money
<1>7. ASSUME NEW g \in Gateways, UserAtGateway(g) PROVE WalletExplained'
  BY <1>7, WalletStill DEF UserAtGateway, money
<1> QED
  BY <1>1, <1>2, <1>3, <1>4, <1>5, <1>6, <1>7 DEF Next

LEMMA WalletInit == Init => WalletExplained
<1> SUFFICES ASSUME Init PROVE WalletExplained
  OBVIOUS
<1> DEFINE R == {o \in Orders : refunded[o]}
<1>1. balance = Opening /\ (\A o \in Orders : walletPaid[o] = 0) /\ R = {}
  BY DEF Init
<1>2. SumFunctionOnSet(walletPaid, Orders) = 0 * Cardinality(Orders)
  BY <1>1, ShopAssumption, SumUniform
<1>3. Cardinality(Orders) \in Nat /\ Cardinality({}) = 0
  BY ShopAssumption, FS_CardinalityType, FS_EmptySet
<1>4. PaidTotal = 0
  BY <1>2, <1>3 DEF PaidTotal
<1>5. Returned = 0
  <2>1. Returned = Price * Cardinality(R)
    BY DEF Returned
  <2> HIDE DEF R
  <2> QED
    BY <1>1, <1>3, <2>1, ShopAssumption
<1> QED
  BY <1>1, <1>4, <1>5, ShopAssumption, WalletParts

\* Every rial that left the wallet is a SUCCESS wallet payment of the amount that
\* was reserved, and every rial that came back is the one refund of its order,
\* however captureWalletOnly, the callbacks and adminCancel interleave.
THEOREM WalletAlwaysExplained == Spec => []WalletExplained
<1>1. Base /\ Base' /\ WalletExplained /\ [Next]_vars => WalletExplained'
  BY WalletStep
<1> QED
  BY <1>1, WalletInit, BaseInit, BaseStep, PTL DEF Spec

=============================================================================
