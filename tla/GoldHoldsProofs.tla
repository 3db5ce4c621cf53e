--------------------------- MODULE GoldHoldsProofs ---------------------------
(***************************************************************************)
(* Proofs about GoldHolds: gold is in one place, the books follow it, and   *)
(* it is reserved for whoever waits for it, for any number of wallets,      *)
(* requests, orders and calls in flight.                                    *)
(***************************************************************************)
EXTENDS GoldHolds, SumFacts, FiniteSetTheorems, TLAPS

-----------------------------------------------------------------------------
(* The shape of a state: types, whose row it is, who holds what.             *)

\* A call in flight
CallType == [op: {"idle", "begin", "commit", "refuse", "cancel", "transfer"},
             order: Orders \cup {NoOrder}, from: 0 .. N, to: 0 .. N,
             grams: Nat, has: SUBSET Users]
USE DEF CallType

\* A row that is in use names its user.
Named ==
  /\ \A d \in Requests : request[d].status # "none" => request[d].user \in Users
  /\ \A o \in Orders : order[o].status # "none" => order[o].user \in Users

\* A transfer between its steps holds the smaller wallet; no other call
\* holds any.
CallsHold ==
  \A k \in Calls :
    /\ call[k].op = "transfer" =>
         /\ call[k].from \in Users /\ call[k].to \in Users
         /\ call[k].from # call[k].to
         /\ call[k].has = {First(call[k].from, call[k].to)}
    /\ call[k].op # "transfer" => call[k].has = {}
    /\ call[k].op \in {"begin", "commit", "refuse", "cancel"}
         => call[k].order \in Orders

Shape == TypeOK /\ Named /\ CallsHold /\ HoldFollowsOwner

\* What the rows of the owners are
LEMMA Rows ==
  ASSUME TypeOK
  PROVE  /\ IsFiniteSet(Owners) /\ IsFiniteSet(Users)
         /\ \A x \in Owners : RowOf(x).grams \in Nat /\ RowOf(x).user \in 0 .. N
         /\ \A d \in Requests : RowOf(d) = request[d]
         /\ \A o \in Orders : RowOf(o) = order[o] /\ o \notin Requests
<1>1. IsFiniteSet(Owners)
  BY GoldAssumption, FS_Union DEF Owners
<1>2. IsFiniteSet(Users)
  BY GoldAssumption, FS_Interval DEF Users
<1>3. \A o \in Orders : o \notin Requests
  BY GoldAssumption
<1>4. \A d \in Requests : request[d].grams \in Nat /\ request[d].user \in 0 .. N
  BY DEF TypeOK
<1>5. \A o \in Orders : order[o].grams \in Nat /\ order[o].user \in 0 .. N
  BY DEF TypeOK
<1> QED BY <1>1, <1>2, <1>3, <1>4, <1>5 DEF RowOf, Owners

\* Sums of grams are naturals.
LEMMA GramsNat ==
  ASSUME TypeOK
  PROVE  /\ \A S \in SUBSET Owners : GramsOf(S) \in Nat
         /\ \A u \in Users : Held(u) \in Nat /\ HoldsOf(u) \in SUBSET Owners
<1>1. ASSUME NEW S \in SUBSET Owners
      PROVE  GramsOf(S) \in Nat
  <2>1. IsFiniteSet(S)
    BY Rows, FS_Subset
  <2>2. \A x \in S : Grams[x] \in Nat
    BY Rows DEF Grams
  <2>3. \A x \in S : Grams[x] \in Int
    BY <2>2
  <2> QED BY <2>1, <2>2, <2>3, SumType DEF GramsOf
<1> QED BY <1>1 DEF Held, HoldsOf

\* What an order takes is there, and not reserved for anybody else.
LEMMA AppliedIs ==
  ASSUME TypeOK, NEW u \in Users, NEW e \in BOOLEAN
  PROVE  /\ Applied(u, e) \in Nat
         /\ Available(u) \in Int /\ Available(u) <= gold[u]
         /\ Available(u) >= MinGold => Applied(u, e) <= Available(u)
<1>1. gold[u] \in Nat /\ Held(u) \in Nat
  BY GramsNat DEF TypeOK
<1>2. Weight \in Nat /\ Weight + Premium \in Nat /\ MinGold \in Nat \ {0}
  BY GoldAssumption
<1> QED BY <1>1, <1>2 DEF Applied, Available, Smaller, NotBelowZero

\* The first state has the shape.
LEMMA ShapeInit == Init => Shape
<1> SUFFICES ASSUME Init PROVE Shape
  OBVIOUS
<1> USE DEF Init, Row, Free
<1>1. TypeOK
  <2>1. /\ Opening \in Nat /\ Stock \in Nat /\ 0 \in 0 .. N
        /\ Opening * Cardinality(Users) \in Int
    <3>1. Cardinality(Users) \in Nat
      BY GoldAssumption, FS_Interval, FS_CardinalityType DEF Users
    <3> QED BY <3>1, GoldAssumption
  <2> QED BY <2>1 DEF TypeOK, RequestStatuses, OrderStatuses, NoUser
<1>2. Named /\ CallsHold /\ HoldFollowsOwner
  BY DEF Named, CallsHold, HoldFollowsOwner, Owners
<1> QED BY <1>1, <1>2 DEF Shape

(* Each action keeps the shape.                                              *)

\* The steps actions are made of
LEMMA Pieces ==
  ASSUME TypeOK
  PROVE  /\ \A a, b, c, d \in Int :
              Post(a, b, c, d) => books' \in [liability: Int, physical: Int,
                                             reserved: Int, transit: Int]
         /\ \A u \in Users, b \in Int, f \in Nat :
              Note(u, b, f) => history' \in [bought: Int, forced: [Users -> Nat]]
         /\ \A u \in Users, g \in Int :
              Take(u, g) /\ gold[u] - g >= 0 => gold' \in [Users -> Nat]
         /\ \A x \in Owners, h \in {"none", "live", "lapsed"} :
              SetHold(x, h) => hold' \in [Owners -> {"none", "live", "lapsed"}]
<1>1. ASSUME NEW a \in Int, NEW b \in Int, NEW c \in Int, NEW d \in Int,
             Post(a, b, c, d)
      PROVE  books' \in [liability: Int, physical: Int,
                        reserved: Int, transit: Int]
  <2>1. /\ books.liability \in Int /\ books.physical \in Int
        /\ books.reserved \in Int /\ books.transit \in Int
    BY DEF TypeOK
  <2> QED BY <1>1, <2>1 DEF Post
<1>2. ASSUME NEW u \in Users, NEW b \in Int, NEW f \in Nat, Note(u, b, f)
      PROVE  history' \in [bought: Int, forced: [Users -> Nat]]
  <2>1. history.bought \in Int /\ history.forced \in [Users -> Nat]
    BY DEF TypeOK
  <2>2. [history.forced EXCEPT ![u] = @ + f] \in [Users -> Nat]
    BY <2>1
  <2> QED BY <1>2, <2>1, <2>2 DEF Note
<1>3. ASSUME NEW u \in Users, NEW g \in Int, Take(u, g), gold[u] - g >= 0
      PROVE  gold' \in [Users -> Nat]
  BY <1>3 DEF TypeOK, Take
<1>4. ASSUME NEW x \in Owners, NEW h \in {"none", "live", "lapsed"},
             SetHold(x, h)
      PROVE  hold' \in [Owners -> {"none", "live", "lapsed"}]
  BY <1>4 DEF TypeOK, SetHold
<1> QED BY <1>1, <1>2, <1>3, <1>4

\* Calls that do not move hold what they held.
LEMMA CallsKept ==
  ASSUME CallsHold, UNCHANGED call
  PROVE  CallsHold'
BY DEF CallsHold

\* A request is made: its row and its hold
LEMMA Shape_createInternal ==
  ASSUME Shape, NEW d \in Requests, NEW u \in Users, NEW g \in Amounts,
         createInternal(d, u, g)
  PROVE  Shape'
<1> USE DEF Shape, shop, rest
<1>0. u \in 0 .. N /\ g \in Nat
  BY GoldAssumption DEF Users
<1>1. request' \in [Requests ->
              [status: RequestStatuses, user: 0 .. N, grams: Nat]]
  BY <1>0 DEF TypeOK, createInternal, SetRequest, RequestStatuses
<1>2. hold' \in [Owners -> {"none", "live", "lapsed"}]
  BY <1>0, Pieces DEF TypeOK, createInternal, Owners
<1>3. TypeOK'
  BY <1>1, <1>2 DEF TypeOK, createInternal
<1>4. Named' /\ HoldFollowsOwner'
  BY <1>0, GoldAssumption
  DEF TypeOK, Named, HoldFollowsOwner, Owners, createInternal, SetRequest,
      SetHold
<1>5. CallsHold'
  BY CallsKept DEF createInternal
<1> QED BY <1>3, <1>4, <1>5

\* A request that waits is cancelled.
LEMMA Shape_CancelPending ==
  ASSUME Shape, NEW d \in Requests, CancelPending(d)
  PROVE  Shape'
<1> USE DEF Shape, shop, rest
<1>0. request[d].user \in Users /\ request[d].grams \in Nat
  BY DEF TypeOK, Named, CancelPending
<1>1. request' \in [Requests ->
              [status: RequestStatuses, user: 0 .. N, grams: Nat]]
  BY <1>0 DEF TypeOK, CancelPending, SetRequest, RequestStatuses
<1>2. hold' \in [Owners -> {"none", "live", "lapsed"}]
  BY <1>0, Pieces DEF TypeOK, CancelPending, Owners
<1>3. TypeOK'
  BY <1>1, <1>2 DEF TypeOK, CancelPending
<1>4. Named' /\ HoldFollowsOwner'
  BY <1>0, GoldAssumption
  DEF TypeOK, Named, HoldFollowsOwner, Owners, CancelPending, SetRequest,
      SetHold
<1>5. CallsHold'
  BY CallsKept DEF CancelPending
<1> QED BY <1>3, <1>4, <1>5

\* A request is approved.
LEMMA Shape_approve ==
  ASSUME Shape, NEW d \in Requests, approve(d)
  PROVE  Shape'
<1> USE DEF Shape, shop, rest
<1>0. request[d].user \in Users /\ request[d].grams \in Nat
  BY DEF TypeOK, Named, approve
<1>1. request' \in [Requests ->
              [status: RequestStatuses, user: 0 .. N, grams: Nat]]
  BY <1>0 DEF TypeOK, approve, SetRequest, RequestStatuses
<1>2. hold' \in [Owners -> {"none", "live", "lapsed"}]
  BY <1>0, Pieces DEF TypeOK, approve, Owners
<1>3. gold' \in [Users -> Nat]
  BY <1>0, Pieces DEF TypeOK, approve
<1>4. books' \in [liability: Int, physical: Int, reserved: Int, transit: Int]
  BY <1>0, Pieces DEF TypeOK, approve
<1>5. history' \in [bought: Int, forced: [Users -> Nat]]
  BY <1>0, Pieces DEF TypeOK, approve
<1>6. TypeOK'
  BY <1>1, <1>2, <1>3, <1>4, <1>5 DEF TypeOK, approve
<1>7. Named' /\ HoldFollowsOwner'
  BY <1>0, GoldAssumption
  DEF TypeOK, Named, HoldFollowsOwner, Owners, approve, SetRequest, SetHold
<1>8. CallsHold'
  BY CallsKept DEF approve
<1> QED BY <1>6, <1>7, <1>8

\* A request is shipped.
LEMMA Shape_ship ==
  ASSUME Shape, NEW d \in Requests, ship(d)
  PROVE  Shape'
<1> USE DEF Shape, shop, rest
<1>0. request[d].user \in Users /\ request[d].grams \in Nat
  BY DEF TypeOK, Named, ship
<1>1. request' \in [Requests ->
              [status: RequestStatuses, user: 0 .. N, grams: Nat]]
  BY <1>0 DEF TypeOK, ship, SetRequest, RequestStatuses
<1>2. books' \in [liability: Int, physical: Int, reserved: Int, transit: Int]
  BY <1>0, Pieces DEF TypeOK, ship
<1>3. TypeOK'
  BY <1>1, <1>2 DEF TypeOK, ship
<1>4. Named' /\ HoldFollowsOwner'
  BY <1>0, GoldAssumption
  DEF TypeOK, Named, HoldFollowsOwner, Owners, ship, SetRequest, SetHold
<1>5. CallsHold'
  BY CallsKept DEF ship
<1> QED BY <1>3, <1>4, <1>5

\* A request is delivered.
LEMMA Shape_deliver ==
  ASSUME Shape, NEW d \in Requests, deliver(d)
  PROVE  Shape'
<1> USE DEF Shape, shop, rest
<1>0. request[d].user \in Users /\ request[d].grams \in Nat
  BY DEF TypeOK, Named, deliver
<1>1. request' \in [Requests ->
              [status: RequestStatuses, user: 0 .. N, grams: Nat]]
  BY <1>0 DEF TypeOK, deliver, SetRequest, RequestStatuses
<1>2. books' \in [liability: Int, physical: Int, reserved: Int, transit: Int]
  BY <1>0, Pieces DEF TypeOK, deliver
<1>3. TypeOK'
  BY <1>1, <1>2 DEF TypeOK, deliver
<1>4. Named' /\ HoldFollowsOwner'
  BY <1>0, GoldAssumption
  DEF TypeOK, Named, HoldFollowsOwner, Owners, deliver, SetRequest, SetHold
<1>5. CallsHold'
  BY CallsKept DEF deliver
<1> QED BY <1>3, <1>4, <1>5

\* An approved request is cancelled.
LEMMA Shape_adminCancel ==
  ASSUME Shape, NEW d \in Requests, adminCancel(d)
  PROVE  Shape'
<1> USE DEF Shape, shop, rest
<1>0. request[d].user \in Users /\ request[d].grams \in Nat
  BY DEF TypeOK, Named, adminCancel
<1>1. request' \in [Requests ->
              [status: RequestStatuses, user: 0 .. N, grams: Nat]]
  BY <1>0 DEF TypeOK, adminCancel, BooksAfterCancel, SetRequest, RequestStatuses
<1>2. gold' \in [Users -> Nat]
  BY <1>0, Pieces
  DEF TypeOK, adminCancel
<1>3. books' \in [liability: Int, physical: Int, reserved: Int, transit: Int]
  BY <1>0, Pieces DEF TypeOK, adminCancel, BooksAfterCancel
<1>4. TypeOK'
  BY <1>1, <1>2, <1>3 DEF TypeOK, adminCancel, BooksAfterCancel
<1>5. Named' /\ HoldFollowsOwner'
  BY <1>0, GoldAssumption
  DEF TypeOK, Named, HoldFollowsOwner, Owners, adminCancel, BooksAfterCancel,
      SetRequest, SetHold
<1>6. CallsHold'
  BY CallsKept DEF adminCancel, BooksAfterCancel
<1> QED BY <1>4, <1>5, <1>6

\* The job takes a request.
LEMMA Shape_expireRequest ==
  ASSUME Shape, NEW d \in Requests, expireRequest(d)
  PROVE  Shape'
<1> USE DEF Shape, shop, rest
<1>1. CASE StillPending(d)
  <2>1. request' \in [Requests ->
                [status: RequestStatuses, user: 0 .. N, grams: Nat]]
    BY <1>1 DEF TypeOK, expireRequest, SetRequest, RequestStatuses
  <2>2. hold' \in [Owners -> {"none", "live", "lapsed"}]
    BY <1>1, Pieces DEF expireRequest, Owners
  <2>3. TypeOK'
    BY <2>1, <2>2 DEF TypeOK, expireRequest
  <2>4. request[d].user \in Users
    BY <1>1 DEF Named, StillPending
  <2>5. /\ request' = [request EXCEPT ![d].status = "CANCELLED"]
        /\ hold' = [hold EXCEPT ![d] = "none"] /\ UNCHANGED <<order, call>>
    BY <1>1 DEF expireRequest, SetRequest, SetHold
  <2>6. Named'
    BY <2>4, <2>5 DEF TypeOK, Named
  <2>7. HoldFollowsOwner'
    BY <2>5, GoldAssumption DEF TypeOK, HoldFollowsOwner, Owners
  <2>8. CallsHold'
    BY <2>5, CallsKept
  <2> QED BY <2>3, <2>6, <2>7, <2>8
<1>2. CASE ~ StillPending(d)
  <2>1. sweep' \subseteq Requests /\ UNCHANGED <<request, hold, order, call>>
    BY <1>2 DEF TypeOK, expireRequest
  <2>2. TypeOK' /\ Named' /\ HoldFollowsOwner'
    BY <1>2, <2>1 DEF TypeOK, Named, HoldFollowsOwner, expireRequest
  <2>3. CallsHold'
    BY <2>1, CallsKept
  <2> QED BY <2>2, <2>3
<1> QED BY <1>1, <1>2

\* The job reads.
LEMMA Shape_expireStaleRequests ==
  ASSUME Shape, expireStaleRequests
  PROVE  Shape'
<1> USE DEF Shape, shop, rest
<1>1. TypeOK'
  BY DEF TypeOK, expireStaleRequests, Stale
<1>2. Named' /\ HoldFollowsOwner'
  BY GoldAssumption
  DEF TypeOK, Named, HoldFollowsOwner, Owners, expireStaleRequests
<1>3. CallsHold'
  BY CallsKept DEF expireStaleRequests
<1> QED BY <1>1, <1>2, <1>3

\* The job dies.
LEMMA Shape_jobDies ==
  ASSUME Shape, jobDies
  PROVE  Shape'
<1> USE DEF Shape, shop, rest
<1>1. TypeOK'
  BY DEF TypeOK, jobDies
<1>2. Named' /\ HoldFollowsOwner'
  BY GoldAssumption DEF TypeOK, Named, HoldFollowsOwner, Owners, jobDies
<1>3. CallsHold'
  BY CallsKept DEF jobDies
<1> QED BY <1>1, <1>2, <1>3

\* A hold lapses.
LEMMA Shape_holdLapses ==
  ASSUME Shape, NEW x \in Owners, holdLapses(x)
  PROVE  Shape'
<1> USE DEF Shape, shop, rest
<1>1. hold' \in [Owners -> {"none", "live", "lapsed"}]
  BY Pieces DEF holdLapses
<1>2. TypeOK'
  BY <1>1 DEF TypeOK, holdLapses
<1>3. Named' /\ HoldFollowsOwner'
  BY <1>1, GoldAssumption
  DEF TypeOK, Named, HoldFollowsOwner, Owners, holdLapses, SetHold
<1>4. CallsHold'
  BY CallsKept DEF holdLapses
<1> QED BY <1>2, <1>3, <1>4

\* A call that ends, or goes on to a step that holds no wallet
LEMMA CallsMove ==
  ASSUME Shape, NEW k \in Calls,
         \/ End(k)
         \/ \E op \in {"begin", "commit", "refuse", "cancel"}, o \in Orders :
              Goes(k, op, o)
  PROVE  /\ call' \in [Calls -> CallType]
         /\ CallsHold'
<1> USE DEF Shape, Free, NoUser
<1>1. call \in [Calls -> CallType]
  BY DEF TypeOK
<1>2. 0 \in 0 .. N
  BY GoldAssumption
<1>3. CASE End(k)
  <2>1. call' = [call EXCEPT ![k] = Free]
    BY <1>3 DEF End
  <2>2. CallsHold'
    BY <1>1, <2>1 DEF CallsHold
  <2>3. Free \in CallType
    BY <1>2
  <2> HIDE DEF Free
  <2> QED BY <1>1, <2>1, <2>2, <2>3
<1>4. ASSUME NEW op \in {"begin", "commit", "refuse", "cancel"}, NEW o \in Orders,
             Goes(k, op, o)
      PROVE  /\ call' \in [Calls -> CallType]
             /\ CallsHold'
  <2> DEFINE c == [Free EXCEPT !.op = op, !.order = o]
  <2>1. call' = [call EXCEPT ![k] = c]
    BY <1>4 DEF Goes
  <2>2. /\ c.op = op /\ c.order = o /\ c.has = {}
        /\ c \in CallType
    BY <1>2
  <2> HIDE DEF c
  <2>3. \A j \in Calls : call'[j] = IF j = k THEN c ELSE call[j]
    BY <1>1, <2>1
  <2>4. CallsHold'
    BY <2>2, <2>3 DEF CallsHold
  <2> QED BY <1>1, <2>1, <2>2, <2>4
<1> QED BY <1>3, <1>4

\* A call dies.
LEMMA Shape_callDies ==
  ASSUME Shape, NEW k \in Calls, callDies(k)
  PROVE  Shape'
<1> USE DEF Shape, shop, rest
<1>1. call' \in [Calls -> CallType] /\ CallsHold'
  BY CallsMove DEF callDies
<1>2. TypeOK'
  BY <1>1 DEF TypeOK, callDies
<1>3. Named' /\ HoldFollowsOwner'
  BY <1>1, GoldAssumption DEF TypeOK, Named, HoldFollowsOwner, Owners, callDies
<1>4. CallsHold'
  BY <1>1
<1> QED BY <1>2, <1>3, <1>4

\* The payment is begun.
LEMMA Shape_beginGatewayPayment ==
  ASSUME Shape, NEW k \in Calls, beginGatewayPayment(k)
  PROVE  Shape'
<1> USE DEF Shape, shop, rest
<1>1. call' \in [Calls -> CallType] /\ CallsHold'
  BY CallsMove DEF beginGatewayPayment
<1>2. call[k].order \in Orders
  BY DEF CallsHold, beginGatewayPayment
<1>3. TypeOK'
  BY <1>1, <1>2 DEF TypeOK, beginGatewayPayment
<1>4. Named' /\ HoldFollowsOwner'
  BY <1>1, <1>2, GoldAssumption
  DEF TypeOK, Named, HoldFollowsOwner, Owners, beginGatewayPayment
<1>5. CallsHold'
  BY <1>1
<1> QED BY <1>3, <1>4, <1>5

\* The payment is refused.
LEMMA Shape_paymentRefused ==
  ASSUME Shape, NEW k \in Calls, paymentRefused(k)
  PROVE  Shape'
<1> USE DEF Shape, shop, rest
<1>1. call[k].order \in Orders
  BY DEF CallsHold, paymentRefused
<1>2. call' \in [Calls -> CallType] /\ CallsHold'
  BY <1>1, CallsMove DEF paymentRefused
<1>3. hold' \in [Owners -> {"none", "live", "lapsed"}]
  BY <1>1, Pieces DEF paymentRefused, Owners
<1>4. TypeOK'
  BY <1>1, <1>2, <1>3 DEF TypeOK, paymentRefused
<1>5. Named' /\ HoldFollowsOwner'
  BY <1>1, <1>2, <1>3, GoldAssumption
  DEF TypeOK, Named, HoldFollowsOwner, Owners, paymentRefused, SetHold
<1>6. CallsHold'
  BY <1>2
<1> QED BY <1>4, <1>5, <1>6

\* A callback has asked the gateway.
LEMMA Shape_handleGatewayCallback ==
  ASSUME Shape, NEW k \in Calls, NEW o \in Orders, NEW outcome \in {"taken", "refused"},
         handleGatewayCallback(k, o, outcome)
  PROVE  Shape'
<1> USE DEF Shape, shop, rest
<1>1. call' \in [Calls -> CallType] /\ CallsHold'
  BY CallsMove DEF handleGatewayCallback
<1>2. TypeOK'
  BY <1>1 DEF TypeOK, handleGatewayCallback
<1>3. Named' /\ HoldFollowsOwner'
  BY <1>1, GoldAssumption
  DEF TypeOK, Named, HoldFollowsOwner, Owners, handleGatewayCallback
<1>4. CallsHold'
  BY <1>1
<1> QED BY <1>2, <1>3, <1>4

\* An order that was not paid is cancelled: the parts of the shape it disturbs
LEMMA CancelUnpaidKeeps ==
  ASSUME Shape, NEW o \in Orders, order[o].status = "PENDING_PAYMENT",
         CancelUnpaid(o), UNCHANGED request
  PROVE  /\ order' \in [Orders ->
                    [status: OrderStatuses, user: 0 .. N, grams: Nat]]
         /\ hold' \in [Owners -> {"none", "live", "lapsed"}]
         /\ stock' \in Nat
         /\ payment' \in [Orders -> {"none", "PENDING", "SUCCESS", "FAILED"}]
         /\ Named' /\ HoldFollowsOwner'
<1> USE DEF Shape, CancelUnpaid
<1>1. order' \in [Orders -> [status: OrderStatuses, user: 0 .. N, grams: Nat]]
  BY DEF TypeOK, OrderStatuses
<1>2. hold' \in [Owners -> {"none", "live", "lapsed"}]
  BY Pieces DEF Owners
<1>3. stock' \in Nat
  BY DEF TypeOK
<1>4. payment' \in [Orders -> {"none", "PENDING", "SUCCESS", "FAILED"}]
  BY DEF TypeOK
<1>5. Named' /\ HoldFollowsOwner'
  BY GoldAssumption DEF TypeOK, Named, HoldFollowsOwner, Owners, SetHold
<1> QED BY <1>1, <1>2, <1>3, <1>4, <1>5

\* cancelByUser, adminCancel and the job, of an unpaid order
LEMMA Shape_cancelOrder ==
  ASSUME Shape, NEW o \in Orders, cancelOrder(o)
  PROVE  Shape'
<1>1. /\ Shape /\ order[o].status = "PENDING_PAYMENT"
      /\ CancelUnpaid(o) /\ UNCHANGED <<gold, request, gateway, books, rest>>
  BY DEF cancelOrder
<1>2. TypeOK' /\ Named' /\ HoldFollowsOwner'
  BY <1>1, CancelUnpaidKeeps DEF Shape, TypeOK, rest
<1>3. CallsHold'
  BY <1>1, CallsKept DEF Shape, rest
<1> QED BY <1>2, <1>3 DEF Shape

\* The order is cancelled after a payment that was not begun, or was refused.
LEMMA Shape_cancelUnpaidGoldOrder ==
  ASSUME Shape, NEW k \in Calls, cancelUnpaidGoldOrder(k)
  PROVE  Shape'
<1> DEFINE o == call[k].order
<1>1. o \in Orders
  BY DEF Shape, CallsHold, cancelUnpaidGoldOrder
<1>2. End(k) /\ UNCHANGED <<gold, request, gateway, books, sweep, history>>
  BY DEF cancelUnpaidGoldOrder
<1>3. call' \in [Calls -> CallType] /\ CallsHold'
  BY <1>2, CallsMove
<1>4. CASE order[o].status = "PENDING_PAYMENT"
  <2>1. CancelUnpaid(o)
    BY <1>4 DEF cancelUnpaidGoldOrder
  <2>2. /\ order' \in [Orders ->
                    [status: OrderStatuses, user: 0 .. N, grams: Nat]]
        /\ hold' \in [Owners -> {"none", "live", "lapsed"}]
        /\ stock' \in Nat
        /\ payment' \in [Orders -> {"none", "PENDING", "SUCCESS", "FAILED"}]
        /\ Named' /\ HoldFollowsOwner'
    BY <1>1, <1>2, <1>4, <2>1, CancelUnpaidKeeps
  <2>3. TypeOK'
    BY <1>2, <1>3, <2>2 DEF Shape, TypeOK
  <2> QED BY <1>3, <2>2, <2>3 DEF Shape
<1>5. CASE order[o].status # "PENDING_PAYMENT"
  <2>1. UNCHANGED <<order, hold, stock, payment>>
    BY <1>5 DEF cancelUnpaidGoldOrder
  <2>2. TypeOK' /\ Named' /\ HoldFollowsOwner'
    BY <1>2, <1>3, <2>1 DEF Shape, TypeOK, Named, HoldFollowsOwner
  <2> QED BY <1>3, <2>2 DEF Shape
<1> QED BY <1>4, <1>5

\* The payment is confirmed, and the gold captured or not.
LEMMA Shape_finalize ==
  ASSUME Shape, NEW k \in Calls, finalize(k)
  PROVE  Shape'
<1> DEFINE o == call[k].order
<1>1. o \in Orders
  BY DEF Shape, CallsHold, finalize
<1>2. End(k) /\ UNCHANGED <<request, stock, gateway, sweep, history>>
  BY DEF finalize
<1>3. call' \in [Calls -> CallType] /\ CallsHold'
  BY <1>2, CallsMove
<1>4. CASE /\ payment[o] = "PENDING" /\ order[o].status = "PENDING_PAYMENT"
           /\ MayCapture(o)
  <2>1. /\ payment' = [payment EXCEPT ![o] = "SUCCESS"]
        /\ order' = [order EXCEPT ![o].status = "PAID"]
        /\ SetHold(o, "none") /\ Take(order[o].user, order[o].grams)
        /\ Post(-order[o].grams, 0, 0, 0)
    BY <1>4 DEF finalize
  <2>2. /\ order[o].user \in Users /\ order[o].grams \in Nat
        /\ gold[order[o].user] >= order[o].grams
        /\ gold[order[o].user] \in Nat
    BY <1>1, <1>4 DEF Shape, TypeOK, Named, MayCapture
  <2>3. /\ order' \in [Orders ->
                    [status: OrderStatuses, user: 0 .. N, grams: Nat]]
        /\ payment' \in [Orders -> {"none", "PENDING", "SUCCESS", "FAILED"}]
    BY <1>1, <2>1 DEF Shape, TypeOK, OrderStatuses
  <2>4. hold' \in [Owners -> {"none", "live", "lapsed"}]
    BY <1>1, <2>1, Pieces DEF Shape, Owners
  <2>5. gold' \in [Users -> Nat]
    BY <2>1, <2>2, Pieces DEF Shape
  <2>6. books' \in [liability: Int, physical: Int, reserved: Int, transit: Int]
    <3>1. -order[o].grams \in Int /\ 0 \in Int
      BY <2>2
    <3> HIDE DEF o
    <3> QED BY <2>1, <3>1, Pieces DEF Shape
  <2>7. TypeOK'
    BY <1>2, <1>3, <2>3, <2>4, <2>5, <2>6 DEF Shape, TypeOK
  <2>8. Named' /\ HoldFollowsOwner'
    BY <1>1, <1>2, <1>4, <2>1, GoldAssumption
    DEF Shape, TypeOK, Named, HoldFollowsOwner, Owners, SetHold
  <2> QED BY <1>3, <2>7, <2>8 DEF Shape
<1>5. CASE ~ (/\ payment[o] = "PENDING" /\ order[o].status = "PENDING_PAYMENT"
              /\ MayCapture(o))
  <2>1. UNCHANGED <<payment, order, hold, gold, books>>
    BY <1>5 DEF finalize
  <2>2. TypeOK' /\ Named' /\ HoldFollowsOwner'
    BY <1>2, <1>3, <2>1 DEF Shape, TypeOK, Named, HoldFollowsOwner
  <2> QED BY <1>3, <2>2 DEF Shape
<1> QED BY <1>4, <1>5

\* An order is opened: its row and the bar
LEMMA OpenOrderKeeps ==
  ASSUME Shape, NEW o \in Orders, NEW u \in Users, NEW g \in Nat,
         NEW st \in {"PAID", "PENDING_PAYMENT"}, OpenOrder(o, u, g, st),
         UNCHANGED request
  PROVE  /\ order' \in [Orders ->
                    [status: OrderStatuses, user: 0 .. N, grams: Nat]]
         /\ stock' \in Nat
         /\ Named'
         /\ hold[o] = "none"
         /\ UNCHANGED hold => HoldFollowsOwner'
         /\ SetHold(o, "live") /\ st = "PENDING_PAYMENT" => HoldFollowsOwner'
<1> USE DEF Shape, OpenOrder
<1>1. order' \in [Orders -> [status: OrderStatuses, user: 0 .. N, grams: Nat]]
  BY GoldAssumption DEF TypeOK, OrderStatuses, Users
<1>2. stock' \in Nat
  BY DEF TypeOK
<1>3. Named'
  BY DEF TypeOK, Named
<1>4. hold[o] = "none"
  BY DEF HoldFollowsOwner
<1>5. UNCHANGED hold => HoldFollowsOwner'
  BY <1>4 DEF TypeOK, HoldFollowsOwner
<1>6. SetHold(o, "live") /\ st = "PENDING_PAYMENT" => HoldFollowsOwner'
  BY GoldAssumption DEF TypeOK, HoldFollowsOwner, SetHold, Owners
<1> QED BY <1>1, <1>2, <1>3, <1>4, <1>5, <1>6

\* Gold and the wallet pay for the bar.
LEMMA Shape_orderPaid ==
  ASSUME Shape, NEW o \in Orders, NEW u \in Users, NEW e \in BOOLEAN,
         orderPaid(o, u, e)
  PROVE  Shape'
<1> DEFINE g == Applied(u, e)
<1>1. g \in Nat /\ gold[u] - g >= 0 /\ gold[u] \in Nat
  <2>1. Available(u) >= MinGold
    BY DEF orderPaid, OpenOrder
  <2>2. gold[u] \in Nat
    BY DEF Shape, TypeOK
  <2> QED BY <2>1, <2>2, AppliedIs DEF Shape
<1> HIDE DEF g
<1>2. /\ OpenOrder(o, u, g, "PAID") /\ Take(u, g) /\ Post(-g, 0, 0, 0)
      /\ UNCHANGED <<request, hold, payment, gateway, rest>>
  BY DEF orderPaid, g
<1>3. /\ order' \in [Orders ->
                  [status: OrderStatuses, user: 0 .. N, grams: Nat]]
      /\ stock' \in Nat /\ Named' /\ HoldFollowsOwner'
  BY <1>1, <1>2, OpenOrderKeeps
<1>4. gold' \in [Users -> Nat]
  BY <1>1, <1>2, Pieces DEF Shape
<1>5. books' \in [liability: Int, physical: Int, reserved: Int, transit: Int]
  BY <1>1, <1>2, Pieces DEF Shape
<1>6. TypeOK'
  BY <1>2, <1>3, <1>4, <1>5 DEF Shape, TypeOK, rest
<1>7. CallsHold'
  BY <1>2, CallsKept DEF Shape, rest
<1> QED BY <1>3, <1>6, <1>7 DEF Shape

\* The gold is reserved until the gateway answers.
LEMMA Shape_orderReserved ==
  ASSUME Shape, NEW k \in Calls, NEW o \in Orders, NEW u \in Users,
         NEW e \in BOOLEAN, orderReserved(k, o, u, e)
  PROVE  Shape'
<1> DEFINE g == Applied(u, e)
<1>1. g \in Nat
  BY AppliedIs DEF Shape
<1> HIDE DEF g
<1>2. /\ OpenOrder(o, u, g, "PENDING_PAYMENT") /\ SetHold(o, "live")
      /\ Goes(k, "begin", o)
      /\ UNCHANGED <<gold, request, payment, gateway, books, sweep, history>>
  BY DEF orderReserved, g
<1>3. /\ order' \in [Orders ->
                  [status: OrderStatuses, user: 0 .. N, grams: Nat]]
      /\ stock' \in Nat /\ Named' /\ HoldFollowsOwner'
  BY <1>1, <1>2, OpenOrderKeeps
<1>4. hold' \in [Owners -> {"none", "live", "lapsed"}]
  BY <1>2, Pieces DEF Shape, Owners
<1>5. call' \in [Calls -> CallType] /\ CallsHold'
  BY <1>2, CallsMove
<1>6. TypeOK'
  BY <1>2, <1>3, <1>4, <1>5 DEF Shape, TypeOK
<1> QED BY <1>3, <1>5, <1>6 DEF Shape

\* A paid order is cancelled.
LEMMA Shape_cancelPaid ==
  ASSUME Shape, NEW o \in Orders, cancelPaid(o)
  PROVE  Shape'
<1> USE DEF Shape, shop, rest
<1>0. /\ order[o].user \in Users /\ order[o].grams \in Nat
      /\ -order[o].grams \in Int /\ gold[order[o].user] \in Nat
      /\ gold[order[o].user] - (-order[o].grams) >= 0
  BY DEF TypeOK, Named, cancelPaid
<1>1. order' \in [Orders ->
              [status: OrderStatuses, user: 0 .. N, grams: Nat]]
  BY <1>0 DEF TypeOK, cancelPaid, OrderStatuses
<1>2. gold' \in [Users -> Nat]
  BY <1>0, Pieces DEF cancelPaid
<1>3. books' \in [liability: Int, physical: Int, reserved: Int, transit: Int]
  BY DEF TypeOK, cancelPaid, Post
<1>4. stock' \in Nat
  BY <1>0 DEF TypeOK, cancelPaid
<1>5. TypeOK'
  BY <1>1, <1>2, <1>3, <1>4 DEF TypeOK, cancelPaid
<1>6. Named' /\ HoldFollowsOwner'
  BY <1>0, GoldAssumption
  DEF TypeOK, Named, HoldFollowsOwner, Owners, cancelPaid, SetRequest, SetHold
<1>7. CallsHold'
  BY CallsKept DEF cancelPaid
<1> QED BY <1>5, <1>6, <1>7

\* A transfer locks a wallet.
LEMMA Shape_internalTransfer ==
  ASSUME Shape, NEW k \in Calls, NEW u \in Users, NEW v \in Users,
         NEW g \in Amounts, internalTransfer(k, u, v, g)
  PROVE  Shape'
<1> USE DEF Shape, shop
<1>1. u \in 0 .. N /\ v \in 0 .. N /\ g \in Nat /\ First(u, v) \in Users
  BY GoldAssumption DEF Users, First, Smaller
<1>2. call' \in [Calls -> CallType]
  BY <1>1 DEF TypeOK, internalTransfer, Free, NoUser
<1>3. TypeOK' /\ Named' /\ HoldFollowsOwner'
  BY <1>2 DEF TypeOK, Named, HoldFollowsOwner, internalTransfer
<1>4. CallsHold'
  BY <1>1 DEF TypeOK, CallsHold, internalTransfer, Free
<1> QED BY <1>3, <1>4

\* It locks the other, and moves the gold if there is enough that is free.
LEMMA Shape_transfer ==
  ASSUME Shape, NEW k \in Calls, transfer(k)
  PROVE  Shape'
<1> USE DEF Shape, shop
<1> DEFINE u == call[k].from
           v == call[k].to
           g == call[k].grams
<1>1. u \in Users /\ v \in Users /\ u # v /\ g \in Nat
  BY DEF TypeOK, CallsHold, transfer
<1>2. /\ gold' = IF MayTransfer(k)
                 THEN [gold EXCEPT ![u] = @ - g, ![v] = @ + g] ELSE gold
      /\ End(k) /\ UNCHANGED <<request, hold, books, shop, sweep, history>>
  BY DEF transfer
<1>3. MayTransfer(k) => g <= gold[u]
  <2>1. gold[u] \in Nat /\ Held(u) \in Nat
    BY <1>1, GramsNat DEF TypeOK
  <2> QED BY <1>1, <2>1 DEF MayTransfer, Available
<1> HIDE DEF u, v, g
<1>4. gold' \in [Users -> Nat]
  BY <1>1, <1>2, <1>3 DEF TypeOK
<1>5. call' \in [Calls -> CallType] /\ CallsHold'
  BY <1>2, CallsMove
<1>6. TypeOK' /\ Named' /\ HoldFollowsOwner'
  BY <1>2, <1>4, <1>5 DEF TypeOK, Named, HoldFollowsOwner
<1> QED BY <1>5, <1>6

\* A trade or an adjustment
LEMMA ShapeMove ==
  ASSUME Shape, NEW u \in Users, NEW g \in Int, NEW f \in Nat,
         gold[u] + g >= 0, Move(u, g, f)
  PROVE  Shape'
<1> USE DEF Shape, shop
<1>1. gold' \in [Users -> Nat]
  BY DEF TypeOK, Move
<1>2. books' \in [liability: Int, physical: Int, reserved: Int, transit: Int]
  BY Pieces DEF Move
<1>3. history' \in [bought: Int, forced: [Users -> Nat]]
  BY Pieces DEF Move
<1>4. TypeOK' /\ Named' /\ HoldFollowsOwner'
  BY <1>1, <1>2, <1>3 DEF TypeOK, Named, HoldFollowsOwner, Move
<1>5. CallsHold'
  BY CallsKept DEF Move
<1> QED BY <1>4, <1>5

\* Only what is there, and for a sale not reserved, leaves.
LEMMA Shape_trade ==
  ASSUME Shape, NEW u \in Users, buy(u) \/ sell(u) \/ deduct(u)
  PROVE  Shape'
<1>1. gold[u] \in Nat /\ Available(u) \in Int /\ Available(u) <= gold[u]
  <2>1. gold[u] \in Nat /\ Held(u) \in Nat
    BY GramsNat DEF Shape, TypeOK
  <2> QED BY <2>1 DEF Available
<1>2. CASE buy(u)
  BY <1>1, <1>2, ShapeMove DEF buy
<1>3. CASE sell(u)
  <2>1. gold[u] + (-1) >= 0
    BY <1>1, <1>3 DEF sell
  <2> QED BY <1>3, <2>1, ShapeMove DEF sell
<1>4. CASE deduct(u)
  <2>1. gold[u] + (-1) >= 0
    BY <1>1, <1>4 DEF deduct
  <2> QED BY <1>4, <2>1, ShapeMove DEF deduct
<1> QED BY <1>2, <1>3, <1>4

\* Every step keeps the shape.
LEMMA ShapeNext == Shape /\ [Next]_vars => Shape'
<1> SUFFICES ASSUME Shape, [Next]_vars PROVE Shape'
  OBVIOUS
<1>1. CASE RequestNext
  BY <1>1, Shape_createInternal, Shape_CancelPending, Shape_approve,
     Shape_ship, Shape_deliver, Shape_adminCancel, Shape_expireRequest,
     Shape_expireStaleRequests DEF RequestNext
<1>2. CASE OrderNext
  <2>1. ASSUME NEW o \in Orders, expireStaleOrders(o) PROVE Shape'
    BY <2>1, Shape_cancelOrder DEF expireStaleOrders
  <2> QED BY <1>2, <2>1, Shape_orderPaid, Shape_orderReserved, Shape_cancelOrder,
             Shape_cancelPaid, Shape_beginGatewayPayment,
             Shape_cancelUnpaidGoldOrder, Shape_finalize, Shape_paymentRefused,
             Shape_handleGatewayCallback DEF OrderNext
<1>3. CASE WalletNext
  BY <1>3, Shape_internalTransfer, Shape_transfer, Shape_callDies, Shape_trade,
     Shape_holdLapses, Shape_jobDies DEF WalletNext
<1>4. CASE UNCHANGED vars
  BY <1>4 DEF vars, Shape, TypeOK, Named, CallsHold, HoldFollowsOwner
<1> QED BY <1>1, <1>2, <1>3, <1>4 DEF Next

\* Every reachable state of GoldHolds has the shape: every handler keeps it.
THEOREM ShapeAlways == Spec => []Shape
<1>1. Init => Shape
  BY ShapeInit
<1>2. Shape /\ [Next]_vars => Shape'
  BY ShapeNext
<1> QED BY <1>1, <1>2, PTL DEF Spec

-----------------------------------------------------------------------------
(* Transfers.                                                                *)

\* A call that waits for another holds a smaller wallet than the other.
LEMMA WaitsUpwards ==
  ASSUME Shape, NEW k \in Calls, NEW j \in Calls, Waits(k, j),
         call[j].op = "transfer"
  PROVE  First(call[k].from, call[k].to) < First(call[j].from, call[j].to)
<1>1. /\ call[k].from \in Users /\ call[k].to \in Users
      /\ call[k].from # call[k].to
      /\ call[k].has = {First(call[k].from, call[k].to)}
      /\ call[j].has = {First(call[j].from, call[j].to)}
  BY DEF Shape, CallsHold, Waits
<1>2. call[k].from \in Nat /\ call[k].to \in Nat
  BY <1>1, GoldAssumption DEF Users
<1>3. First(call[j].from, call[j].to)
        \in {call[k].from, call[k].to} \ {First(call[k].from, call[k].to)}
  BY <1>1 DEF Waits, Wanted
<1> QED BY <1>1, <1>2, <1>3 DEF First, Smaller

\* In a circle, the one that holds the largest wallet would wait for a larger.
LEMMA NoCircle == Shape => TransfersNeverCross
<1> SUFFICES ASSUME Shape, NEW S \in (SUBSET Calls) \ {{}},
                    \A k \in S : \E j \in S : Waits(k, j)
             PROVE  FALSE
  BY DEF TransfersNeverCross
<1>0. S # {}
  OBVIOUS
<1> DEFINE f(k) == First(call[k].from, call[k].to)
           D == {N - f(k) : k \in S}
<1>1. \A k \in S : call[k].op = "transfer" /\ f(k) \in Users
  <2> TAKE k \in S
  <2>1. call[k].op = "transfer"
    BY DEF Waits
  <2>2. call[k].from \in Users /\ call[k].to \in Users
    BY <2>1 DEF Shape, CallsHold
  <2> QED BY <2>1, <2>2 DEF First, Smaller
<1>2. D \in SUBSET Nat /\ D # {}
  <2>1. \A k \in S : N - f(k) \in Nat
    <3> HIDE DEF f
    <3> QED BY <1>1, GoldAssumption DEF Users
  <2>2. PICK k \in S : TRUE
    BY <1>0
  <2>3. N - f(k) \in D
    BY <2>2
  <2>4. \A d \in D : d \in Nat
    BY <2>1
  <2> HIDE DEF D
  <2> QED BY <2>3, <2>4
<1>3. PICK d \in D : \A e \in D : d <= e
  <2> HIDE DEF D
  <2> QED BY <1>2, Least
<1>4. PICK k \in S : d = N - f(k)
  OBVIOUS
<1>5. PICK j \in S : Waits(k, j)
  OBVIOUS
<1>6. f(k) < f(j)
  BY <1>1, <1>5, WaitsUpwards
<1>7. N - f(k) <= N - f(j)
  BY <1>3, <1>4
<1>8. f(k) \in Int /\ f(j) \in Int /\ N \in Int
  BY <1>1, GoldAssumption DEF Users
<1> HIDE DEF f
<1> QED BY <1>6, <1>7, <1>8

-----------------------------------------------------------------------------
(* Where the gold is.                                                        *)

Ledger == GoldConserved /\ BooksFollowGold /\ HoldsCoveredButForced

\* What an owner adds to each sum
VaultPart(x) ==
  IF x \in Requests /\ request[x].status \in {"APPROVED", "SHIPPED", "DELIVERED"}
  THEN request[x].grams ELSE 0
TakenPart(x) ==
  VaultPart(x) + (IF x \in Orders /\ order[x].status = "PAID"
                  THEN order[x].grams ELSE 0)
PartWith(x, status) ==
  IF x \in Requests /\ request[x].status = status THEN request[x].grams ELSE 0
HeldPart(x, u) ==
  IF hold[x] = "live" /\ RowOf(x).user = u THEN RowOf(x).grams ELSE 0
SellingPart(x) ==
  IF x \in Orders /\ order[x].status \notin {"none", "CANCELLED"} THEN 1 ELSE 0

\* Only this owner's row and hold change.
Only(x) ==
  /\ \A d \in Requests \ {x} : request'[d] = request[d]
  /\ \A o \in Orders \ {x} : order'[o] = order[o]
  /\ \A y \in Owners \ {x} : hold'[y] = hold[y]

\* The sum over a set of owners, when only one of them changes
LEMMA GramsStep ==
  ASSUME Shape, Shape', NEW x \in Owners, Only(x),
         NEW S \in SUBSET Owners, NEW T \in SUBSET Owners, S \ {x} = T \ {x}
  PROVE  SumFunctionOnSet(Grams', T)
           = SumFunctionOnSet(Grams, S) + (IF x \in T THEN Grams'[x] ELSE 0)
               - (IF x \in S THEN Grams[x] ELSE 0)
<1>1. IsFiniteSet(S) /\ IsFiniteSet(T)
  BY Rows, FS_Subset DEF Shape
<1>2. \A y \in Owners : Grams[y] \in Int
  BY DEF Shape, TypeOK, Grams, RowOf, Owners
<1>3. \A y \in Owners : Grams'[y] \in Int
  BY DEF Shape, TypeOK, Grams, RowOf, Owners
<1>4. \A y \in Owners \ {x} : Grams[y] = Grams'[y]
  BY DEF Only, Grams, RowOf, Owners
<1>5. Agree(Grams, Grams', S \ {x})
  BY <1>4 DEF Agree
<1> QED BY <1>1, <1>2, <1>3, <1>5, SumStep

\* The sums that the books are compared with
LEMMA SumsStep ==
  ASSUME Shape, Shape', NEW x \in Owners, Only(x)
  PROVE  /\ GramsOf(In({"APPROVED", "SHIPPED", "DELIVERED"}) \cup Bought)'
              = GramsOf(In({"APPROVED", "SHIPPED", "DELIVERED"}) \cup Bought)
                  + TakenPart(x)' - TakenPart(x)
         /\ GramsOf(In({"APPROVED", "SHIPPED", "DELIVERED"}))'
              = GramsOf(In({"APPROVED", "SHIPPED", "DELIVERED"}))
                  + VaultPart(x)' - VaultPart(x)
         /\ \A st \in {"APPROVED", "SHIPPED"} :
              GramsOf(In({st}))'
                = GramsOf(In({st})) + PartWith(x, st)' - PartWith(x, st)
<1> DEFINE V == {"APPROVED", "SHIPPED", "DELIVERED"}
<1>1. /\ x \in Requests => /\ Grams[x] = request[x].grams
                           /\ Grams'[x] = request'[x].grams
      /\ x \in Orders => /\ x \notin Requests /\ Grams[x] = order[x].grams
                         /\ Grams'[x] = order'[x].grams
      /\ x \in Requests => x \notin Orders
      /\ Grams[x] \in Int /\ Grams'[x] \in Int
  BY GoldAssumption DEF Grams, RowOf, Owners, Shape, TypeOK
<1>2. GramsOf(In(V) \cup Bought)'
        = GramsOf(In(V) \cup Bought) + TakenPart(x)' - TakenPart(x)
  <2> DEFINE S == In(V) \cup Bought
             T == {d \in Requests : request'[d].status \in V}
                    \cup {o \in Orders : order'[o].status = "PAID"}
  <2>1. S \in SUBSET Owners /\ T \in SUBSET Owners
    BY DEF In, Bought, Owners
  <2>2. S \ {x} = T \ {x}
    BY DEF Only, In, Bought
  <2>3. TakenPart(x) = IF x \in S THEN Grams[x] ELSE 0
    BY <1>1 DEF TakenPart, VaultPart, In, Bought, Owners
  <2>4. TakenPart(x)' = IF x \in T THEN Grams'[x] ELSE 0
    BY <1>1 DEF TakenPart, VaultPart, Owners
  <2>5. S' = T
    BY DEF In, Bought
  <2> HIDE DEF S, T
  <2>6. SumFunctionOnSet(Grams', T)
          = SumFunctionOnSet(Grams, S) + (IF x \in T THEN Grams'[x] ELSE 0)
              - (IF x \in S THEN Grams[x] ELSE 0)
    BY <2>1, <2>2, GramsStep
  <2>7. GramsOf(S)' = SumFunctionOnSet(Grams', T)
    BY <2>5 DEF GramsOf
  <2>8. GramsOf(S)' = GramsOf(S) + TakenPart(x)' - TakenPart(x)
    BY <2>3, <2>4, <2>6, <2>7 DEF GramsOf
  <2> QED BY <2>8 DEF S
<1>3. GramsOf(In(V))' = GramsOf(In(V)) + VaultPart(x)' - VaultPart(x)
  <2> DEFINE S == In(V)
             T == {d \in Requests : request'[d].status \in V}
  <2>1. S \in SUBSET Owners /\ T \in SUBSET Owners
    BY DEF In, Owners
  <2>2. S \ {x} = T \ {x}
    BY DEF Only, In
  <2>3. VaultPart(x) = IF x \in S THEN Grams[x] ELSE 0
    BY <1>1 DEF VaultPart, In
  <2>4. VaultPart(x)' = IF x \in T THEN Grams'[x] ELSE 0
    BY <1>1 DEF VaultPart
  <2>5. S' = T
    BY DEF In
  <2> HIDE DEF S, T
  <2>6. SumFunctionOnSet(Grams', T)
          = SumFunctionOnSet(Grams, S) + (IF x \in T THEN Grams'[x] ELSE 0)
              - (IF x \in S THEN Grams[x] ELSE 0)
    BY <2>1, <2>2, GramsStep
  <2>7. GramsOf(S)' = SumFunctionOnSet(Grams', T)
    BY <2>5 DEF GramsOf
  <2>8. GramsOf(S)' = GramsOf(S) + VaultPart(x)' - VaultPart(x)
    BY <2>3, <2>4, <2>6, <2>7 DEF GramsOf
  <2> QED BY <2>8 DEF S
<1>4. ASSUME NEW st \in {"APPROVED", "SHIPPED"}
      PROVE  GramsOf(In({st}))'
               = GramsOf(In({st})) + PartWith(x, st)' - PartWith(x, st)
  <2> DEFINE S == In({st})
             T == {d \in Requests : request'[d].status = st}
  <2>1. S \in SUBSET Owners /\ T \in SUBSET Owners
    BY DEF In, Owners
  <2>2. S \ {x} = T \ {x}
    BY DEF Only, In
  <2>3. PartWith(x, st) = IF x \in S THEN Grams[x] ELSE 0
    BY <1>1 DEF PartWith, In
  <2>4. PartWith(x, st)' = IF x \in T THEN Grams'[x] ELSE 0
    BY <1>1 DEF PartWith
  <2>5. S' = T
    BY DEF In
  <2> HIDE DEF S, T
  <2>6. SumFunctionOnSet(Grams', T)
          = SumFunctionOnSet(Grams, S) + (IF x \in T THEN Grams'[x] ELSE 0)
              - (IF x \in S THEN Grams[x] ELSE 0)
    BY <2>1, <2>2, GramsStep
  <2>7. GramsOf(S)' = SumFunctionOnSet(Grams', T)
    BY <2>5 DEF GramsOf
  <2>8. GramsOf(S)' = GramsOf(S) + PartWith(x, st)' - PartWith(x, st)
    BY <2>3, <2>4, <2>6, <2>7 DEF GramsOf
  <2> QED BY <2>8 DEF S
<1> QED BY <1>2, <1>3, <1>4

\* What is reserved of a wallet
LEMMA HeldStep ==
  ASSUME Shape, Shape', NEW x \in Owners, Only(x), NEW u \in Users
  PROVE  Held(u)' = Held(u) + HeldPart(x, u)' - HeldPart(x, u)
<1> DEFINE S == HoldsOf(u)
           T == {y \in Owners : hold'[y] = "live" /\ RowOf(y)'.user = u}
<1>1. S \in SUBSET Owners /\ T \in SUBSET Owners
  BY DEF HoldsOf
<1>2. S \ {x} = T \ {x}
  BY DEF Only, HoldsOf, RowOf, Owners
<1>3. HeldPart(x, u) = IF x \in S THEN Grams[x] ELSE 0
  BY DEF HeldPart, HoldsOf, Grams
<1>4. HeldPart(x, u)' = IF x \in T THEN Grams'[x] ELSE 0
  BY DEF HeldPart, Grams
<1>5. S' = T
  BY DEF HoldsOf
<1> HIDE DEF S, T
<1>6. SumFunctionOnSet(Grams', T)
        = SumFunctionOnSet(Grams, S) + (IF x \in T THEN Grams'[x] ELSE 0)
            - (IF x \in S THEN Grams[x] ELSE 0)
  BY <1>1, <1>2, GramsStep
<1>7. Held(u) = SumFunctionOnSet(Grams, S)
  BY DEF Held, GramsOf, S
<1>8. Held(u)' = SumFunctionOnSet(Grams', T)
  <2>1. Held(u)' = GramsOf(S)'
    BY DEF Held, S
  <2> QED BY <1>5, <2>1 DEF GramsOf
<1> QED BY <1>3, <1>4, <1>6, <1>7, <1>8

\* The orders that hold a bar
LEMMA SellingStep ==
  ASSUME Shape, Shape', NEW x \in Owners, Only(x)
  PROVE  /\ Cardinality(Selling) \in Nat
         /\ Cardinality(Selling)'
              = Cardinality(Selling) + SellingPart(x)' - SellingPart(x)
<1> DEFINE T == {o \in Orders : order'[o].status \notin {"none", "CANCELLED"}}
<1>1. IsFiniteSet(Selling) /\ IsFiniteSet(T)
  BY GoldAssumption, FS_Subset DEF Selling
<1>2. Cardinality(Selling) \in Nat
  BY <1>1, FS_CardinalityType
<1>3. Selling \ {x} = T \ {x}
  BY DEF Selling, Only
<1>4. /\ SellingPart(x) = IF x \in Selling THEN 1 ELSE 0
      /\ SellingPart(x)' = IF x \in T THEN 1 ELSE 0
  BY DEF SellingPart, Selling
<1>5. Cardinality(Selling)' = Cardinality(T)
  BY DEF Selling
<1>6. CASE x \in Selling <=> x \in T
  <2>1. T = Selling
    BY <1>3, <1>6
  <2>2. SellingPart(x)' = SellingPart(x) /\ SellingPart(x) \in Int
    BY <1>4, <1>6
  <2>3. Cardinality(Selling)' = Cardinality(Selling)
    BY <1>5, <2>1
  <2> QED BY <1>2, <2>2, <2>3
<1>7. CASE x \in Selling /\ x \notin T
  <2>1. T = Selling \ {x}
    BY <1>3, <1>7
  <2>2. Cardinality(T) = Cardinality(Selling) - 1
    BY <1>1, <1>7, <2>1, FS_RemoveElement
  <2> QED BY <1>2, <1>4, <1>5, <1>7, <2>2
<1>8. CASE x \notin Selling /\ x \in T
  <2>1. T = Selling \cup {x}
    BY <1>3, <1>8
  <2>2. Cardinality(T) = Cardinality(Selling) + 1
    BY <1>1, <1>8, <2>1, FS_AddElement
  <2> QED BY <1>2, <1>4, <1>5, <1>8, <2>2
<1> QED BY <1>6, <1>7, <1>8

\* The gold of all wallets, when one of them changes
LEMMA AllGoldStep ==
  ASSUME Shape, Shape', NEW u \in Users, NEW g \in Int,
         gold'[u] = gold[u] + g, \A w \in Users \ {u} : gold'[w] = gold[w]
  PROVE  AllGold' = AllGold + g
<1>1. \A y \in Users : gold[y] \in Int /\ gold'[y] \in Int
  BY DEF Shape, TypeOK
<1>2. \A y \in Users \ {u} : gold[y] = gold'[y]
  OBVIOUS
<1>3. gold'[u] = gold[u] + g
  OBVIOUS
<1>4. IsFiniteSet(Users)
  BY Rows DEF Shape
<1>5. SumFunctionOnSet(gold', Users)
        = SumFunctionOnSet(gold, Users) + gold'[u] - gold[u]
  <2> DEFINE h == gold'
  <2>1. \A y \in Users : gold[y] \in Int /\ h[y] \in Int
    BY <1>1
  <2>2. \A y \in Users \ {u} : gold[y] = h[y]
    BY <1>2
  <2> HIDE DEF h
  <2>3. SumFunctionOnSet(h, Users)
          = SumFunctionOnSet(gold, Users) + h[u] - gold[u]
    BY <1>4, <2>1, <2>2, SumChange
  <2> QED BY <2>3 DEF h
<1>6. SumFunctionOnSet(gold, Users) \in Int
  BY <1>1, <1>4, SumType
<1> QED BY <1>1, <1>3, <1>5, <1>6 DEF AllGold

\* A step on one owner's row that brings g to a wallet keeps the ledger, if the
\* books and the shelf follow and nobody else's reservation is broken.
LEMMA LedgerStep ==
  ASSUME Shape, Shape', Ledger, NEW x \in Owners, Only(x), NEW g \in Int,
         AllGold' = AllGold + g,
         books'.liability = books.liability + g,
         books'.physical = books.physical - VaultPart(x)' + VaultPart(x),
         books'.reserved = books.reserved + PartWith(x, "APPROVED")'
                             - PartWith(x, "APPROVED"),
         books'.transit = books.transit + PartWith(x, "SHIPPED")'
                            - PartWith(x, "SHIPPED"),
         history'.bought = history.bought,
         g + TakenPart(x)' = TakenPart(x),
         stock' + SellingPart(x)' = stock + SellingPart(x),
         \A u \in Users :
           \/ Held(u) + HeldPart(x, u)' - HeldPart(x, u) <= gold'[u]
           \/ HeldPart(x, u)' - HeldPart(x, u)
                <= gold'[u] - gold[u] + history'.forced[u] - history.forced[u]
  PROVE  Ledger'
<1>1. /\ x \in Requests => request[x].grams \in Nat /\ request'[x].grams \in Nat
      /\ x \in Orders => order[x].grams \in Nat /\ order'[x].grams \in Nat
      /\ RowOf(x).grams \in Nat /\ RowOf(x)'.grams \in Nat
  BY DEF Shape, TypeOK, RowOf, Owners
<1>2. /\ TakenPart(x) \in Int /\ TakenPart(x)' \in Int
      /\ VaultPart(x) \in Int /\ VaultPart(x)' \in Int
      /\ \A st \in {"APPROVED", "SHIPPED"} :
           PartWith(x, st) \in Int /\ PartWith(x, st)' \in Int
  BY <1>1 DEF TakenPart, VaultPart, PartWith
<1>3. \A u \in Users : HeldPart(x, u) \in Int /\ HeldPart(x, u)' \in Int
  BY <1>1 DEF HeldPart
<1>4. SellingPart(x) \in Int /\ SellingPart(x)' \in Int
  BY DEF SellingPart
<1>5. /\ AllGold \in Int /\ Opening * Cardinality(Users) \in Int
      /\ books.liability \in Int /\ books.physical \in Int
      /\ books.reserved \in Int /\ books.transit \in Int
      /\ history.bought \in Int /\ stock \in Int /\ stock' \in Int /\ Stock \in Int
  <2>1. IsFiniteSet(Users) /\ \A y \in Users : gold[y] \in Int
    BY Rows DEF Shape, TypeOK
  <2>2. AllGold \in Int
    BY <2>1, SumType DEF AllGold
  <2>3. Cardinality(Users) \in Nat
    BY <2>1, FS_CardinalityType
  <2>4. Opening * Cardinality(Users) \in Int
    BY <2>3, GoldAssumption
  <2> QED BY <2>2, <2>4, GoldAssumption DEF Shape, TypeOK
<1> DEFINE V == {"APPROVED", "SHIPPED", "DELIVERED"}
<1>6. /\ GramsOf(In(V) \cup Bought) \in Int /\ GramsOf(In(V)) \in Int
      /\ \A st \in {"APPROVED", "SHIPPED"} : GramsOf(In({st})) \in Int
  <2>1. /\ In(V) \cup Bought \in SUBSET Owners /\ In(V) \in SUBSET Owners
        /\ \A st \in {"APPROVED", "SHIPPED"} : In({st}) \in SUBSET Owners
    BY DEF In, Bought, Owners
  <2> QED BY <2>1, GramsNat DEF Shape
<1>7. GoldConserved'
  <2>1. (AllGold + GramsOf(In(V) \cup Bought)
           = Opening * Cardinality(Users) + history.bought)'
    <3>1. AllGold + GramsOf(In(V) \cup Bought)
            = Opening * Cardinality(Users) + history.bought
      BY DEF Ledger, GoldConserved
    <3>2. GramsOf(In(V) \cup Bought)'
            = GramsOf(In(V) \cup Bought) + TakenPart(x)' - TakenPart(x)
      BY SumsStep
    <3> QED BY <1>2, <1>5, <1>6, <3>1, <3>2
  <2>2. (stock + Cardinality(Selling) = Stock)'
    <3>1. PICK c \in Int : c = Cardinality(Selling)
      BY SellingStep
    <3>2. PICK d \in Int : d = Cardinality(Selling)'
      BY <1>4, SellingStep
    <3>3. PICK p \in Int, q \in Int : p = SellingPart(x) /\ q = SellingPart(x)'
      BY <1>4
    <3>4. stock + c = Stock
      BY <3>1 DEF Ledger, GoldConserved
    <3>5. d = c + q - p /\ stock' + q = stock + p
      BY <3>1, <3>2, <3>3, SellingStep
    <3>6. PICK a \in Int, b \in Int, e \in Int :
                 a = stock /\ b = stock' /\ e = Stock
      BY <1>5
    <3>7. a + c = e
      BY <3>4, <3>6
    <3>8. b + q = a + p
      BY <3>5, <3>6
    <3>9. b + d = e
      BY <3>5, <3>7, <3>8
    <3>10. stock' + d = Stock
      BY <3>6, <3>9
    <3> QED BY <3>2, <3>10
  <2> QED BY <2>1, <2>2 DEF GoldConserved
<1>8. BooksFollowGold'
  <2>1. /\ books.liability = AllGold
        /\ books.reserved = GramsOf(In({"APPROVED"}))
        /\ books.transit = GramsOf(In({"SHIPPED"}))
        /\ books.physical = - GramsOf(In(V))
    BY DEF Ledger, BooksFollowGold
  <2>2. (books.liability = AllGold)'
    BY <2>1
  <2>3. (books.reserved = GramsOf(In({"APPROVED"})))'
    BY <2>1, SumsStep
  <2>4. (books.transit = GramsOf(In({"SHIPPED"})))'
    BY <2>1, SumsStep
  <2>5. (books.physical = - GramsOf(In(V)))'
    <3>1. GramsOf(In(V))' = GramsOf(In(V)) + VaultPart(x)' - VaultPart(x)
      BY SumsStep
    <3> QED BY <1>2, <1>6, <2>1, <3>1
  <2> QED BY <2>2, <2>3, <2>4, <2>5 DEF BooksFollowGold
<1>9. HoldsCoveredButForced'
  <2> SUFFICES ASSUME NEW u \in Users
               PROVE  (Held(u) - gold[u] <= history.forced[u])'
    BY DEF HoldsCoveredButForced
  <2>1. Held(u)' = Held(u) + HeldPart(x, u)' - HeldPart(x, u)
    BY HeldStep
  <2>2. Held(u) - gold[u] <= history.forced[u]
    BY DEF Ledger, HoldsCoveredButForced
  <2>3. /\ Held(u) \in Int /\ gold[u] \in Int /\ gold'[u] \in Int
        /\ history.forced[u] \in Nat /\ history'.forced[u] \in Nat
    BY GramsNat DEF Shape, TypeOK
  <2> QED BY <1>3, <2>1, <2>2, <2>3
<1> QED BY <1>7, <1>8, <1>9 DEF Ledger

\* A step on the wallets alone
LEMMA LedgerGold ==
  ASSUME Shape, Shape', Ledger, UNCHANGED <<request, order, hold, stock>>,
         NEW g \in Int, AllGold' = AllGold + g, Post(g, 0, 0, 0),
         history'.bought = history.bought + g,
         \A u \in Users :
           \/ Held(u) <= gold'[u]
           \/ 0 <= gold'[u] - gold[u] + history'.forced[u] - history.forced[u]
  PROVE  Ledger'
<1>1. UNCHANGED <<Grams, In({"APPROVED"}), In({"SHIPPED"}), Bought, Selling,
                  In({"APPROVED", "SHIPPED", "DELIVERED"})>>
  BY DEF Grams, RowOf, In, Bought, Selling
<1>2. \A u \in Users : Held(u)' = Held(u)
  BY <1>1 DEF Held, HoldsOf, RowOf, GramsOf
<1>3. AllGold \in Int /\ Opening * Cardinality(Users) \in Int
  <2>1. IsFiniteSet(Users) /\ \A y \in Users : gold[y] \in Int
    BY Rows DEF Shape, TypeOK
  <2>2. Cardinality(Users) \in Nat
    BY <2>1, FS_CardinalityType
  <2> QED BY <2>1, <2>2, SumType, GoldAssumption DEF AllGold
<1>4. /\ books'.liability = books.liability + g
      /\ books'.physical = books.physical /\ books'.reserved = books.reserved
      /\ books'.transit = books.transit /\ history.bought \in Int
  BY DEF Post, Shape, TypeOK
<1> DEFINE V == {"APPROVED", "SHIPPED", "DELIVERED"}
<1>5. /\ GramsOf(In(V) \cup Bought) \in Int
      /\ GramsOf(In(V) \cup Bought)' = GramsOf(In(V) \cup Bought)
  <2>1. In(V) \cup Bought \in SUBSET Owners
    BY DEF In, Bought, Owners
  <2>2. GramsOf(In(V) \cup Bought) \in Int
    BY <2>1, GramsNat DEF Shape
  <2>3. (In(V) \cup Bought)' = In(V) \cup Bought
    BY <1>1
  <2>4. Grams' = Grams
    BY <1>1
  <2>5. GramsOf(In(V) \cup Bought)' = GramsOf(In(V) \cup Bought)
    BY <2>3, <2>4 DEF GramsOf
  <2> QED BY <2>2, <2>5
<1>6. GoldConserved'
  <2>1. AllGold + GramsOf(In(V) \cup Bought)
          = Opening * Cardinality(Users) + history.bought
    BY DEF Ledger, GoldConserved
  <2>2. (AllGold + GramsOf(In(V) \cup Bought)
           = Opening * Cardinality(Users) + history.bought)'
    BY <1>3, <1>4, <1>5, <2>1
  <2>3. (stock + Cardinality(Selling) = Stock)'
    BY <1>1 DEF Ledger, GoldConserved
  <2> QED BY <2>2, <2>3 DEF GoldConserved
<1>7. BooksFollowGold'
  BY <1>1, <1>4 DEF Ledger, BooksFollowGold, GramsOf
<1>8. HoldsCoveredButForced'
  <2> SUFFICES ASSUME NEW u \in Users
               PROVE  (Held(u) - gold[u] <= history.forced[u])'
    BY DEF HoldsCoveredButForced
  <2>1. Held(u) - gold[u] <= history.forced[u]
    BY DEF Ledger, HoldsCoveredButForced
  <2>2. /\ Held(u) \in Int /\ gold[u] \in Int /\ gold'[u] \in Int
        /\ history.forced[u] \in Nat /\ history'.forced[u] \in Nat
    BY GramsNat DEF Shape, TypeOK
  <2> QED BY <1>2, <2>1, <2>2
<1> QED BY <1>6, <1>7, <1>8 DEF Ledger

\* A step on something else
LEMMA LedgerKept ==
  ASSUME Ledger, UNCHANGED <<gold, request, order, hold, stock, books, history>>
  PROVE  Ledger'
BY DEF Ledger, GoldConserved, BooksFollowGold, HoldsCoveredButForced, AllGold,
       GramsOf, Grams, RowOf, In, Bought, Selling, Held, HoldsOf

-----------------------------------------------------------------------------
(* Each action keeps the ledger.                                             *)

\* What the parts of a request and of an order are
LEMMA RequestParts ==
  ASSUME Shape, Shape', NEW d \in Requests
  PROVE  /\ SellingPart(d) = 0 /\ SellingPart(d)' = 0
         /\ TakenPart(d) = VaultPart(d) /\ TakenPart(d)' = VaultPart(d)'
         /\ \A w \in Users :
              /\ HeldPart(d, w) = IF hold[d] = "live" /\ request[d].user = w
                                  THEN request[d].grams ELSE 0
              /\ HeldPart(d, w)' = IF hold'[d] = "live" /\ request'[d].user = w
                                   THEN request'[d].grams ELSE 0
<1>1. d \notin Orders
  BY GoldAssumption
<1>2. request[d].grams \in Nat /\ request'[d].grams \in Nat
  BY DEF Shape, TypeOK
<1> QED BY <1>1, <1>2 DEF SellingPart, TakenPart, VaultPart, HeldPart, RowOf

\* The same of an order
LEMMA OrderParts ==
  ASSUME Shape, Shape', NEW o \in Orders
  PROVE  /\ VaultPart(o) = 0 /\ VaultPart(o)' = 0
         /\ \A st \in {"APPROVED", "SHIPPED"} :
              PartWith(o, st) = 0 /\ PartWith(o, st)' = 0
         /\ TakenPart(o) = IF order[o].status = "PAID" THEN order[o].grams ELSE 0
         /\ TakenPart(o)' = IF order'[o].status = "PAID"
                            THEN order'[o].grams ELSE 0
         /\ \A w \in Users :
              /\ HeldPart(o, w) = IF hold[o] = "live" /\ order[o].user = w
                                  THEN order[o].grams ELSE 0
              /\ HeldPart(o, w)' = IF hold'[o] = "live" /\ order'[o].user = w
                                   THEN order'[o].grams ELSE 0
<1>1. o \notin Requests
  BY GoldAssumption
<1>2. order[o].grams \in Nat /\ order'[o].grams \in Nat
  BY DEF Shape, TypeOK
<1> QED BY <1>1, <1>2 DEF PartWith, TakenPart, VaultPart, HeldPart, RowOf

\* Gold leaves a wallet.
LEMMA TakeStep ==
  ASSUME Shape, Shape', NEW u \in Users, NEW g \in Int, Take(u, g)
  PROVE  /\ AllGold' = AllGold + (-g)
         /\ gold'[u] = gold[u] - g
         /\ \A w \in Users \ {u} : gold'[w] = gold[w]
<1>1. gold \in [Users -> Nat]
  BY DEF Shape, TypeOK
<1>2. gold'[u] = gold[u] - g /\ \A w \in Users \ {u} : gold'[w] = gold[w]
  BY <1>1 DEF Take
<1>3. gold'[u] = gold[u] + (-g)
  BY <1>1, <1>2
<1>4. AllGold' = AllGold + (-g)
  BY <1>2, <1>3, AllGoldStep
<1> QED BY <1>2, <1>4

\* What is added up are whole numbers.
LEMMA SumsAreInts ==
  ASSUME Shape, Shape'
  PROVE  /\ AllGold \in Int
         /\ \A w \in Users : /\ Held(w) \in Nat /\ gold[w] \in Nat
                             /\ gold'[w] \in Nat /\ history.forced[w] \in Nat
                             /\ history'.forced[w] \in Nat
         /\ history.bought \in Int /\ stock \in Int /\ stock' \in Int
         /\ books.liability \in Int /\ books.physical \in Int
         /\ books.reserved \in Int /\ books.transit \in Int
<1>1. IsFiniteSet(Users) /\ \A y \in Users : gold[y] \in Int
  BY Rows DEF Shape, TypeOK
<1>2. AllGold \in Int
  BY <1>1, SumType DEF AllGold
<1>3. \A w \in Users : Held(w) \in Nat
  BY GramsNat DEF Shape
<1> QED BY <1>2, <1>3 DEF Shape, TypeOK

\* A request that waits is cancelled, by whoever.
LEMMA Ledger_closed ==
  ASSUME Shape, Shape', Ledger, NEW d \in Requests, request[d].status = "PENDING",
         SetRequest(d, "CANCELLED"), SetHold(d, "none"),
         UNCHANGED <<gold, order, stock, books, history>>
  PROVE  Ledger'
<1> DEFINE u == request[d].user
           r == request[d].grams
<1>1. u \in Users /\ r \in Nat /\ request[d].status = "PENDING"
  BY DEF Shape, TypeOK, Named, SetHold
<1>2. /\ request'[d].status = "CANCELLED" /\ request'[d].user = u
      /\ request'[d].grams = r /\ hold'[d] = "none"
      /\ Only(d) /\ UNCHANGED <<order, stock>>
  BY <1>1
  DEF Shape, TypeOK, HoldFollowsOwner, Owners, Only, SetHold, SetRequest,
      SetHold, shop
<1>3. /\ VaultPart(d) = 0 /\ VaultPart(d)' = 0
      /\ PartWith(d, "APPROVED") = 0 /\ PartWith(d, "APPROVED")' = 0
      /\ PartWith(d, "SHIPPED") = 0 /\ PartWith(d, "SHIPPED")' = 0
  BY <1>1, <1>2 DEF VaultPart, PartWith
<1>4. /\ SellingPart(d) = 0 /\ SellingPart(d)' = 0
      /\ TakenPart(d) = 0 /\ TakenPart(d)' = 0
      /\ \A w \in Users :
           /\ HeldPart(d, w) = IF hold[d] = "live" /\ w = u THEN r ELSE 0
           /\ HeldPart(d, w)' = 0
  BY <1>2, <1>3, RequestParts
<1>5. UNCHANGED <<gold, AllGold>>
  BY DEF SetHold, AllGold
<1>6. /\ books'.liability = books.liability + 0
      /\ books'.physical = books.physical + 0
      /\ books'.reserved = books.reserved + 0
      /\ books'.transit = books.transit + 0
  BY SumsAreInts DEF SetHold, Post
<1>7. /\ history'.bought = history.bought
      /\ \A w \in Users : history'.forced[w] = history.forced[w] + 0
  BY SumsAreInts DEF SetHold, Note, rest, Shape, TypeOK
<1> DEFINE g == 0
<1> HIDE DEF u, r
<1>8. g \in Int /\ AllGold' = AllGold + g
  BY <1>1, <1>5, SumsAreInts
<1>9. /\ books'.liability = books.liability + g
      /\ books'.physical = books.physical - VaultPart(d)' + VaultPart(d)
      /\ books'.reserved = books.reserved + PartWith(d, "APPROVED")'
                             - PartWith(d, "APPROVED")
      /\ books'.transit = books.transit + PartWith(d, "SHIPPED")'
                            - PartWith(d, "SHIPPED")
  BY <1>1, <1>3, <1>6, SumsAreInts
<1>10. /\ history'.bought = history.bought
       /\ g + TakenPart(d)' = TakenPart(d)
       /\ stock' + SellingPart(d)' = stock + SellingPart(d)
  BY <1>1, <1>2, <1>4, <1>7, SumsAreInts
<1>11. \A w \in Users :
         \/ Held(w) + HeldPart(d, w)' - HeldPart(d, w) <= gold'[w]
         \/ HeldPart(d, w)' - HeldPart(d, w)
              <= gold'[w] - gold[w] + history'.forced[w] - history.forced[w]
  <2> TAKE w \in Users
  <2>1. /\ gold[w] \in Nat /\ gold'[w] \in Nat /\ history.forced[w] \in Nat
        /\ history'.forced[w] \in Nat
    BY SumsAreInts
  <2> QED BY <1>1, <1>4, <1>5, <1>7, <2>1
<1> HIDE DEF g
<1>12. d \in Owners
  BY DEF Owners
<1> QED BY <1>2, <1>8, <1>9, <1>10, <1>11, <1>12, LedgerStep

\* A request is approved.
LEMMA Ledger_approve ==
  ASSUME Shape, Shape', Ledger, NEW d \in Requests, approve(d)
  PROVE  Ledger'
<1> DEFINE u == request[d].user
           r == request[d].grams
<1>1. u \in Users /\ r \in Nat /\ request[d].status = "PENDING"
  BY DEF Shape, TypeOK, Named, approve
<1>2. /\ request'[d].status = "APPROVED" /\ request'[d].user = u
      /\ request'[d].grams = r /\ hold'[d] = "none"
      /\ Only(d) /\ UNCHANGED <<order, stock>>
  BY <1>1
  DEF Shape, TypeOK, HoldFollowsOwner, Owners, Only, approve, SetRequest,
      SetHold, shop
<1>3. /\ VaultPart(d) = 0 /\ VaultPart(d)' = r
      /\ PartWith(d, "APPROVED") = 0 /\ PartWith(d, "APPROVED")' = r
      /\ PartWith(d, "SHIPPED") = 0 /\ PartWith(d, "SHIPPED")' = 0
  BY <1>1, <1>2 DEF VaultPart, PartWith
<1>4. /\ SellingPart(d) = 0 /\ SellingPart(d)' = 0
      /\ TakenPart(d) = 0 /\ TakenPart(d)' = r
      /\ \A w \in Users :
           /\ HeldPart(d, w) = IF hold[d] = "live" /\ w = u THEN r ELSE 0
           /\ HeldPart(d, w)' = 0
  BY <1>2, <1>3, RequestParts
<1>5. /\ AllGold' = AllGold + (-(r)) /\ gold'[u] = gold[u] - (r)
      /\ \A w \in Users \ {u} : gold'[w] = gold[w]
  <2>1. Take(u, r)
    BY DEF approve
  <2> HIDE DEF u, r
  <2> QED BY <1>1, <2>1, TakeStep
<1>6. /\ books'.liability = books.liability + (-r)
      /\ books'.physical = books.physical + (-r)
      /\ books'.reserved = books.reserved + r
      /\ books'.transit = books.transit + 0
  BY SumsAreInts DEF approve, Post
<1>7. /\ history'.bought = history.bought
      /\ \A w \in Users : history'.forced[w]
             = history.forced[w] + (IF w = u /\ hold[d] # "live" THEN r ELSE 0)
  BY SumsAreInts DEF approve, Note, rest, Shape, TypeOK
<1> DEFINE g == -r
<1> HIDE DEF u, r
<1>8. g \in Int /\ AllGold' = AllGold + g
  BY <1>1, <1>5, SumsAreInts
<1>9. /\ books'.liability = books.liability + g
      /\ books'.physical = books.physical - VaultPart(d)' + VaultPart(d)
      /\ books'.reserved = books.reserved + PartWith(d, "APPROVED")'
                             - PartWith(d, "APPROVED")
      /\ books'.transit = books.transit + PartWith(d, "SHIPPED")'
                            - PartWith(d, "SHIPPED")
  BY <1>1, <1>3, <1>6, SumsAreInts
<1>10. /\ history'.bought = history.bought
       /\ g + TakenPart(d)' = TakenPart(d)
       /\ stock' + SellingPart(d)' = stock + SellingPart(d)
  BY <1>1, <1>2, <1>4, <1>7, SumsAreInts
<1>11. \A w \in Users :
         \/ Held(w) + HeldPart(d, w)' - HeldPart(d, w) <= gold'[w]
         \/ HeldPart(d, w)' - HeldPart(d, w)
              <= gold'[w] - gold[w] + history'.forced[w] - history.forced[w]
  <2> TAKE w \in Users
  <2>1. /\ gold[w] \in Nat /\ gold'[w] \in Nat /\ history.forced[w] \in Nat
        /\ history'.forced[w] \in Nat
    BY SumsAreInts
  <2> QED BY <1>1, <1>4, <1>5, <1>7, <2>1
<1> HIDE DEF g
<1>12. d \in Owners
  BY DEF Owners
<1> QED BY <1>2, <1>8, <1>9, <1>10, <1>11, <1>12, LedgerStep

\* A request is shipped.
LEMMA Ledger_ship ==
  ASSUME Shape, Shape', Ledger, NEW d \in Requests, ship(d)
  PROVE  Ledger'
<1> DEFINE u == request[d].user
           r == request[d].grams
<1>1. u \in Users /\ r \in Nat /\ request[d].status = "APPROVED"
  BY DEF Shape, TypeOK, Named, ship
<1>2. /\ request'[d].status = "SHIPPED" /\ request'[d].user = u
      /\ request'[d].grams = r /\ hold'[d] = "none"
      /\ Only(d) /\ UNCHANGED <<order, stock>>
  BY <1>1
  DEF Shape, TypeOK, HoldFollowsOwner, Owners, Only, ship, SetRequest, SetHold,
      shop
<1>3. /\ VaultPart(d) = r /\ VaultPart(d)' = r
      /\ PartWith(d, "APPROVED") = r /\ PartWith(d, "APPROVED")' = 0
      /\ PartWith(d, "SHIPPED") = 0 /\ PartWith(d, "SHIPPED")' = r
  BY <1>1, <1>2 DEF VaultPart, PartWith
<1>4. /\ SellingPart(d) = 0 /\ SellingPart(d)' = 0
      /\ TakenPart(d) = r /\ TakenPart(d)' = r
      /\ \A w \in Users :
           /\ HeldPart(d, w) = IF hold[d] = "live" /\ w = u THEN r ELSE 0
           /\ HeldPart(d, w)' = 0
  BY <1>2, <1>3, RequestParts
<1>5. UNCHANGED <<gold, AllGold>>
  BY DEF ship, AllGold
<1>6. /\ books'.liability = books.liability + 0
      /\ books'.physical = books.physical + 0
      /\ books'.reserved = books.reserved + (-r)
      /\ books'.transit = books.transit + r
  BY SumsAreInts DEF ship, Post
<1>7. /\ history'.bought = history.bought
      /\ \A w \in Users : history'.forced[w] = history.forced[w] + 0
  BY SumsAreInts DEF ship, Note, rest, Shape, TypeOK
<1> DEFINE g == 0
<1> HIDE DEF u, r
<1>8. g \in Int /\ AllGold' = AllGold + g
  BY <1>1, <1>5, SumsAreInts
<1>9. /\ books'.liability = books.liability + g
      /\ books'.physical = books.physical - VaultPart(d)' + VaultPart(d)
      /\ books'.reserved = books.reserved + PartWith(d, "APPROVED")'
                             - PartWith(d, "APPROVED")
      /\ books'.transit = books.transit + PartWith(d, "SHIPPED")'
                            - PartWith(d, "SHIPPED")
  BY <1>1, <1>3, <1>6, SumsAreInts
<1>10. /\ history'.bought = history.bought
       /\ g + TakenPart(d)' = TakenPart(d)
       /\ stock' + SellingPart(d)' = stock + SellingPart(d)
  BY <1>1, <1>2, <1>4, <1>7, SumsAreInts
<1>11. \A w \in Users :
         \/ Held(w) + HeldPart(d, w)' - HeldPart(d, w) <= gold'[w]
         \/ HeldPart(d, w)' - HeldPart(d, w)
              <= gold'[w] - gold[w] + history'.forced[w] - history.forced[w]
  <2> TAKE w \in Users
  <2>1. /\ gold[w] \in Nat /\ gold'[w] \in Nat /\ history.forced[w] \in Nat
        /\ history'.forced[w] \in Nat
    BY SumsAreInts
  <2> QED BY <1>1, <1>4, <1>5, <1>7, <2>1
<1> HIDE DEF g
<1>12. d \in Owners
  BY DEF Owners
<1> QED BY <1>2, <1>8, <1>9, <1>10, <1>11, <1>12, LedgerStep

\* A request is delivered.
LEMMA Ledger_deliver ==
  ASSUME Shape, Shape', Ledger, NEW d \in Requests, deliver(d)
  PROVE  Ledger'
<1> DEFINE u == request[d].user
           r == request[d].grams
<1>1. u \in Users /\ r \in Nat /\ request[d].status = "SHIPPED"
  BY DEF Shape, TypeOK, Named, deliver
<1>2. /\ request'[d].status = "DELIVERED" /\ request'[d].user = u
      /\ request'[d].grams = r /\ hold'[d] = "none"
      /\ Only(d) /\ UNCHANGED <<order, stock>>
  BY <1>1
  DEF Shape, TypeOK, HoldFollowsOwner, Owners, Only, deliver, SetRequest,
      SetHold, shop
<1>3. /\ VaultPart(d) = r /\ VaultPart(d)' = r
      /\ PartWith(d, "APPROVED") = 0 /\ PartWith(d, "APPROVED")' = 0
      /\ PartWith(d, "SHIPPED") = r /\ PartWith(d, "SHIPPED")' = 0
  BY <1>1, <1>2 DEF VaultPart, PartWith
<1>4. /\ SellingPart(d) = 0 /\ SellingPart(d)' = 0
      /\ TakenPart(d) = r /\ TakenPart(d)' = r
      /\ \A w \in Users :
           /\ HeldPart(d, w) = IF hold[d] = "live" /\ w = u THEN r ELSE 0
           /\ HeldPart(d, w)' = 0
  BY <1>2, <1>3, RequestParts
<1>5. UNCHANGED <<gold, AllGold>>
  BY DEF deliver, AllGold
<1>6. /\ books'.liability = books.liability + 0
      /\ books'.physical = books.physical + 0
      /\ books'.reserved = books.reserved + 0
      /\ books'.transit = books.transit + (-r)
  BY SumsAreInts DEF deliver, Post
<1>7. /\ history'.bought = history.bought
      /\ \A w \in Users : history'.forced[w] = history.forced[w] + 0
  BY SumsAreInts DEF deliver, Note, rest, Shape, TypeOK
<1> DEFINE g == 0
<1> HIDE DEF u, r
<1>8. g \in Int /\ AllGold' = AllGold + g
  BY <1>1, <1>5, SumsAreInts
<1>9. /\ books'.liability = books.liability + g
      /\ books'.physical = books.physical - VaultPart(d)' + VaultPart(d)
      /\ books'.reserved = books.reserved + PartWith(d, "APPROVED")'
                             - PartWith(d, "APPROVED")
      /\ books'.transit = books.transit + PartWith(d, "SHIPPED")'
                            - PartWith(d, "SHIPPED")
  BY <1>1, <1>3, <1>6, SumsAreInts
<1>10. /\ history'.bought = history.bought
       /\ g + TakenPart(d)' = TakenPart(d)
       /\ stock' + SellingPart(d)' = stock + SellingPart(d)
  BY <1>1, <1>2, <1>4, <1>7, SumsAreInts
<1>11. \A w \in Users :
         \/ Held(w) + HeldPart(d, w)' - HeldPart(d, w) <= gold'[w]
         \/ HeldPart(d, w)' - HeldPart(d, w)
              <= gold'[w] - gold[w] + history'.forced[w] - history.forced[w]
  <2> TAKE w \in Users
  <2>1. /\ gold[w] \in Nat /\ gold'[w] \in Nat /\ history.forced[w] \in Nat
        /\ history'.forced[w] \in Nat
    BY SumsAreInts
  <2> QED BY <1>1, <1>4, <1>5, <1>7, <2>1
<1> HIDE DEF g
<1>12. d \in Owners
  BY DEF Owners
<1> QED BY <1>2, <1>8, <1>9, <1>10, <1>11, <1>12, LedgerStep

\* An approved request is cancelled.
LEMMA Ledger_adminCancel ==
  ASSUME Shape, Shape', Ledger, NEW d \in Requests, adminCancel(d)
  PROVE  Ledger'
<1> DEFINE u == request[d].user
           r == request[d].grams
<1>1. u \in Users /\ r \in Nat /\ request[d].status = "APPROVED"
  BY DEF Shape, TypeOK, Named, adminCancel, BooksAfterCancel
<1>2. /\ request'[d].status = "CANCELLED" /\ request'[d].user = u
      /\ request'[d].grams = r /\ hold'[d] = "none"
      /\ Only(d) /\ UNCHANGED <<order, stock>>
  BY <1>1
  DEF Shape, TypeOK, HoldFollowsOwner, Owners, Only, adminCancel,
      BooksAfterCancel, SetRequest, SetHold, shop
<1>3. /\ VaultPart(d) = r /\ VaultPart(d)' = 0
      /\ PartWith(d, "APPROVED") = r /\ PartWith(d, "APPROVED")' = 0
      /\ PartWith(d, "SHIPPED") = 0 /\ PartWith(d, "SHIPPED")' = 0
  BY <1>1, <1>2 DEF VaultPart, PartWith
<1>4. /\ SellingPart(d) = 0 /\ SellingPart(d)' = 0
      /\ TakenPart(d) = r /\ TakenPart(d)' = 0
      /\ \A w \in Users :
           /\ HeldPart(d, w) = IF hold[d] = "live" /\ w = u THEN r ELSE 0
           /\ HeldPart(d, w)' = 0
  BY <1>2, <1>3, RequestParts
<1>5. /\ AllGold' = AllGold + (-(-r)) /\ gold'[u] = gold[u] - (-r)
      /\ \A w \in Users \ {u} : gold'[w] = gold[w]
  <2>1. Take(u, -r)
    BY DEF adminCancel, BooksAfterCancel
  <2> HIDE DEF u, r
  <2> QED BY <1>1, <2>1, TakeStep
<1>6. /\ books'.liability = books.liability + r
      /\ books'.physical = books.physical + r
      /\ books'.reserved = books.reserved + (-r)
      /\ books'.transit = books.transit + 0
  BY SumsAreInts DEF adminCancel, BooksAfterCancel, Post
<1>7. /\ history'.bought = history.bought
      /\ \A w \in Users : history'.forced[w] = history.forced[w] + 0
  BY SumsAreInts DEF adminCancel, BooksAfterCancel, Note, rest, Shape, TypeOK
<1> DEFINE g == r
<1> HIDE DEF u, r
<1>8. g \in Int /\ AllGold' = AllGold + g
  BY <1>1, <1>5, SumsAreInts
<1>9. /\ books'.liability = books.liability + g
      /\ books'.physical = books.physical - VaultPart(d)' + VaultPart(d)
      /\ books'.reserved = books.reserved + PartWith(d, "APPROVED")'
                             - PartWith(d, "APPROVED")
      /\ books'.transit = books.transit + PartWith(d, "SHIPPED")'
                            - PartWith(d, "SHIPPED")
  BY <1>1, <1>3, <1>6, SumsAreInts
<1>10. /\ history'.bought = history.bought
       /\ g + TakenPart(d)' = TakenPart(d)
       /\ stock' + SellingPart(d)' = stock + SellingPart(d)
  BY <1>1, <1>2, <1>4, <1>7, SumsAreInts
<1>11. \A w \in Users :
         \/ Held(w) + HeldPart(d, w)' - HeldPart(d, w) <= gold'[w]
         \/ HeldPart(d, w)' - HeldPart(d, w)
              <= gold'[w] - gold[w] + history'.forced[w] - history.forced[w]
  <2> TAKE w \in Users
  <2>1. /\ gold[w] \in Nat /\ gold'[w] \in Nat /\ history.forced[w] \in Nat
        /\ history'.forced[w] \in Nat
    BY SumsAreInts
  <2> QED BY <1>1, <1>4, <1>5, <1>7, <2>1
<1> HIDE DEF g
<1>12. d \in Owners
  BY DEF Owners
<1> QED BY <1>2, <1>8, <1>9, <1>10, <1>11, <1>12, LedgerStep

\* A request is made, and its gold reserved.
LEMMA Ledger_createInternal ==
  ASSUME Shape, Shape', Ledger, NEW d \in Requests, NEW u \in Users,
         NEW r \in Amounts, createInternal(d, u, r)
  PROVE  Ledger'
<1>1. /\ r \in Nat /\ Held(u) + r <= gold[u]
      /\ request[d].status = "none" /\ hold[d] = "none"
  <2>1. r \in Nat
    BY GoldAssumption
  <2>2. r <= gold[u] - Held(u)
    BY DEF createInternal, Available
  <2>3. request[d].status = "none" /\ hold[d] = "none"
    BY DEF createInternal, Shape, HoldFollowsOwner
  <2> QED BY <2>1, <2>2, <2>3, SumsAreInts
<1>2. /\ request'[d].status = "PENDING" /\ request'[d].user = u
      /\ request'[d].grams = r /\ Only(d) /\ UNCHANGED <<order, stock>>
  BY DEF Shape, TypeOK, Owners, Only, createInternal, SetHold, shop
<1>3. /\ VaultPart(d) = 0 /\ VaultPart(d)' = 0
      /\ PartWith(d, "APPROVED") = 0 /\ PartWith(d, "APPROVED")' = 0
      /\ PartWith(d, "SHIPPED") = 0 /\ PartWith(d, "SHIPPED")' = 0
  BY <1>1, <1>2 DEF VaultPart, PartWith
<1>4. /\ SellingPart(d) = 0 /\ SellingPart(d)' = 0
      /\ TakenPart(d) = 0 /\ TakenPart(d)' = 0
      /\ \A w \in Users : /\ HeldPart(d, w) = 0
                          /\ HeldPart(d, w)' \in {0, r}
                          /\ w # u => HeldPart(d, w)' = 0
  BY <1>1, <1>2, <1>3, RequestParts
<1>5. UNCHANGED <<gold, AllGold, books, history>>
  BY DEF createInternal, AllGold, rest
<1> DEFINE e == 0
<1>8. e \in Int /\ AllGold' = AllGold + e
  BY <1>5, SumsAreInts
<1>9. /\ books'.liability = books.liability + e
      /\ books'.physical = books.physical - VaultPart(d)' + VaultPart(d)
      /\ books'.reserved = books.reserved + PartWith(d, "APPROVED")'
                             - PartWith(d, "APPROVED")
      /\ books'.transit = books.transit + PartWith(d, "SHIPPED")'
                            - PartWith(d, "SHIPPED")
  BY <1>3, <1>5, SumsAreInts
<1>10. /\ history'.bought = history.bought
       /\ e + TakenPart(d)' = TakenPart(d)
       /\ stock' + SellingPart(d)' = stock + SellingPart(d)
  BY <1>2, <1>4, <1>5, SumsAreInts
<1>11. \A w \in Users :
         \/ Held(w) + HeldPart(d, w)' - HeldPart(d, w) <= gold'[w]
         \/ HeldPart(d, w)' - HeldPart(d, w)
              <= gold'[w] - gold[w] + history'.forced[w] - history.forced[w]
  <2> TAKE w \in Users
  <2>1. /\ gold[w] \in Nat /\ gold'[w] \in Nat /\ history.forced[w] \in Nat
        /\ history'.forced[w] \in Nat /\ Held(w) \in Nat
    BY SumsAreInts
  <2> QED BY <1>1, <1>4, <1>5, <2>1
<1> HIDE DEF e
<1>12. d \in Owners
  BY DEF Owners
<1> QED BY <1>2, <1>8, <1>9, <1>10, <1>11, <1>12, LedgerStep

\* A reservation ends by itself, or is deleted.
LEMMA LedgerUnhold ==
  ASSUME Shape, Shape', Ledger, NEW x \in Owners, NEW h \in {"none", "lapsed"},
         SetHold(x, h),
         UNCHANGED <<gold, request, order, stock, books, history>>
  PROVE  Ledger'
<1>1. hold'[x] = h /\ Only(x)
  BY DEF Shape, TypeOK, Only, SetHold
<1>2. /\ VaultPart(x) = VaultPart(x)' /\ TakenPart(x) = TakenPart(x)'
      /\ SellingPart(x) = SellingPart(x)'
      /\ PartWith(x, "APPROVED") = PartWith(x, "APPROVED")'
      /\ PartWith(x, "SHIPPED") = PartWith(x, "SHIPPED")'
      /\ \A w \in Users : HeldPart(x, w)' = 0 /\ HeldPart(x, w) \in Nat
  <2>1. RowOf(x).grams \in Nat
    BY Rows DEF Shape
  <2> QED BY <1>1, <2>1
         DEF VaultPart, TakenPart, SellingPart, PartWith, HeldPart, RowOf
<1>3. AllGold' = AllGold
  BY DEF AllGold
<1>4. /\ VaultPart(x) \in Int /\ TakenPart(x) \in Int
      /\ PartWith(x, "APPROVED") \in Int /\ PartWith(x, "SHIPPED") \in Int
      /\ SellingPart(x) \in Int
  BY DEF VaultPart, TakenPart, PartWith, SellingPart, Shape, TypeOK
<1> DEFINE e == 0
<1>8. e \in Int /\ AllGold' = AllGold + e
  BY <1>3, SumsAreInts
<1>9. /\ books'.liability = books.liability + e
      /\ books'.physical = books.physical - VaultPart(x)' + VaultPart(x)
      /\ books'.reserved = books.reserved + PartWith(x, "APPROVED")'
                             - PartWith(x, "APPROVED")
      /\ books'.transit = books.transit + PartWith(x, "SHIPPED")'
                            - PartWith(x, "SHIPPED")
  BY <1>2, <1>4, SumsAreInts
<1>10. /\ history'.bought = history.bought
       /\ e + TakenPart(x)' = TakenPart(x)
       /\ stock' + SellingPart(x)' = stock + SellingPart(x)
  BY <1>2, <1>4, SumsAreInts
<1>11. \A w \in Users :
         \/ Held(w) + HeldPart(x, w)' - HeldPart(x, w) <= gold'[w]
         \/ HeldPart(x, w)' - HeldPart(x, w)
              <= gold'[w] - gold[w] + history'.forced[w] - history.forced[w]
  <2> TAKE w \in Users
  <2>1. /\ gold[w] \in Nat /\ gold'[w] \in Nat /\ history.forced[w] \in Nat
        /\ history'.forced[w] \in Nat /\ Held(w) \in Nat
    BY SumsAreInts
  <2> QED BY <1>2, <2>1
<1> HIDE DEF e
<1>12. x \in Owners
  BY DEF Owners
<1> QED BY <1>1, <1>8, <1>9, <1>10, <1>11, <1>12, LedgerStep

\* Gold and the wallet pay for the bar.
LEMMA Ledger_orderPaid ==
  ASSUME Shape, Shape', Ledger, NEW o \in Orders, NEW u \in Users,
         NEW x \in BOOLEAN, orderPaid(o, u, x)
  PROVE  Ledger'
<1> DEFINE r == Applied(u, x)
<1>1. /\ r \in Nat /\ Held(u) + r <= gold[u] /\ u \in Users
      /\ order[o].status = "none" /\ hold[o] = "none"
  <2>1. r \in Nat /\ r <= Available(u)
    BY AppliedIs DEF Shape, orderPaid, OpenOrder
  <2> HIDE DEF r
  <2>2. r <= gold[u] - Held(u)
    BY <2>1 DEF Available
  <2>3. order[o].status = "none" /\ hold[o] = "none"
    BY DEF orderPaid, OpenOrder, Shape, HoldFollowsOwner
  <2> QED BY <2>1, <2>2, <2>3, SumsAreInts
<1>2. /\ order'[o].status = "PAID" /\ order'[o].user = u /\ order'[o].grams = r
      /\ stock' = stock - 1 /\ hold'[o] = "none" /\ Only(o)
  BY <1>1 DEF Shape, TypeOK, Owners, Only, orderPaid, OpenOrder
<1>3. /\ VaultPart(o) = 0 /\ VaultPart(o)' = 0
      /\ PartWith(o, "APPROVED") = 0 /\ PartWith(o, "APPROVED")' = 0
      /\ PartWith(o, "SHIPPED") = 0 /\ PartWith(o, "SHIPPED")' = 0
      /\ TakenPart(o) = 0 /\ TakenPart(o)' = r
      /\ SellingPart(o) = 0 /\ SellingPart(o)' = 1
  BY <1>1, <1>2, OrderParts DEF SellingPart
<1>4. \A w \in Users : HeldPart(o, w) = 0 /\ HeldPart(o, w)' = 0
  BY <1>1, <1>2, OrderParts
<1>5. /\ AllGold' = AllGold + (-(r)) /\ gold'[u] = gold[u] - (r)
      /\ \A w \in Users \ {u} : gold'[w] = gold[w]
  <2>1. Take(u, r)
    BY DEF orderPaid
  <2> HIDE DEF r
  <2> QED BY <1>1, <2>1, TakeStep
<1>6. /\ books'.liability = books.liability + (-r)
      /\ books'.physical = books.physical /\ books'.reserved = books.reserved
      /\ books'.transit = books.transit
  <2>1. Post((-r), 0, 0, 0)
    BY DEF orderPaid
  <2> HIDE DEF r
  <2> QED BY <2>1, SumsAreInts DEF Post
<1>7. UNCHANGED history
  BY DEF orderPaid, rest
<1> HIDE DEF r
<1> DEFINE e == -r
<1>8. e \in Int /\ AllGold' = AllGold + e
  BY <1>1, <1>5, SumsAreInts
<1>9. /\ books'.liability = books.liability + e
      /\ books'.physical = books.physical - VaultPart(o)' + VaultPart(o)
      /\ books'.reserved = books.reserved + PartWith(o, "APPROVED")'
                             - PartWith(o, "APPROVED")
      /\ books'.transit = books.transit + PartWith(o, "SHIPPED")'
                            - PartWith(o, "SHIPPED")
  BY <1>1, <1>3, <1>6, SumsAreInts
<1>10. /\ history'.bought = history.bought
       /\ e + TakenPart(o)' = TakenPart(o)
       /\ stock' + SellingPart(o)' = stock + SellingPart(o)
  BY <1>1, <1>2, <1>3, <1>7, SumsAreInts
<1>11. \A w \in Users :
         \/ Held(w) + HeldPart(o, w)' - HeldPart(o, w) <= gold'[w]
         \/ HeldPart(o, w)' - HeldPart(o, w)
              <= gold'[w] - gold[w] + history'.forced[w] - history.forced[w]
  <2> TAKE w \in Users
  <2>1. /\ gold[w] \in Nat /\ gold'[w] \in Nat /\ history.forced[w] \in Nat
        /\ history'.forced[w] \in Nat /\ Held(w) \in Nat
    BY SumsAreInts
  <2>2. CASE w = u
    BY <1>1, <1>4, <1>5, <1>7, <1>2, <2>1, <2>2
  <2>3. CASE w # u
    BY <1>1, <1>4, <1>5, <1>7, <1>2, <2>1, <2>3
  <2> QED BY <2>2, <2>3
<1> HIDE DEF e
<1>12. o \in Owners
  BY DEF Owners
<1> QED BY <1>2, <1>8, <1>9, <1>10, <1>11, <1>12, LedgerStep

\* The gold is reserved until the gateway answers.
LEMMA Ledger_orderReserved ==
  ASSUME Shape, Shape', Ledger, NEW k \in Calls, NEW o \in Orders,
         NEW u \in Users, NEW x \in BOOLEAN, orderReserved(k, o, u, x)
  PROVE  Ledger'
<1> DEFINE r == Applied(u, x)
<1>1. /\ r \in Nat /\ Held(u) + r <= gold[u] /\ u \in Users
      /\ order[o].status = "none" /\ hold[o] = "none"
  <2>1. r \in Nat /\ r <= Available(u)
    BY AppliedIs DEF Shape, orderReserved, OpenOrder
  <2> HIDE DEF r
  <2>2. r <= gold[u] - Held(u)
    BY <2>1 DEF Available
  <2>3. order[o].status = "none" /\ hold[o] = "none"
    BY DEF orderReserved, OpenOrder, Shape, HoldFollowsOwner
  <2> QED BY <2>1, <2>2, <2>3, SumsAreInts
<1>2. /\ order'[o].status = "PENDING_PAYMENT" /\ order'[o].user = u
      /\ order'[o].grams = r /\ stock' = stock - 1 /\ Only(o)
  BY <1>1 DEF Shape, TypeOK, Owners, Only, orderReserved, OpenOrder, SetHold
<1>3. /\ VaultPart(o) = 0 /\ VaultPart(o)' = 0
      /\ PartWith(o, "APPROVED") = 0 /\ PartWith(o, "APPROVED")' = 0
      /\ PartWith(o, "SHIPPED") = 0 /\ PartWith(o, "SHIPPED")' = 0
      /\ TakenPart(o) = 0 /\ TakenPart(o)' = 0
      /\ SellingPart(o) = 0 /\ SellingPart(o)' = 1
  BY <1>1, <1>2, OrderParts DEF SellingPart
<1>4. \A w \in Users : /\ HeldPart(o, w) = 0 /\ HeldPart(o, w)' \in {0, r}
                       /\ w # u => HeldPart(o, w)' = 0
  BY <1>1, <1>2, OrderParts
<1>5. UNCHANGED <<gold, AllGold>>
  BY DEF AllGold, orderReserved
<1>6. /\ books'.liability = books.liability /\ books'.physical = books.physical
      /\ books'.reserved = books.reserved /\ books'.transit = books.transit
  BY DEF orderReserved
<1>7. UNCHANGED history
  BY DEF orderReserved
<1> HIDE DEF r
<1> DEFINE e == 0
<1>8. e \in Int /\ AllGold' = AllGold + e
  BY <1>1, <1>5, SumsAreInts
<1>9. /\ books'.liability = books.liability + e
      /\ books'.physical = books.physical - VaultPart(o)' + VaultPart(o)
      /\ books'.reserved = books.reserved + PartWith(o, "APPROVED")'
                             - PartWith(o, "APPROVED")
      /\ books'.transit = books.transit + PartWith(o, "SHIPPED")'
                            - PartWith(o, "SHIPPED")
  BY <1>1, <1>3, <1>6, SumsAreInts
<1>10. /\ history'.bought = history.bought
       /\ e + TakenPart(o)' = TakenPart(o)
       /\ stock' + SellingPart(o)' = stock + SellingPart(o)
  BY <1>1, <1>2, <1>3, <1>7, SumsAreInts
<1>11. \A w \in Users :
         \/ Held(w) + HeldPart(o, w)' - HeldPart(o, w) <= gold'[w]
         \/ HeldPart(o, w)' - HeldPart(o, w)
              <= gold'[w] - gold[w] + history'.forced[w] - history.forced[w]
  <2> TAKE w \in Users
  <2>1. /\ gold[w] \in Nat /\ gold'[w] \in Nat /\ history.forced[w] \in Nat
        /\ history'.forced[w] \in Nat /\ Held(w) \in Nat
    BY SumsAreInts
  <2>2. CASE w = u
    BY <1>1, <1>4, <1>5, <1>7, <2>1, <2>2
  <2>3. CASE w # u
    BY <1>1, <1>4, <1>5, <1>7, <2>1, <2>3
  <2> QED BY <2>2, <2>3
<1> HIDE DEF e
<1>12. o \in Owners
  BY DEF Owners
<1> QED BY <1>2, <1>8, <1>9, <1>10, <1>11, <1>12, LedgerStep

\* An order that was not paid is cancelled, by whoever.
LEMMA Ledger_CancelUnpaid ==
  ASSUME Shape, Shape', Ledger, NEW o \in Orders,
         order[o].status = "PENDING_PAYMENT", CancelUnpaid(o),
         UNCHANGED <<gold, request, books, history>>
  PROVE  Ledger'
<1> DEFINE u == order[o].user
           r == order[o].grams
<1>1. u \in Users /\ r \in Nat /\ order[o].status = "PENDING_PAYMENT"
  BY DEF Shape, TypeOK, Named
<1>2. /\ order'[o].status = "CANCELLED" /\ order'[o].user = u
      /\ order'[o].grams = r /\ stock' = stock + 1 /\ hold'[o] = "none" /\ Only(o)
  BY <1>1 DEF Shape, TypeOK, Owners, Only, CancelUnpaid, SetHold
<1>3. /\ VaultPart(o) = 0 /\ VaultPart(o)' = 0
      /\ PartWith(o, "APPROVED") = 0 /\ PartWith(o, "APPROVED")' = 0
      /\ PartWith(o, "SHIPPED") = 0 /\ PartWith(o, "SHIPPED")' = 0
      /\ TakenPart(o) = 0 /\ TakenPart(o)' = 0
      /\ SellingPart(o) = 1 /\ SellingPart(o)' = 0
  BY <1>1, <1>2, OrderParts DEF SellingPart
<1>4. \A w \in Users : HeldPart(o, w) \in Nat /\ HeldPart(o, w)' = 0
  BY <1>1, <1>2, OrderParts
<1>5. UNCHANGED <<gold, AllGold>>
  BY DEF AllGold
<1>6. /\ books'.liability = books.liability /\ books'.physical = books.physical
      /\ books'.reserved = books.reserved /\ books'.transit = books.transit
  OBVIOUS
<1>7. UNCHANGED history
  OBVIOUS
<1> HIDE DEF u, r
<1> DEFINE e == 0
<1>8. e \in Int /\ AllGold' = AllGold + e
  BY <1>1, <1>5, SumsAreInts
<1>9. /\ books'.liability = books.liability + e
      /\ books'.physical = books.physical - VaultPart(o)' + VaultPart(o)
      /\ books'.reserved = books.reserved + PartWith(o, "APPROVED")'
                             - PartWith(o, "APPROVED")
      /\ books'.transit = books.transit + PartWith(o, "SHIPPED")'
                            - PartWith(o, "SHIPPED")
  BY <1>1, <1>3, <1>6, SumsAreInts
<1>10. /\ history'.bought = history.bought
       /\ e + TakenPart(o)' = TakenPart(o)
       /\ stock' + SellingPart(o)' = stock + SellingPart(o)
  BY <1>1, <1>2, <1>3, <1>7, SumsAreInts
<1>11. \A w \in Users :
         \/ Held(w) + HeldPart(o, w)' - HeldPart(o, w) <= gold'[w]
         \/ HeldPart(o, w)' - HeldPart(o, w)
              <= gold'[w] - gold[w] + history'.forced[w] - history.forced[w]
  <2> TAKE w \in Users
  <2>1. /\ gold[w] \in Nat /\ gold'[w] \in Nat /\ history.forced[w] \in Nat
        /\ history'.forced[w] \in Nat /\ Held(w) \in Nat
    BY SumsAreInts
  <2>2. CASE w = u
    BY <1>1, <1>4, <1>5, <1>7, <2>1, <2>2
  <2>3. CASE w # u
    BY <1>1, <1>4, <1>5, <1>7, <2>1, <2>3
  <2> QED BY <2>2, <2>3
<1> HIDE DEF e
<1>12. o \in Owners
  BY DEF Owners
<1> QED BY <1>2, <1>8, <1>9, <1>10, <1>11, <1>12, LedgerStep

\* The payment is confirmed and the reserved gold captured.
LEMMA Ledger_Captured ==
  ASSUME Shape, Shape', Ledger, NEW o \in Orders,
         order[o].status = "PENDING_PAYMENT", MayCapture(o),
         order' = [order EXCEPT ![o].status = "PAID"], SetHold(o, "none"),
         Take(order[o].user, order[o].grams), Post(-order[o].grams, 0, 0, 0),
         UNCHANGED <<request, stock, history>>
  PROVE  Ledger'
<1> DEFINE u == order[o].user
           r == order[o].grams
<1>1. /\ u \in Users /\ r \in Nat /\ order[o].status = "PENDING_PAYMENT"
      /\ hold[o] = "live"
  BY DEF Shape, TypeOK, Named, MayCapture
<1>2. /\ order'[o].status = "PAID" /\ order'[o].user = u
      /\ order'[o].grams = r /\ stock' = stock /\ hold'[o] = "none" /\ Only(o)
  BY <1>1 DEF Shape, TypeOK, Owners, Only, SetHold
<1>3. /\ VaultPart(o) = 0 /\ VaultPart(o)' = 0
      /\ PartWith(o, "APPROVED") = 0 /\ PartWith(o, "APPROVED")' = 0
      /\ PartWith(o, "SHIPPED") = 0 /\ PartWith(o, "SHIPPED")' = 0
      /\ TakenPart(o) = 0 /\ TakenPart(o)' = r
      /\ SellingPart(o) = 1 /\ SellingPart(o)' = 1
  BY <1>1, <1>2, OrderParts DEF SellingPart
<1>4. \A w \in Users : /\ w = u => HeldPart(o, w) = r
                       /\ w # u => HeldPart(o, w) = 0
                       /\ HeldPart(o, w)' = 0
  BY <1>1, <1>2, OrderParts
<1>5. /\ AllGold' = AllGold + (-(r)) /\ gold'[u] = gold[u] - (r)
      /\ \A w \in Users \ {u} : gold'[w] = gold[w]
  <2>1. Take(u, r)
    OBVIOUS
  <2> HIDE DEF u, r
  <2> QED BY <1>1, <2>1, TakeStep
<1>6. /\ books'.liability = books.liability + (-r)
      /\ books'.physical = books.physical /\ books'.reserved = books.reserved
      /\ books'.transit = books.transit
  <2>1. Post((-r), 0, 0, 0)
    OBVIOUS
  <2> HIDE DEF u, r
  <2> QED BY <2>1, SumsAreInts DEF Post
<1>7. UNCHANGED history
  OBVIOUS
<1> HIDE DEF u, r
<1> DEFINE e == -r
<1>8. e \in Int /\ AllGold' = AllGold + e
  BY <1>1, <1>5, SumsAreInts
<1>9. /\ books'.liability = books.liability + e
      /\ books'.physical = books.physical - VaultPart(o)' + VaultPart(o)
      /\ books'.reserved = books.reserved + PartWith(o, "APPROVED")'
                             - PartWith(o, "APPROVED")
      /\ books'.transit = books.transit + PartWith(o, "SHIPPED")'
                            - PartWith(o, "SHIPPED")
  BY <1>1, <1>3, <1>6, SumsAreInts
<1>10. /\ history'.bought = history.bought
       /\ e + TakenPart(o)' = TakenPart(o)
       /\ stock' + SellingPart(o)' = stock + SellingPart(o)
  BY <1>1, <1>2, <1>3, <1>7, SumsAreInts
<1>11. \A w \in Users :
         \/ Held(w) + HeldPart(o, w)' - HeldPart(o, w) <= gold'[w]
         \/ HeldPart(o, w)' - HeldPart(o, w)
              <= gold'[w] - gold[w] + history'.forced[w] - history.forced[w]
  <2> TAKE w \in Users
  <2>1. /\ gold[w] \in Nat /\ gold'[w] \in Nat /\ history.forced[w] \in Nat
        /\ history'.forced[w] \in Nat /\ Held(w) \in Nat
    BY SumsAreInts
  <2>2. CASE w = u
    BY <1>1, <1>4, <1>5, <1>7, <2>1, <2>2
  <2>3. CASE w # u
    BY <1>1, <1>4, <1>5, <1>7, <2>1, <2>3
  <2> QED BY <2>2, <2>3
<1> HIDE DEF e
<1>12. o \in Owners
  BY DEF Owners
<1> QED BY <1>2, <1>8, <1>9, <1>10, <1>11, <1>12, LedgerStep

\* A paid order is cancelled, and its gold given back.
LEMMA Ledger_cancelPaid ==
  ASSUME Shape, Shape', Ledger, NEW o \in Orders, cancelPaid(o)
  PROVE  Ledger'
<1> DEFINE u == order[o].user
           r == order[o].grams
<1>1. /\ u \in Users /\ r \in Nat /\ order[o].status = "PAID" /\ hold[o] = "none"
  BY DEF Shape, TypeOK, Named, HoldFollowsOwner, Owners, cancelPaid
<1>2. /\ order'[o].status = "CANCELLED" /\ order'[o].user = u
      /\ order'[o].grams = r /\ stock' = stock + 1 /\ hold'[o] = "none" /\ Only(o)
  BY <1>1 DEF Shape, TypeOK, Owners, Only, cancelPaid
<1>3. /\ VaultPart(o) = 0 /\ VaultPart(o)' = 0
      /\ PartWith(o, "APPROVED") = 0 /\ PartWith(o, "APPROVED")' = 0
      /\ PartWith(o, "SHIPPED") = 0 /\ PartWith(o, "SHIPPED")' = 0
      /\ TakenPart(o) = r /\ TakenPart(o)' = 0
      /\ SellingPart(o) = 1 /\ SellingPart(o)' = 0
  BY <1>1, <1>2, OrderParts DEF SellingPart
<1>4. \A w \in Users : HeldPart(o, w) = 0 /\ HeldPart(o, w)' = 0
  BY <1>1, <1>2, OrderParts
<1>5. /\ AllGold' = AllGold + (-(-r)) /\ gold'[u] = gold[u] - (-r)
      /\ \A w \in Users \ {u} : gold'[w] = gold[w]
  <2>1. Take(u, -r)
    BY DEF cancelPaid
  <2> HIDE DEF u, r
  <2> QED BY <1>1, <2>1, TakeStep
<1>6. /\ books'.liability = books.liability + r
      /\ books'.physical = books.physical /\ books'.reserved = books.reserved
      /\ books'.transit = books.transit
  <2>1. Post(r, 0, 0, 0)
    BY DEF cancelPaid
  <2> HIDE DEF u, r
  <2> QED BY <2>1, SumsAreInts DEF Post
<1>7. UNCHANGED history
  BY DEF cancelPaid, rest
<1> HIDE DEF u, r
<1> DEFINE e == r
<1>8. e \in Int /\ AllGold' = AllGold + e
  BY <1>1, <1>5, SumsAreInts
<1>9. /\ books'.liability = books.liability + e
      /\ books'.physical = books.physical - VaultPart(o)' + VaultPart(o)
      /\ books'.reserved = books.reserved + PartWith(o, "APPROVED")'
                             - PartWith(o, "APPROVED")
      /\ books'.transit = books.transit + PartWith(o, "SHIPPED")'
                            - PartWith(o, "SHIPPED")
  BY <1>1, <1>3, <1>6, SumsAreInts
<1>10. /\ history'.bought = history.bought
       /\ e + TakenPart(o)' = TakenPart(o)
       /\ stock' + SellingPart(o)' = stock + SellingPart(o)
  BY <1>1, <1>2, <1>3, <1>7, SumsAreInts
<1>11. \A w \in Users :
         \/ Held(w) + HeldPart(o, w)' - HeldPart(o, w) <= gold'[w]
         \/ HeldPart(o, w)' - HeldPart(o, w)
              <= gold'[w] - gold[w] + history'.forced[w] - history.forced[w]
  <2> TAKE w \in Users
  <2>1. /\ gold[w] \in Nat /\ gold'[w] \in Nat /\ history.forced[w] \in Nat
        /\ history'.forced[w] \in Nat /\ Held(w) \in Nat
    BY SumsAreInts
  <2>2. CASE w = u
    BY <1>1, <1>4, <1>5, <1>7, <2>1, <2>2
  <2>3. CASE w # u
    BY <1>1, <1>4, <1>5, <1>7, <2>1, <2>3
  <2> QED BY <2>2, <2>3
<1> HIDE DEF e
<1>12. o \in Owners
  BY DEF Owners
<1> QED BY <1>2, <1>8, <1>9, <1>10, <1>11, <1>12, LedgerStep

\* Gold goes from a wallet to another, or stays.
LEMMA Ledger_transfer ==
  ASSUME Shape, Shape', Ledger, NEW k \in Calls, transfer(k)
  PROVE  Ledger'
<1> DEFINE u == call[k].from
           v == call[k].to
           r == call[k].grams
<1>1. u \in Users /\ v \in Users /\ u # v /\ r \in Nat
  BY DEF Shape, TypeOK, CallsHold, transfer
<1>2. UNCHANGED <<request, order, hold, stock, books, history>>
  BY DEF transfer, shop
<1>3. CASE ~ MayTransfer(k)
  <2>1. gold' = gold
    BY <1>3 DEF transfer
  <2> QED BY <1>2, <2>1, LedgerKept
<1>4. CASE MayTransfer(k)
  <2>1. gold' = [gold EXCEPT ![u] = @ - r, ![v] = @ + r]
    BY <1>4 DEF transfer
  <2>2. r <= gold[u] - Held(u)
    BY <1>4 DEF MayTransfer, Available
  <2> HIDE DEF u, v, r
  <2> DEFINE f == [gold EXCEPT ![u] = @ - r]
  <2>3. gold \in [Users -> Nat] /\ gold' \in [Users -> Nat]
    BY DEF Shape, TypeOK
  <2>4. /\ \A w \in Users : f[w] \in Int
        /\ f[u] = gold[u] - r /\ \A w \in Users \ {u} : gold[w] = f[w]
        /\ gold'[v] = f[v] + r /\ \A w \in Users \ {v} : f[w] = gold'[w]
    BY <1>1, <2>1, <2>3
  <2> HIDE DEF f
  <2>5. IsFiniteSet(Users)
    BY Rows DEF Shape
  <2>6. \A w \in Users : gold[w] \in Int /\ gold'[w] \in Int
    BY <2>3
  <2>7. SumFunctionOnSet(f, Users)
          = SumFunctionOnSet(gold, Users) + f[u] - gold[u]
    BY <1>1, <2>4, <2>5, <2>6, SumChange
  <2>8. SumFunctionOnSet(gold', Users)
          = SumFunctionOnSet(f, Users) + gold'[v] - f[v]
    <3> DEFINE h == gold'
    <3>1. \A w \in Users : f[w] \in Int /\ h[w] \in Int
      BY <2>4, <2>6
    <3>2. \A w \in Users \ {v} : f[w] = h[w]
      BY <2>4
    <3> HIDE DEF h
    <3>3. SumFunctionOnSet(h, Users) = SumFunctionOnSet(f, Users) + h[v] - f[v]
      BY <1>1, <2>5, <3>1, <3>2, SumChange
    <3> QED BY <3>3 DEF h
  <2>9. AllGold' = AllGold + 0
    BY <1>1, <2>4, <2>6, <2>7, <2>8, SumsAreInts DEF AllGold
  <2>10. Post(0, 0, 0, 0) /\ history'.bought = history.bought + 0
    BY <1>2 DEF Post, Shape, TypeOK
  <2>11. \A w \in Users :
           \/ Held(w) <= gold'[w]
           \/ 0 <= gold'[w] - gold[w] + history'.forced[w] - history.forced[w]
    <3> TAKE w \in Users
    <3>1. /\ Held(w) \in Nat /\ gold[w] \in Nat /\ gold'[w] \in Nat
          /\ history.forced[w] \in Nat /\ history'.forced[w] = history.forced[w]
      BY <1>2, SumsAreInts
    <3>2. CASE w = u
      BY <1>1, <2>2, <2>4, <3>1, <3>2
    <3>3. CASE w # u
      BY <1>1, <2>4, <3>1, <3>3
    <3> QED BY <3>2, <3>3
  <2>12. 0 \in Int
    OBVIOUS
  <2> QED BY <1>2, <2>9, <2>10, <2>11, <2>12, LedgerGold
<1> QED BY <1>3, <1>4

\* A trade or an adjustment
LEMMA LedgerMove ==
  ASSUME Shape, Shape', Ledger, NEW u \in Users, NEW g \in Int, NEW f \in Nat,
         g >= 0 \/ f + g >= 0 \/ Held(u) <= gold[u] + g, Move(u, g, f)
  PROVE  Ledger'
<1>1. /\ gold'[u] = gold[u] + g /\ \A w \in Users \ {u} : gold'[w] = gold[w]
      /\ UNCHANGED <<request, order, hold, stock>> /\ Post(g, 0, 0, 0)
  BY DEF Shape, TypeOK, Move, shop
<1>2. /\ history'.bought = history.bought + g
      /\ history'.forced[u] = history.forced[u] + f
      /\ \A w \in Users \ {u} : history'.forced[w] = history.forced[w]
  BY DEF Shape, TypeOK, Move, Note
<1>3. AllGold' = AllGold + g
  BY <1>1, AllGoldStep
<1>4. \A w \in Users :
        \/ Held(w) <= gold'[w]
        \/ 0 <= gold'[w] - gold[w] + history'.forced[w] - history.forced[w]
  <2> TAKE w \in Users
  <2>1. /\ Held(w) \in Nat /\ gold[w] \in Nat /\ gold'[w] \in Nat
        /\ history.forced[w] \in Nat
    BY SumsAreInts
  <2> QED BY <1>1, <1>2, <2>1
<1> QED BY <1>1, <1>2, <1>3, <1>4, LedgerGold

\* Buying, selling and deducting keep it.
LEMMA Ledger_trade ==
  ASSUME Shape, Shape', Ledger, NEW u \in Users, buy(u) \/ sell(u) \/ deduct(u)
  PROVE  Ledger'
<1>1. Held(u) \in Nat /\ gold[u] \in Nat
  BY SumsAreInts
<1>2. CASE buy(u)
  BY <1>2, LedgerMove DEF buy
<1>3. CASE sell(u)
  <2>1. Held(u) <= gold[u] + (-1)
    BY <1>1, <1>3 DEF sell, Available
  <2> QED BY <1>3, <2>1, LedgerMove DEF sell
<1>4. CASE deduct(u)
  <2>1. 1 + (-1) >= 0 /\ Move(u, -1, 1)
    BY <1>4 DEF deduct
  <2> QED BY <2>1, LedgerMove
<1> QED BY <1>2, <1>3, <1>4

\* The callback's last step
LEMMA Ledger_finalize ==
  ASSUME Shape, Shape', Ledger, NEW k \in Calls, finalize(k)
  PROVE  Ledger'
<1> DEFINE o == call[k].order
<1>1. o \in Orders
  BY DEF Shape, CallsHold, finalize
<1>2. UNCHANGED <<request, stock, history>>
  BY DEF finalize
<1>3. CASE /\ payment[o] = "PENDING" /\ order[o].status = "PENDING_PAYMENT"
           /\ MayCapture(o)
  <2>1. /\ order' = [order EXCEPT ![o].status = "PAID"]
        /\ SetHold(o, "none") /\ Take(order[o].user, order[o].grams)
        /\ Post(-order[o].grams, 0, 0, 0)
    BY <1>3 DEF finalize
  <2> HIDE DEF o
  <2> QED BY <1>1, <1>2, <1>3, <2>1, Ledger_Captured
<1>4. CASE ~ (/\ payment[o] = "PENDING" /\ order[o].status = "PENDING_PAYMENT"
              /\ MayCapture(o))
  <2>1. UNCHANGED <<order, hold, gold, books>>
    BY <1>4 DEF finalize
  <2> QED BY <1>2, <2>1, LedgerKept
<1> QED BY <1>3, <1>4

\* The order is cancelled after a payment that was not begun, or was refused.
LEMMA Ledger_cancelUnpaidGoldOrder ==
  ASSUME Shape, Shape', Ledger, NEW k \in Calls, cancelUnpaidGoldOrder(k)
  PROVE  Ledger'
<1> DEFINE o == call[k].order
<1>1. o \in Orders
  BY DEF Shape, CallsHold, cancelUnpaidGoldOrder
<1>2. UNCHANGED <<gold, request, books, history>>
  BY DEF cancelUnpaidGoldOrder
<1>3. CASE order[o].status = "PENDING_PAYMENT"
  <2>1. CancelUnpaid(o)
    BY <1>3 DEF cancelUnpaidGoldOrder
  <2> HIDE DEF o
  <2> QED BY <1>1, <1>2, <1>3, <2>1, Ledger_CancelUnpaid
<1>4. CASE order[o].status # "PENDING_PAYMENT"
  <2>1. UNCHANGED <<order, hold, stock>>
    BY <1>4 DEF cancelUnpaidGoldOrder
  <2> QED BY <1>2, <2>1, LedgerKept
<1> QED BY <1>3, <1>4

\* Requests
LEMMA LedgerRequests ==
  ASSUME Shape, Shape', Ledger, RequestNext
  PROVE  Ledger'
<1>1. ASSUME NEW d \in Requests, CancelPending(d)
      PROVE  Ledger'
  BY <1>1, Ledger_closed DEF CancelPending, shop, rest
<1>2. ASSUME NEW d \in Requests, expireRequest(d)
      PROVE  Ledger'
  <2>1. UNCHANGED <<gold, order, stock, books, history>>
    BY <1>2 DEF expireRequest, shop
  <2>2. CASE StillPending(d)
    <3>1. /\ request[d].status = "PENDING"
          /\ SetRequest(d, "CANCELLED") /\ SetHold(d, "none")
      BY <1>2, <2>2 DEF expireRequest, StillPending
    <3> QED BY <2>1, <3>1, Ledger_closed
  <2>3. CASE ~ StillPending(d)
    <3>1. UNCHANGED <<request, hold>>
      BY <1>2, <2>3 DEF expireRequest
    <3> QED BY <2>1, <3>1, LedgerKept
  <2> QED BY <2>2, <2>3
<1>3. CASE expireStaleRequests
  BY <1>3, LedgerKept DEF expireStaleRequests, shop
<1> QED BY <1>1, <1>2, <1>3, Ledger_createInternal, Ledger_approve, Ledger_ship,
           Ledger_deliver, Ledger_adminCancel DEF RequestNext

\* Orders
LEMMA LedgerOrders ==
  ASSUME Shape, Shape', Ledger, OrderNext
  PROVE  Ledger'
<1>1. ASSUME NEW o \in Orders, cancelOrder(o) \/ expireStaleOrders(o)
      PROVE  Ledger'
  <2>1. /\ order[o].status = "PENDING_PAYMENT" /\ CancelUnpaid(o)
        /\ UNCHANGED <<gold, request, books, history>>
    BY <1>1 DEF cancelOrder, expireStaleOrders, rest
  <2> QED BY <2>1, Ledger_CancelUnpaid
<1>2. ASSUME NEW k \in Calls, beginGatewayPayment(k)
      PROVE  Ledger'
  BY <1>2, LedgerKept DEF beginGatewayPayment
<1>3. ASSUME NEW k \in Calls, paymentRefused(k)
      PROVE  Ledger'
  <2>1. call[k].order \in Owners
    BY <1>3 DEF Shape, CallsHold, paymentRefused, Owners
  <2>2. /\ SetHold(call[k].order, "none")
        /\ UNCHANGED <<gold, request, order, stock, books, history>>
    BY <1>3 DEF paymentRefused
  <2> QED BY <2>1, <2>2, LedgerUnhold
<1>4. ASSUME NEW k \in Calls, NEW o \in Orders,
             NEW outcome \in {"taken", "refused"},
             handleGatewayCallback(k, o, outcome)
      PROVE  Ledger'
  BY <1>4, LedgerKept DEF handleGatewayCallback
<1> QED BY <1>1, <1>2, <1>3, <1>4, Ledger_orderPaid, Ledger_orderReserved,
           Ledger_cancelPaid, Ledger_finalize, Ledger_cancelUnpaidGoldOrder
        DEF OrderNext

\* Wallets, time and faults
LEMMA LedgerWallets ==
  ASSUME Shape, Shape', Ledger, WalletNext
  PROVE  Ledger'
<1>1. ASSUME NEW k \in Calls, NEW u \in Users, NEW v \in Users, NEW g \in Amounts,
             internalTransfer(k, u, v, g)
      PROVE  Ledger'
  BY <1>1, LedgerKept DEF internalTransfer, shop
<1>2. ASSUME NEW k \in Calls, callDies(k)
      PROVE  Ledger'
  BY <1>2, LedgerKept DEF callDies, shop
<1>3. CASE jobDies
  BY <1>3, LedgerKept DEF jobDies, shop
<1>4. ASSUME NEW x \in Owners, holdLapses(x)
      PROVE  Ledger'
  <2>1. /\ SetHold(x, "lapsed")
        /\ UNCHANGED <<gold, request, order, stock, books, history>>
    BY <1>4 DEF holdLapses, shop, rest
  <2> QED BY <2>1, LedgerUnhold
<1> QED BY <1>1, <1>2, <1>3, <1>4, Ledger_transfer, Ledger_trade DEF WalletNext

\* At first all gold is in the wallets and all bars on the shelf.
LEMMA LedgerInit == Init => Ledger
<1> SUFFICES ASSUME Init PROVE Ledger
  OBVIOUS
<1>1. TypeOK
  BY ShapeInit DEF Shape
<1>2. In({"APPROVED", "SHIPPED", "DELIVERED"}) \cup Bought = {}
  BY DEF Init, In, Bought, Row
<1>3. /\ In({"APPROVED"}) = {} /\ In({"SHIPPED"}) = {}
      /\ In({"APPROVED", "SHIPPED", "DELIVERED"}) = {}
  BY DEF Init, In, Row
<1>4. Selling = {} /\ \A u \in Users : HoldsOf(u) = {}
  BY DEF Init, Selling, HoldsOf, Row
<1>5. GramsOf({}) = 0
  BY SumEmpty DEF GramsOf
<1>6. AllGold = Opening * Cardinality(Users)
  <2>1. IsFiniteSet(Users)
    BY <1>1, Rows
  <2>2. gold = [u \in Users |-> Opening] /\ Opening \in Nat
    BY GoldAssumption DEF Init
  <2>3. SumFunctionOnSet([u \in Users |-> Opening], Users)
          = Opening * Cardinality(Users)
    <3>1. Opening \in Int
      BY <2>2
    <3> QED BY <2>1, <3>1, SumConstant
  <2> QED BY <2>2, <2>3 DEF AllGold
<1>7. Cardinality(Users) \in Nat /\ Cardinality({}) = 0
  BY <1>1, Rows, FS_CardinalityType, FS_EmptySet
<1>8. Opening * Cardinality(Users) \in Int
  BY <1>7, GoldAssumption
<1>9. /\ books.liability = Opening * Cardinality(Users) /\ books.physical = 0
      /\ books.reserved = 0 /\ books.transit = 0
      /\ history.bought = 0 /\ stock = Stock /\ Stock \in Int
      /\ \A u \in Users : gold[u] \in Nat /\ history.forced[u] = 0
  BY GoldAssumption DEF Init
<1>10. GoldConserved
  <2>1. AllGold + GramsOf(In({"APPROVED", "SHIPPED", "DELIVERED"}) \cup Bought)
          = Opening * Cardinality(Users) + history.bought
    BY <1>2, <1>5, <1>6, <1>8, <1>9
  <2>2. stock + Cardinality(Selling) = Stock
    BY <1>4, <1>7, <1>9
  <2> QED BY <2>1, <2>2 DEF GoldConserved
<1>11. BooksFollowGold
  <2>1. books.liability = AllGold
    BY <1>6, <1>9
  <2>2. books.reserved = GramsOf(In({"APPROVED"}))
    BY <1>3, <1>5, <1>9
  <2>3. books.transit = GramsOf(In({"SHIPPED"}))
    BY <1>3, <1>5, <1>9
  <2>4. books.physical
          = - GramsOf(In({"APPROVED", "SHIPPED", "DELIVERED"}))
    <3> DEFINE g == GramsOf(In({"APPROVED", "SHIPPED", "DELIVERED"}))
    <3>1. g = 0
      BY <1>3, <1>5
    <3>2. books.physical = g
      BY <3>1, <1>9
    <3>3. g \in Int /\ g + g = g
      BY <3>1
    <3> HIDE DEF g
    <3>4. - g = g
      BY <3>3, MinusNothing
    <3> QED BY <3>2, <3>4 DEF g
  <2> QED BY <2>1, <2>2, <2>3, <2>4 DEF BooksFollowGold
<1>12. HoldsCoveredButForced
  BY <1>4, <1>5, <1>9 DEF HoldsCoveredButForced, Held
<1> QED BY <1>10, <1>11, <1>12 DEF Ledger

\* Every step keeps the ledger.
LEMMA LedgerNext == Shape /\ Shape' /\ Ledger /\ [Next]_vars => Ledger'
<1>1. Shape /\ Shape' /\ Ledger /\ UNCHANGED vars => Ledger'
  BY LedgerKept DEF vars
<1> QED BY <1>1, LedgerRequests, LedgerOrders, LedgerWallets DEF Next

\* Every reachable state of GoldHolds keeps the ledger: every handler does.
THEOREM LedgerAlways == Spec => []Ledger
<1>1. Init => Ledger
  BY LedgerInit
<1>2. Shape /\ Shape' /\ Ledger /\ [Next]_vars => Ledger'
  BY LedgerNext
<1> QED BY <1>1, <1>2, ShapeAlways, PTL DEF Spec

-----------------------------------------------------------------------------
(* The theorems.                                                             *)

\* GoldHolds: every value of the state has its type in every reachable state.
THEOREM GoldTypes == Spec => []TypeOK
BY ShapeAlways, PTL DEF Shape

\* createInternal, approve, the cancellations, the jobs and the callbacks leave
\* a hold exactly while a request waits, and at most while an order is unpaid.
THEOREM HoldsFollow == Spec => []HoldFollowsOwner
BY ShapeAlways, PTL DEF Shape

\* internalTransfer, which locks the wallets in the order of their ids, never
\* closes a circle of transfers that wait for each other.
THEOREM TransfersNeverDeadlock == Spec => []TransfersNeverCross
<1>1. Shape => TransfersNeverCross
  BY NoCircle
<1> QED BY <1>1, ShapeAlways, PTL

\* Deliveries, orders, transfers and trades neither make nor lose gold, and a
\* bar is on the shelf or in an open order, whatever dies or comes twice.
THEOREM GoldNeverLost == Spec => []GoldConserved
BY LedgerAlways, PTL DEF Ledger

\* postAccounting and postVaultMovement: account 2020 and the vault say what
\* the wallets and the requests say.
THEOREM BooksFollow == Spec => []BooksFollowGold
BY LedgerAlways, PTL DEF Ledger

\* What createInternal and the orders reserve stays in the wallet, but for what
\* adjustBalance and the approval of a lapsed request took.
THEOREM HoldsStayCovered == Spec => []HoldsCoveredButForced
BY LedgerAlways, PTL DEF Ledger
=============================================================================
