------------------------- MODULE AgentStockProofs -------------------------
(***************************************************************************)
(* Proofs about AgentStock, for any agents, bars, sales, orders and         *)
(* settlements.  The books, the titles and the held bars follow from        *)
(* IndInv, which adds only that a sale that was made names its agent and    *)
(* its bar.                                                                 *)
(***************************************************************************)
EXTENDS AgentStock, SumFacts, FiniteSetTheorems, TLAPS

SalesKnown ==
  \A s \in Sales : sale[s].status # "none" =>
    sale[s].agent \in Agents /\ sale[s].bar \in Bars

IndInv == /\ TypeOK /\ SalesKnown /\ BooksFollowBars /\ TitleFollowsBar
          /\ HeldBarHasOrder

-----------------------------------------------------------------------------
(* What the common parts of the actions do.                                  *)

LEMMA SetBarType ==
  ASSUME bar \in [Bars -> Bar], NEW b \in Bars, NEW st \in BarStatuses,
         NEW a \in Agents \cup {NoAgent}, SetBar(b, st, a)
  PROVE  /\ bar' \in [Bars -> Bar]
         /\ bar'[b] = [status |-> st, agent |-> a]
         /\ \A c \in Bars \ {b} : bar'[c] = bar[c]
BY DEF SetBar, Bar

LEMMA MoveGramsType ==
  ASSUME grams \in [Bars -> [vault: Int, consigned: Int]], NEW b \in Bars,
         NEW v \in Int, NEW c \in Int, MoveGrams(b, v, c)
  PROVE  /\ grams' \in [Bars -> [vault: Int, consigned: Int]]
         /\ grams'[b].vault = grams[b].vault + v
         /\ grams'[b].consigned = grams[b].consigned + c
         /\ \A d \in Bars \ {b} : grams'[d] = grams[d]
BY DEF MoveGrams

LEMMA SetBuybackType ==
  ASSUME buyback \in [Buybacks -> Buyback], NEW x \in Buybacks,
         NEW st \in BuybackStatuses, SetBuyback(x, st)
  PROVE  /\ buyback' \in [Buybacks -> Buyback]
         /\ buyback'[x] = [buyback[x] EXCEPT !.status = st]
         /\ \A y \in Buybacks \ {x} : buyback'[y] = buyback[y]
BY DEF SetBuyback, Buyback

LEMMA ReleaseType ==
  ASSUME bar \in [Bars -> Bar], NEW x \in Buybacks, NEW S \in SUBSET Bars,
         releaseBars(x, S)
  PROVE  /\ bar' \in [Bars -> Bar]
         /\ \A b \in Bars :
              bar'[b] = IF b \in S /\ Holds(buyback[x].agent, b, "BUYBACK_PENDING")
                        THEN [bar[b] EXCEPT !.status = "AGENT_OWNED"] ELSE bar[b]
BY DEF releaseBars, Bar, BarStatuses

\* A call that is a quote names an agent and a bar.
LEMMA QuoteType ==
  ASSUME TypeOK, NEW k \in Calls, call[k].op = "sale"
  PROVE  call[k] \in Quote
BY DEF TypeOK, Idle, Quote, Approval

LEMMA ApprovalType ==
  ASSUME TypeOK, NEW k \in Calls, call[k].op = "approve"
  PROVE  call[k] \in Approval
BY DEF TypeOK, Idle, Quote, Approval

LEMMA CallTypes ==
  ASSUME TypeOK, NEW k \in Calls, NEW c \in {Idle} \cup Quote \cup Approval,
         call' = [call EXCEPT ![k] = c]
  PROVE  call' \in [Calls -> {Idle} \cup Quote \cup Approval]
BY DEF TypeOK

-----------------------------------------------------------------------------
(* Types: one lemma per action or group of actions.                          *)

LEMMA InitType == Init => TypeOK
BY StockAssumption DEF Init, TypeOK, Bar, BarStatuses, Sale, Settlement, Buyback,
   BuybackStatuses, NoBuyback, Idle

LEMMA BarMovesType ==
  ASSUME TypeOK, NEW a \in Agents, NEW b \in Bars,
         allocate(a, b) \/ returnStock(a, b) \/ purchase(a, b)
  PROVE  TypeOK'
<1>0. /\ bar \in [Bars -> Bar]
      /\ grams \in [Bars -> [vault: Int, consigned: Int]]
      /\ "UNASSIGNED" \in BarStatuses
  BY DEF TypeOK, BarStatuses
<1>1. CASE allocate(a, b)
  <2>1. SetBar(b, "AT_AGENT", a) /\ MoveGrams(b, -1, 1)
    BY <1>1 DEF allocate
  <2>2. bar' \in [Bars -> Bar]
    BY <1>0, <2>1, SetBarType DEF BarStatuses
  <2>3. grams' \in [Bars -> [vault: Int, consigned: Int]]
    BY <1>0, <2>1, MoveGramsType
  <2> QED BY <1>1, <2>2, <2>3 DEF allocate, TypeOK
<1>2. CASE returnStock(a, b)
  <2>1. SetBar(b, "UNASSIGNED", NoAgent) /\ MoveGrams(b, 1, -1)
    BY <1>2 DEF returnStock
  <2>2. bar' \in [Bars -> Bar]
    BY <1>0, <2>1, SetBarType
  <2>3. grams' \in [Bars -> [vault: Int, consigned: Int]]
    BY <1>0, <2>1, MoveGramsType
  <2> QED BY <1>2, <2>2, <2>3 DEF returnStock, TypeOK
<1>3. CASE purchase(a, b)
  <2>1. SetBar(b, "AGENT_OWNED", a) /\ MoveGrams(b, -1, 0)
    BY <1>3 DEF purchase
  <2>2. bar' \in [Bars -> Bar]
    BY <1>0, <2>1, SetBarType DEF BarStatuses
  <2>3. grams' \in [Bars -> [vault: Int, consigned: Int]]
    BY <1>0, <2>1, MoveGramsType
  <2>4. purchases' \in Nat /\ undelivered' \subseteq Bars
    BY <1>3 DEF purchase, TypeOK
  <2> QED BY <1>3, <2>2, <2>3, <2>4 DEF purchase, TypeOK
<1> QED BY <1>1, <1>2, <1>3

LEMMA DirectBarType ==
  ASSUME TypeOK, NEW b \in Bars,
         deliver(b) \/ titleTransferred(b) \/ customerSold(b)
  PROVE  TypeOK'
<1>0. /\ bar \in [Bars -> Bar]
      /\ grams \in [Bars -> [vault: Int, consigned: Int]]
      /\ "UNASSIGNED" \in BarStatuses
  BY DEF TypeOK, BarStatuses
<1>1. CASE deliver(b)
  BY <1>1 DEF deliver, TypeOK
<1>2. CASE titleTransferred(b)
  BY <1>2 DEF titleTransferred, TypeOK
<1>3. CASE customerSold(b)
  <2>1. SetBar(b, "UNASSIGNED", NoAgent) /\ MoveGrams(b, 1, 0)
    BY <1>3 DEF customerSold
  <2>2. bar' \in [Bars -> Bar]
    BY <1>0, <2>1, SetBarType
  <2>3. grams' \in [Bars -> [vault: Int, consigned: Int]]
    BY <1>0, <2>1, MoveGramsType
  <2> QED BY <1>3, <2>2, <2>3 DEF customerSold, TypeOK
<1> QED BY <1>1, <1>2, <1>3

LEMMA QuoteTypeOK ==
  ASSUME TypeOK, NEW k \in Calls, NEW a \in Agents, NEW b \in Bars, quote(k, a, b)
  PROVE  TypeOK'
<1> DEFINE c == [op |-> "sale", agent |-> a, bar |-> b,
                 owned |-> bar[b].status = "AGENT_OWNED"]
<1>1. c \in Quote
  BY DEF Quote
<1>2. call' = [call EXCEPT ![k] = c]
  BY DEF quote
<1>3. call' \in [Calls -> {Idle} \cup Quote \cup Approval]
  BY <1>1, <1>2, CallTypes
<1> QED BY <1>3 DEF quote, TypeOK

LEMMA CreateSaleType ==
  ASSUME TypeOK, NEW k \in Calls, NEW s \in Sales, createSale(k, s)
  PROVE  TypeOK'
<1> DEFINE q == call[k]
<1>1. q \in Quote
  BY QuoteType DEF createSale
<1>2. /\ q.agent \in Agents /\ q.bar \in Bars /\ q.owned \in BOOLEAN
  BY <1>1 DEF Quote
<1>3. bar' \in [Bars -> Bar]
  BY <1>2, SetBarType DEF createSale, TypeOK, BarStatuses
<1>4. grams' \in [Bars -> [vault: Int, consigned: Int]]
  <2> DEFINE n == IF q.owned THEN 0 ELSE -1
  <2>1. n \in Int /\ MoveGrams(q.bar, 0, n)
    BY DEF createSale
  <2> HIDE DEF n
  <2> QED BY <1>2, <2>1, MoveGramsType DEF TypeOK
<1>5. title' \in [Bars -> Sales \cup {NoSale, Third}]
  BY DEF createSale, TypeOK
<1>6. sale' \in [Sales -> Sale]
  <2>1. [status |-> "COMPLETED", bar |-> q.bar, agent |-> q.agent,
         owned |-> q.owned] \in Sale
    BY <1>2 DEF Sale
  <2> QED BY <2>1 DEF createSale, TypeOK
<1>7. debt' \in [Agents -> {n \in Int : n <= CreditLimit}]
  BY <1>2, StockAssumption DEF createSale, TypeOK, WithinLimit
<1>8. call' \in [Calls -> {Idle} \cup Quote \cup Approval]
  BY CallTypes DEF createSale
<1> QED BY <1>3, <1>4, <1>5, <1>6, <1>7, <1>8 DEF createSale, TypeOK

LEMMA VoidSaleType ==
  ASSUME TypeOK, SalesKnown, NEW s \in Sales, voidSale(s)
  PROVE  TypeOK'
<1> DEFINE b == sale[s].bar
           a == sale[s].agent
<1>1. /\ a \in Agents /\ b \in Bars /\ sale[s] \in Sale
  BY DEF voidSale, SalesKnown, TypeOK
<1>2. bar' \in [Bars -> Bar]
  <2> DEFINE st == IF sale[s].owned THEN "AGENT_OWNED" ELSE "AT_AGENT"
  <2>1. st \in BarStatuses /\ SetBar(b, st, a)
    BY DEF voidSale, BarStatuses
  <2> HIDE DEF st
  <2> QED BY <1>1, <2>1, SetBarType DEF TypeOK
<1>3. grams' \in [Bars -> [vault: Int, consigned: Int]]
  <2> DEFINE n == IF sale[s].owned THEN 0 ELSE 1
  <2>1. n \in Int /\ MoveGrams(b, 0, n)
    BY DEF voidSale
  <2> HIDE DEF n
  <2> QED BY <1>1, <2>1, MoveGramsType DEF TypeOK
<1>4. title' \in [Bars -> Sales \cup {NoSale, Third}]
  BY DEF voidSale, TypeOK
<1>5. sale' \in [Sales -> Sale]
  BY <1>1 DEF voidSale, TypeOK, Sale
<1>6. debt' \in [Agents -> {n \in Int : n <= CreditLimit}]
  BY <1>1, StockAssumption DEF voidSale, VoidedDebt, TypeOK
<1> QED BY <1>2, <1>3, <1>4, <1>5, <1>6 DEF voidSale, TypeOK

LEMMA SettlementType ==
  ASSUME TypeOK, NEW t \in Settlements, NEW a \in Agents,
         submitSettlement(t, a) \/ recordSettlement(t, a)
  PROVE  TypeOK'
<1>1. CASE submitSettlement(t, a)
  BY <1>1 DEF submitSettlement, TypeOK, Settlement
<1>2. CASE recordSettlement(t, a)
  <2>1. debt' \in [Agents -> {n \in Int : n <= CreditLimit}]
    BY <1>2, StockAssumption DEF recordSettlement, Settle, TypeOK
  <2>2. settlement' \in [Settlements -> Settlement]
    BY <1>2 DEF recordSettlement, Settle, TypeOK, Settlement
  <2> QED BY <1>2, <2>1, <2>2 DEF recordSettlement, Settle, TypeOK
<1> QED BY <1>1, <1>2

LEMMA RejectSettlementType ==
  ASSUME TypeOK, NEW t \in Settlements, rejectSettlement(t)
  PROVE  TypeOK'
BY DEF rejectSettlement, TypeOK, Settlement

LEMMA ApproveSettlementType ==
  ASSUME TypeOK, NEW t \in Settlements, approveSettlement(t)
  PROVE  TypeOK'
<1> DEFINE a == settlement[t].agent
<1>1. settlement[t] \in Settlement /\ a \in Agents \cup {NoAgent}
  BY DEF TypeOK, Settlement
<1>2. settlement' \in [Settlements -> Settlement]
  BY <1>1 DEF approveSettlement, Settle, TypeOK, Settlement
<1>3. debt' = [debt EXCEPT ![a] = @ - Amount]
  BY DEF approveSettlement, Settle
<1>4. debt \in [Agents -> {n \in Int : n <= CreditLimit}]
  BY DEF TypeOK
<1>5. debt' \in [Agents -> {n \in Int : n <= CreditLimit}]
  <2> HIDE DEF a
  <2>1. ASSUME NEW c \in Agents
        PROVE  debt'[c] \in Int /\ debt'[c] <= CreditLimit
    BY <1>3, <1>4, StockAssumption
  <2> QED BY <1>3, <1>4, <2>1
<1> QED BY <1>2, <1>5 DEF approveSettlement, Settle, TypeOK

LEMMA CreateType ==
  ASSUME TypeOK, NEW x \in Buybacks, NEW a \in Agents, NEW S \in SUBSET Bars,
         create(x, a, S)
  PROVE  TypeOK'
<1>1. bar' \in [Bars -> Bar]
  BY DEF create, TypeOK, Bar, BarStatuses
<1>2. buyback' \in [Buybacks -> Buyback]
  <2>1. [status |-> "PENDING_DELIVERY", agent |-> a, items |-> S, refused |-> {}]
          \in Buyback
    BY DEF Buyback, BuybackStatuses
  <2> QED BY <2>1 DEF create, TypeOK
<1> QED BY <1>1, <1>2 DEF create, TypeOK

LEMMA EndBuybackType ==
  ASSUME TypeOK, NEW x \in Buybacks, cancelUndelivered(x) \/ reject(x)
  PROVE  TypeOK'
<1>1. buyback[x] \in Buyback /\ buyback[x].items \in SUBSET Bars
  BY DEF TypeOK, Buyback
<1>2. releaseBars(x, buyback[x].items)
  BY DEF cancelUndelivered, reject
<1>3. bar' \in [Bars -> Bar]
  BY <1>1, <1>2, ReleaseType DEF TypeOK
<1>4. SetBuyback(x, "CANCELLED") \/ SetBuyback(x, "REJECTED")
  BY DEF cancelUndelivered, reject
<1>5. buyback' \in [Buybacks -> Buyback]
  BY <1>4, SetBuybackType DEF TypeOK, BuybackStatuses
<1> QED BY <1>3, <1>5 DEF cancelUndelivered, reject, TypeOK

LEMMA ReceiveType ==
  ASSUME TypeOK, NEW x \in Buybacks, NEW R \in SUBSET Bars, receive(x, R)
  PROVE  TypeOK'
<1>1. bar' \in [Bars -> Bar]
  BY ReleaseType DEF receive, TypeOK
<1>2. buyback' \in [Buybacks -> Buyback]
  BY DEF receive, TypeOK, Buyback, BuybackStatuses
<1> QED BY <1>1, <1>2 DEF receive, TypeOK

LEMMA PayType ==
  ASSUME TypeOK, NEW x \in Buybacks, pay(x)
  PROVE  TypeOK'
<1>1. bar' \in [Bars -> Bar]
  BY DEF pay, TypeOK, Bar, BarStatuses
<1>2. grams' \in [Bars -> [vault: Int, consigned: Int]]
  BY DEF pay, TypeOK
<1>3. buyback' \in [Buybacks -> Buyback]
  BY SetBuybackType DEF pay, TypeOK, BuybackStatuses
<1> QED BY <1>1, <1>2, <1>3 DEF pay, TypeOK

LEMMA ApproveReadType ==
  ASSUME TypeOK, NEW k \in Calls, NEW x \in Buybacks, approveRead(k, x)
  PROVE  TypeOK'
<1>1. [op |-> "approve", buyback |-> x] \in Approval
  BY DEF Approval
<1>2. call' \in [Calls -> {Idle} \cup Quote \cup Approval]
  BY <1>1, CallTypes DEF approveRead
<1> QED BY <1>2 DEF approveRead, TypeOK

LEMMA ApproveWriteType ==
  ASSUME TypeOK, NEW k \in Calls, approveWrite(k)
  PROVE  TypeOK'
<1>1. call[k].buyback \in Buybacks
  BY ApprovalType DEF approveWrite, Approval
<1>2. buyback' \in [Buybacks -> Buyback]
  BY <1>1, SetBuybackType DEF approveWrite, TypeOK, BuybackStatuses
<1>3. call' \in [Calls -> {Idle} \cup Quote \cup Approval]
  BY CallTypes DEF approveWrite
<1> QED BY <1>2, <1>3 DEF approveWrite, TypeOK

LEMMA CallEndsType ==
  ASSUME TypeOK, NEW k \in Calls, callEnds(k)
  PROVE  TypeOK'
<1>1. call' \in [Calls -> {Idle} \cup Quote \cup Approval]
  BY CallTypes DEF callEnds
<1> QED BY <1>1 DEF callEnds, TypeOK

LEMMA NextType == TypeOK /\ SalesKnown /\ [Next]_vars => TypeOK'
<1> SUFFICES ASSUME TypeOK, SalesKnown, [Next]_vars PROVE TypeOK'
  OBVIOUS
<1>1. CASE UNCHANGED vars
  BY <1>1 DEF vars, TypeOK
<1>2. CASE BarNext
  <2>1. ASSUME NEW a \in Agents, NEW b \in Bars,
               allocate(a, b) \/ returnStock(a, b) \/ purchase(a, b)
        PROVE  TypeOK'
    BY <2>1, BarMovesType
  <2>2. ASSUME NEW a \in Agents, NEW b \in Bars, NEW k \in Calls, quote(k, a, b)
        PROVE  TypeOK'
    BY <2>2, QuoteTypeOK
  <2>3. ASSUME NEW b \in Bars, deliver(b) \/ titleTransferred(b) \/ customerSold(b)
        PROVE  TypeOK'
    BY <2>3, DirectBarType
  <2> QED BY <1>2, <2>1, <2>2, <2>3 DEF BarNext
<1>3. CASE SaleNext
  BY <1>3, CreateSaleType, VoidSaleType, SettlementType, ApproveSettlementType,
     RejectSettlementType DEF SaleNext
<1>4. CASE BuybackNext
  BY <1>4, EndBuybackType, PayType, ReceiveType, CreateType, ApproveReadType,
     ApproveWriteType, CallEndsType DEF BuybackNext
<1> QED BY <1>1, <1>2, <1>3, <1>4 DEF Next

-----------------------------------------------------------------------------
(* A sale that was made names its agent and its bar.                         *)

LEMMA InitKnown == Init => SalesKnown
BY DEF Init, SalesKnown

LEMMA NextKnown == TypeOK /\ SalesKnown /\ [Next]_vars => SalesKnown'
<1> SUFFICES ASSUME TypeOK, SalesKnown, [Next]_vars PROVE SalesKnown'
  OBVIOUS
<1>1. CASE UNCHANGED sale
  BY <1>1 DEF SalesKnown
<1>2. ASSUME NEW k \in Calls, NEW s \in Sales, createSale(k, s)
      PROVE  SalesKnown'
  <2>1. call[k].agent \in Agents /\ call[k].bar \in Bars
    BY <1>2, QuoteType DEF createSale, Quote
  <2> QED BY <1>2, <2>1 DEF createSale, SalesKnown, TypeOK, Sale
<1>3. ASSUME NEW s \in Sales, voidSale(s)
      PROVE  SalesKnown'
  BY <1>3 DEF voidSale, SalesKnown, TypeOK, Sale
<1> QED BY <1>1, <1>2, <1>3 DEF vars, Next, BarNext, SaleNext, BuybackNext,
      allocate, returnStock, purchase, quote, deliver, titleTransferred,
      customerSold, approveSettlement, rejectSettlement, submitSettlement,
      recordSettlement, Settle, cancelUndelivered, pay, reject, receive, create,
      approveWrite, callEnds, approveRead

-----------------------------------------------------------------------------
(* The grams in the books.                                                   *)

\* One bar and its grams move together.
LEMMA BooksMove ==
  ASSUME TypeOK, BooksFollowBars, NEW b \in Bars, NEW st \in BarStatuses,
         NEW a \in Agents \cup {NoAgent}, NEW v \in Int, NEW c \in Int,
         SetBar(b, st, a), MoveGrams(b, v, c),
         grams[b].vault + v = IF st = "UNASSIGNED" THEN 1 ELSE 0,
         grams[b].consigned + c = IF st = "AT_AGENT" THEN 1 ELSE 0
  PROVE  BooksFollowBars'
<1>1. /\ bar'[b] = [status |-> st, agent |-> a]
      /\ \A d \in Bars \ {b} : bar'[d] = bar[d]
  <2>1. bar \in [Bars -> Bar]
    BY DEF TypeOK
  <2> QED BY <2>1, SetBarType
<1>2. /\ grams'[b].vault = grams[b].vault + v
      /\ grams'[b].consigned = grams[b].consigned + c
      /\ \A d \in Bars \ {b} : grams'[d] = grams[d]
  BY MoveGramsType DEF TypeOK
<1> QED BY <1>1, <1>2 DEF BooksFollowBars

\* No grams move when bars are held for a sale back, or released.
LEMMA BooksHold ==
  ASSUME BooksFollowBars, UNCHANGED grams,
         \A b \in Bars : \/ bar'[b] = bar[b]
                         \/ {bar[b].status, bar'[b].status}
                              \subseteq {"AGENT_OWNED", "BUYBACK_PENDING"}
  PROVE  BooksFollowBars'
<1> SUFFICES ASSUME NEW b \in Bars
             PROVE  /\ bar'[b].status = "UNASSIGNED" <=> bar[b].status = "UNASSIGNED"
                    /\ bar'[b].status = "AT_AGENT" <=> bar[b].status = "AT_AGENT"
  BY DEF BooksFollowBars
<1> QED OBVIOUS

LEMMA ReleaseHolds ==
  ASSUME TypeOK, NEW x \in Buybacks, NEW S \in SUBSET Bars, releaseBars(x, S)
  PROVE  \A b \in Bars : \/ bar'[b] = bar[b]
                         \/ {bar[b].status, bar'[b].status}
                              \subseteq {"AGENT_OWNED", "BUYBACK_PENDING"}
<1> SUFFICES ASSUME NEW b \in Bars, bar'[b] # bar[b]
             PROVE  /\ bar[b].status = "BUYBACK_PENDING"
                    /\ bar'[b].status = "AGENT_OWNED"
  OBVIOUS
<1>1. bar[b] \in Bar
  BY DEF TypeOK
<1>2. /\ Holds(buyback[x].agent, b, "BUYBACK_PENDING")
      /\ bar'[b] = [bar[b] EXCEPT !.status = "AGENT_OWNED"]
  BY ReleaseType DEF TypeOK
<1> QED BY <1>1, <1>2 DEF Holds, Bar

LEMMA InitBooks == Init => BooksFollowBars
BY DEF Init, BooksFollowBars

LEMMA BarNextBooks ==
  ASSUME TypeOK, BooksFollowBars, BarNext PROVE BooksFollowBars'
<1>0. \A b \in Bars :
        /\ grams[b].vault = IF bar[b].status = "UNASSIGNED" THEN 1 ELSE 0
        /\ grams[b].consigned = IF bar[b].status = "AT_AGENT" THEN 1 ELSE 0
  BY DEF BooksFollowBars
<1>1. ASSUME NEW a \in Agents, NEW b \in Bars, allocate(a, b)
      PROVE  BooksFollowBars'
  <2>1. SetBar(b, "AT_AGENT", a) /\ MoveGrams(b, -1, 1)
        /\ bar[b].status = "UNASSIGNED"
    BY <1>1 DEF allocate, Free
  <2>2. "AT_AGENT" \in BarStatuses
    BY DEF BarStatuses
  <2>3. grams[b].vault + (-1) = 0 /\ grams[b].consigned + 1 = 1
    BY <1>0, <2>1
  <2> QED BY <2>1, <2>2, <2>3, BooksMove
<1>2. ASSUME NEW a \in Agents, NEW b \in Bars, returnStock(a, b)
      PROVE  BooksFollowBars'
  <2>1. SetBar(b, "UNASSIGNED", NoAgent) /\ MoveGrams(b, 1, -1)
        /\ bar[b].status = "AT_AGENT"
    BY <1>2 DEF returnStock, Holds
  <2>2. "UNASSIGNED" \in BarStatuses
    BY DEF BarStatuses
  <2>3. grams[b].vault + 1 = 1 /\ grams[b].consigned + (-1) = 0
    BY <1>0, <2>1
  <2> QED BY <2>1, <2>2, <2>3, BooksMove
<1>3. ASSUME NEW a \in Agents, NEW b \in Bars, purchase(a, b)
      PROVE  BooksFollowBars'
  <2>1. SetBar(b, "AGENT_OWNED", a) /\ MoveGrams(b, -1, 0)
        /\ bar[b].status = "UNASSIGNED"
    BY <1>3 DEF purchase, Free
  <2>2. "AGENT_OWNED" \in BarStatuses
    BY DEF BarStatuses
  <2>3. grams[b].vault + (-1) = 0 /\ grams[b].consigned + 0 = 0
    BY <1>0, <2>1
  <2> QED BY <2>1, <2>2, <2>3, BooksMove
<1>4. ASSUME NEW b \in Bars, customerSold(b)
      PROVE  BooksFollowBars'
  <2>1. SetBar(b, "UNASSIGNED", NoAgent) /\ MoveGrams(b, 1, 0)
        /\ bar[b].status = "ASSIGNED"
    BY <1>4 DEF customerSold
  <2>2. "UNASSIGNED" \in BarStatuses
    BY DEF BarStatuses
  <2>3. grams[b].vault + 1 = 1 /\ grams[b].consigned + 0 = 0
    BY <1>0, <2>1
  <2> QED BY <2>1, <2>2, <2>3, BooksMove
<1>5. CASE UNCHANGED <<bar, grams>>
  BY <1>5 DEF BooksFollowBars
<1> QED BY <1>1, <1>2, <1>3, <1>4, <1>5
    DEF BarNext, quote, deliver, titleTransferred

LEMMA SaleNextBooks ==
  ASSUME TypeOK, SalesKnown, BooksFollowBars, SaleNext PROVE BooksFollowBars'
<1>0. \A b \in Bars :
        /\ grams[b].vault = IF bar[b].status = "UNASSIGNED" THEN 1 ELSE 0
        /\ grams[b].consigned = IF bar[b].status = "AT_AGENT" THEN 1 ELSE 0
  BY DEF BooksFollowBars
<1>1. ASSUME NEW k \in Calls, NEW s \in Sales, createSale(k, s)
      PROVE  BooksFollowBars'
  <2> DEFINE b == call[k].bar
             n == IF call[k].owned THEN 0 ELSE -1
  <2>1. b \in Bars /\ call[k].owned \in BOOLEAN
    BY <1>1, QuoteType DEF createSale, Quote
  <2>2. /\ SetBar(b, "ASSIGNED", NoAgent) /\ MoveGrams(b, 0, n)
        /\ bar[b].status = IF call[k].owned THEN "AGENT_OWNED" ELSE "AT_AGENT"
    BY <1>1 DEF createSale, StillQuoted, Holds
  <2>3. /\ n \in Int
        /\ grams[b].vault + 0 = 0 /\ grams[b].consigned + n = 0
    BY <1>0, <2>1, <2>2
  <2>4. "ASSIGNED" \in BarStatuses
    BY DEF BarStatuses
  <2> HIDE DEF b, n
  <2> QED BY <2>1, <2>2, <2>3, <2>4, BooksMove
<1>2. ASSUME NEW s \in Sales, voidSale(s)
      PROVE  BooksFollowBars'
  <2> DEFINE b == sale[s].bar
             a == sale[s].agent
             st == IF sale[s].owned THEN "AGENT_OWNED" ELSE "AT_AGENT"
             n == IF sale[s].owned THEN 0 ELSE 1
  <2>1. b \in Bars /\ a \in Agents
    BY <1>2 DEF voidSale, SalesKnown
  <2>2. SetBar(b, st, a) /\ MoveGrams(b, 0, n) /\ bar[b].status = "ASSIGNED"
    BY <1>2 DEF voidSale, TitleOf
  <2>3. /\ n \in Int /\ st \in BarStatuses
        /\ grams[b].vault + 0 = IF st = "UNASSIGNED" THEN 1 ELSE 0
        /\ grams[b].consigned + n = IF st = "AT_AGENT" THEN 1 ELSE 0
    BY <1>0, <2>1, <2>2 DEF BarStatuses
  <2> HIDE DEF a, b, n, st
  <2> QED BY <2>1, <2>2, <2>3, BooksMove
<1>3. CASE UNCHANGED <<bar, grams>>
  BY <1>3 DEF BooksFollowBars
<1> QED BY <1>1, <1>2, <1>3 DEF SaleNext, approveSettlement, rejectSettlement,
      submitSettlement, recordSettlement, Settle

LEMMA BuybackNextBooks ==
  ASSUME TypeOK, BooksFollowBars, BuybackNext PROVE BooksFollowBars'
<1>1. ASSUME NEW x \in Buybacks, cancelUndelivered(x) \/ reject(x)
      PROVE  BooksFollowBars'
  <2>1. buyback[x].items \in SUBSET Bars
    BY DEF TypeOK, Buyback
  <2> QED BY <1>1, <2>1, ReleaseHolds, BooksHold DEF cancelUndelivered, reject
<1>2. ASSUME NEW x \in Buybacks, NEW R \in SUBSET Bars, receive(x, R)
      PROVE  BooksFollowBars'
  BY <1>2, ReleaseHolds, BooksHold DEF receive
<1>3. ASSUME NEW x \in Buybacks, NEW a \in Agents, NEW S \in SUBSET Bars,
             create(x, a, S)
      PROVE  BooksFollowBars'
  <2>1. ASSUME NEW b \in Bars, bar'[b] # bar[b]
        PROVE  /\ bar[b].status = "AGENT_OWNED"
               /\ bar'[b].status = "BUYBACK_PENDING"
    BY <1>3, <2>1 DEF create, Holds, TypeOK, Bar
  <2>2. UNCHANGED grams
    BY <1>3 DEF create
  <2> QED BY <2>1, <2>2, BooksHold
<1>4. ASSUME NEW x \in Buybacks, pay(x)
      PROVE  BooksFollowBars'
  <2> SUFFICES ASSUME NEW b \in Bars
               PROVE  /\ grams'[b].vault =
                           IF bar'[b].status = "UNASSIGNED" THEN 1 ELSE 0
                      /\ grams'[b].consigned =
                           IF bar'[b].status = "AT_AGENT" THEN 1 ELSE 0
    BY DEF BooksFollowBars
  <2>0. /\ grams[b].vault = IF bar[b].status = "UNASSIGNED" THEN 1 ELSE 0
        /\ grams[b].consigned = IF bar[b].status = "AT_AGENT" THEN 1 ELSE 0
        /\ grams[b] \in [vault: Int, consigned: Int]
    BY DEF BooksFollowBars, TypeOK
  <2>1. CASE b \in Accepted(x)
    <3>1. bar[b].status = "BUYBACK_PENDING"
      BY <1>4, <2>1 DEF pay, AllHeld, Holds
    <3>2. /\ bar'[b].status = "UNASSIGNED"
          /\ grams'[b] = [grams[b] EXCEPT !.vault = @ + 1]
      BY <1>4, <2>1 DEF pay
    <3> QED BY <2>0, <3>1, <3>2
  <2>2. CASE b \notin Accepted(x)
    <3>1. bar'[b] = bar[b] /\ grams'[b] = grams[b]
      BY <1>4, <2>2 DEF pay
    <3> QED BY <2>0, <3>1
  <2> QED BY <2>1, <2>2
<1>5. CASE UNCHANGED <<bar, grams>>
  BY <1>5 DEF BooksFollowBars
<1> QED BY <1>1, <1>2, <1>3, <1>4, <1>5
    DEF BuybackNext, approveWrite, callEnds, approveRead

LEMMA NextBooks ==
  ASSUME TypeOK, SalesKnown, BooksFollowBars, [Next]_vars PROVE BooksFollowBars'
<1>1. CASE UNCHANGED vars
  BY <1>1 DEF vars, BooksFollowBars
<1> QED BY <1>1, BarNextBooks, SaleNextBooks, BuybackNextBooks DEF Next

-----------------------------------------------------------------------------
(* Titles, holders and bars.                                                 *)

TitleInv(b) ==
  /\ title[b] = NoSale <=> bar[b].status # "ASSIGNED"
  /\ bar[b].agent = NoAgent <=> bar[b].status \in {"UNASSIGNED", "ASSIGNED"}
  /\ title[b] \in Sales =>
       sale[title[b]].status = "COMPLETED" /\ sale[title[b]].bar = b

LEMMA TitlePointwise == TitleFollowsBar <=> \A b \in Bars : TitleInv(b)
BY DEF TitleFollowsBar, TitleInv

LEMMA InitTitle == Init => TitleFollowsBar
BY StockAssumption DEF Init, TitleFollowsBar

\* One bar moves without a sale, and its title with it.
LEMMA TitleMove ==
  ASSUME TypeOK, TitleFollowsBar, NEW b \in Bars, NEW st \in BarStatuses,
         NEW a \in Agents \cup {NoAgent}, SetBar(b, st, a), UNCHANGED sale,
         a = NoAgent <=> st \in {"UNASSIGNED", "ASSIGNED"},
         st # "ASSIGNED", title'[b] = NoSale,
         \A d \in Bars \ {b} : title'[d] = title[d]
  PROVE  TitleFollowsBar'
<1>1. /\ bar'[b] = [status |-> st, agent |-> a]
      /\ \A d \in Bars \ {b} : bar'[d] = bar[d]
  <2>1. bar \in [Bars -> Bar]
    BY DEF TypeOK
  <2> QED BY <2>1, SetBarType
<1>2. ASSUME NEW d \in Bars PROVE TitleInv(d)'
  <2>1. CASE d = b
    BY <1>1, <2>1, StockAssumption DEF TitleInv
  <2>2. CASE d # b
    <3>1. bar'[d] = bar[d] /\ title'[d] = title[d] /\ TitleInv(d)
      BY <1>1, <2>2, TitlePointwise
    <3> QED BY <3>1 DEF TitleInv
  <2> QED BY <2>1, <2>2
<1> QED BY <1>2 DEF TitleFollowsBar, TitleInv

\* Bars held for a sale back, or released, keep their title and their agent.
LEMMA TitleHold ==
  ASSUME TypeOK, TitleFollowsBar, UNCHANGED <<title, sale>>,
         \A b \in Bars :
           \/ bar'[b] = bar[b]
           \/ /\ bar'[b].agent = bar[b].agent
              /\ {bar[b].status, bar'[b].status}
                   \subseteq {"AGENT_OWNED", "BUYBACK_PENDING"}
  PROVE  TitleFollowsBar'
<1>1. ASSUME NEW b \in Bars PROVE TitleInv(b)'
  <2>1. TitleInv(b)
    BY TitlePointwise
  <2>2. CASE bar'[b] = bar[b]
    BY <2>1, <2>2 DEF TitleInv
  <2>3. CASE bar'[b] # bar[b]
    <3>1. /\ bar'[b].agent = bar[b].agent
          /\ bar[b].status \in {"AGENT_OWNED", "BUYBACK_PENDING"}
          /\ bar'[b].status \in {"AGENT_OWNED", "BUYBACK_PENDING"}
      BY <2>3
    <3> QED BY <2>1, <3>1 DEF TitleInv
  <2> QED BY <2>2, <2>3
<1> QED BY <1>1 DEF TitleFollowsBar, TitleInv

LEMMA ReleaseKeepsAgent ==
  ASSUME TypeOK, NEW x \in Buybacks, NEW S \in SUBSET Bars, releaseBars(x, S)
  PROVE  \A b \in Bars :
           \/ bar'[b] = bar[b]
           \/ /\ bar'[b].agent = bar[b].agent
              /\ {bar[b].status, bar'[b].status}
                   \subseteq {"AGENT_OWNED", "BUYBACK_PENDING"}
<1> SUFFICES ASSUME NEW b \in Bars, bar'[b] # bar[b]
             PROVE  bar'[b].agent = bar[b].agent
  BY ReleaseHolds
<1>1. bar'[b] = [bar[b] EXCEPT !.status = "AGENT_OWNED"] /\ bar[b] \in Bar
  BY ReleaseType DEF TypeOK
<1> QED BY <1>1 DEF Bar

LEMMA BarNextTitle ==
  ASSUME TypeOK, TitleFollowsBar, BarNext PROVE TitleFollowsBar'
<1>0. {"UNASSIGNED", "AT_AGENT", "AGENT_OWNED"} \subseteq BarStatuses
  BY DEF BarStatuses
<1>1. ASSUME NEW a \in Agents, NEW b \in Bars, allocate(a, b)
      PROVE  TitleFollowsBar'
  <2>1. /\ SetBar(b, "AT_AGENT", a) /\ title[b] = NoSale
        /\ UNCHANGED <<title, sale>>
    BY <1>1 DEF allocate, Free
  <2>2. a # NoAgent
    BY StockAssumption
  <2> QED BY <1>0, <2>1, <2>2, TitleMove
<1>2. ASSUME NEW a \in Agents, NEW b \in Bars, returnStock(a, b)
      PROVE  TitleFollowsBar'
  <2>1. /\ SetBar(b, "UNASSIGNED", NoAgent) /\ bar[b].status = "AT_AGENT"
        /\ UNCHANGED <<title, sale>>
    BY <1>2 DEF returnStock, Holds
  <2>2. title[b] = NoSale
    BY <2>1 DEF TitleFollowsBar
  <2> QED BY <1>0, <2>1, <2>2, TitleMove
<1>3. ASSUME NEW a \in Agents, NEW b \in Bars, purchase(a, b)
      PROVE  TitleFollowsBar'
  <2>1. /\ SetBar(b, "AGENT_OWNED", a) /\ title[b] = NoSale
        /\ UNCHANGED <<title, sale>>
    BY <1>3 DEF purchase, Free
  <2>2. a # NoAgent
    BY StockAssumption
  <2> QED BY <1>0, <2>1, <2>2, TitleMove
<1>4. ASSUME NEW b \in Bars, customerSold(b)
      PROVE  TitleFollowsBar'
  <2>1. /\ SetBar(b, "UNASSIGNED", NoAgent) /\ UNCHANGED sale
        /\ title' = [title EXCEPT ![b] = NoSale]
    BY <1>4 DEF customerSold
  <2>2. title'[b] = NoSale /\ \A d \in Bars \ {b} : title'[d] = title[d]
    BY <2>1 DEF TypeOK
  <2> QED BY <1>0, <2>1, <2>2, TitleMove
<1>5. ASSUME NEW b \in Bars, titleTransferred(b)
      PROVE  TitleFollowsBar'
  <2>1. /\ bar[b].status = "ASSIGNED" /\ UNCHANGED <<bar, sale>>
        /\ title'[b] = Third /\ \A d \in Bars \ {b} : title'[d] = title[d]
    BY <1>5 DEF titleTransferred, TypeOK
  <2> QED BY <2>1, StockAssumption DEF TitleFollowsBar
<1>6. CASE UNCHANGED <<bar, title, sale>>
  BY <1>6 DEF TitleFollowsBar
<1> QED BY <1>1, <1>2, <1>3, <1>4, <1>5, <1>6 DEF BarNext, quote, deliver

LEMMA SaleNextTitle ==
  ASSUME TypeOK, SalesKnown, TitleFollowsBar, SaleNext PROVE TitleFollowsBar'
<1>1. ASSUME NEW k \in Calls, NEW s \in Sales, createSale(k, s)
      PROVE  TitleFollowsBar'
  <2> DEFINE b == call[k].bar
  <2>1. b \in Bars
    BY <1>1, QuoteType DEF createSale, Quote
  <2>2. /\ SetBar(b, "ASSIGNED", NoAgent) /\ sale[s].status = "none"
        /\ title' = [title EXCEPT ![b] = s]
        /\ sale' = [sale EXCEPT ![s] = [status |-> "COMPLETED", bar |-> b,
                        agent |-> call[k].agent, owned |-> call[k].owned]]
    BY <1>1 DEF createSale
  <2> HIDE DEF b
  <2>3. /\ bar'[b] = [status |-> "ASSIGNED", agent |-> NoAgent]
        /\ \A d \in Bars \ {b} : bar'[d] = bar[d]
    <3>1. bar \in [Bars -> Bar] /\ "ASSIGNED" \in BarStatuses
      BY DEF TypeOK, BarStatuses
    <3> QED BY <2>1, <2>2, <3>1, SetBarType
  <2>4. /\ title'[b] = s
        /\ \A d \in Bars \ {b} : title'[d] = title[d]
        /\ sale'[s].status = "COMPLETED" /\ sale'[s].bar = b
        /\ \A r \in Sales \ {s} : sale'[r] = sale[r]
    BY <2>1, <2>2 DEF TypeOK
  <2>5. ASSUME NEW d \in Bars PROVE TitleInv(d)'
    <3>1. CASE d = b
      BY <2>3, <2>4, <3>1, StockAssumption DEF TitleInv
    <3>2. CASE d # b
      <4>1. /\ bar'[d] = bar[d] /\ title'[d] = title[d] /\ TitleInv(d)
        BY <2>3, <2>4, <3>2, TitlePointwise
      <4>2. title[d] # s
        BY <2>2, <4>1 DEF TitleInv
      <4> QED BY <2>4, <4>1, <4>2 DEF TitleInv
    <3> QED BY <3>1, <3>2
  <2> QED BY <2>5 DEF TitleFollowsBar, TitleInv
<1>2. ASSUME NEW s \in Sales, voidSale(s)
      PROVE  TitleFollowsBar'
  <2> DEFINE b == sale[s].bar
             a == sale[s].agent
             st == IF sale[s].owned THEN "AGENT_OWNED" ELSE "AT_AGENT"
  <2>1. b \in Bars /\ a \in Agents
    BY <1>2 DEF voidSale, SalesKnown
  <2>2. /\ SetBar(b, st, a) /\ title[b] = s
        /\ title' = [title EXCEPT ![b] = NoSale]
        /\ sale' = [sale EXCEPT ![s].status = "VOIDED"]
    BY <1>2 DEF voidSale, TitleOf
  <2>3. st \in {"AGENT_OWNED", "AT_AGENT"} /\ st \in BarStatuses
    BY DEF BarStatuses
  <2> HIDE DEF a, b, st
  <2>4. /\ bar'[b] = [status |-> st, agent |-> a]
        /\ \A d \in Bars \ {b} : bar'[d] = bar[d]
    <3>1. bar \in [Bars -> Bar]
      BY DEF TypeOK
    <3> QED BY <2>1, <2>2, <2>3, <3>1, SetBarType
  <2>5. /\ title'[b] = NoSale
        /\ \A d \in Bars \ {b} : title'[d] = title[d]
        /\ \A r \in Sales \ {s} : sale'[r] = sale[r]
    BY <2>1, <2>2 DEF TypeOK
  <2>6. ASSUME NEW d \in Bars PROVE TitleInv(d)'
    <3>1. CASE d = b
      BY <2>1, <2>3, <2>4, <2>5, <3>1, StockAssumption DEF TitleInv
    <3>2. CASE d # b
      <4>1. /\ bar'[d] = bar[d] /\ title'[d] = title[d] /\ TitleInv(d)
        BY <2>4, <2>5, <3>2, TitlePointwise
      <4>2. title[d] # s
        BY <3>2, <4>1 DEF TitleInv, b
      <4> QED BY <2>5, <4>1, <4>2 DEF TitleInv
    <3> QED BY <3>1, <3>2
  <2> QED BY <2>6 DEF TitleFollowsBar, TitleInv
<1>3. CASE UNCHANGED <<bar, title, sale>>
  BY <1>3 DEF TitleFollowsBar
<1> QED BY <1>1, <1>2, <1>3 DEF SaleNext, approveSettlement, rejectSettlement,
      submitSettlement, recordSettlement, Settle

LEMMA BuybackNextTitle ==
  ASSUME TypeOK, TitleFollowsBar, BuybackNext PROVE TitleFollowsBar'
<1>1. ASSUME NEW x \in Buybacks, cancelUndelivered(x) \/ reject(x)
      PROVE  TitleFollowsBar'
  <2>1. buyback[x].items \in SUBSET Bars
    BY DEF TypeOK, Buyback
  <2>2. releaseBars(x, buyback[x].items) /\ UNCHANGED <<title, sale>>
    BY <1>1 DEF cancelUndelivered, reject
  <2> QED BY <2>1, <2>2, ReleaseKeepsAgent, TitleHold
<1>2. ASSUME NEW x \in Buybacks, NEW R \in SUBSET Bars, receive(x, R)
      PROVE  TitleFollowsBar'
  BY <1>2, ReleaseKeepsAgent, TitleHold DEF receive
<1>3. ASSUME NEW x \in Buybacks, NEW a \in Agents, NEW S \in SUBSET Bars,
             create(x, a, S)
      PROVE  TitleFollowsBar'
  <2>1. ASSUME NEW b \in Bars, bar'[b] # bar[b]
        PROVE  /\ bar[b].status = "AGENT_OWNED"
               /\ bar'[b].status = "BUYBACK_PENDING"
               /\ bar'[b].agent = bar[b].agent
    BY <1>3, <2>1 DEF create, Holds, TypeOK, Bar
  <2>2. UNCHANGED <<title, sale>>
    BY <1>3 DEF create
  <2> QED BY <2>1, <2>2, TitleHold
<1>4. ASSUME NEW x \in Buybacks, pay(x)
      PROVE  TitleFollowsBar'
  <2>1. ASSUME NEW b \in Bars PROVE TitleInv(b)'
    <3>1. TitleInv(b) /\ UNCHANGED <<title, sale>>
      BY <1>4, TitlePointwise DEF pay
    <3>2. CASE b \in Accepted(x)
      <4>1. /\ bar[b].status = "BUYBACK_PENDING"
            /\ bar'[b] = [status |-> "UNASSIGNED", agent |-> NoAgent]
        BY <1>4, <3>2 DEF pay, AllHeld, Holds
      <4> QED BY <3>1, <4>1 DEF TitleInv
    <3>3. CASE b \notin Accepted(x)
      <4>1. bar'[b] = bar[b]
        BY <1>4, <3>3 DEF pay
      <4> QED BY <3>1, <4>1 DEF TitleInv
    <3> QED BY <3>2, <3>3
  <2> QED BY <2>1 DEF TitleFollowsBar, TitleInv
<1>5. CASE UNCHANGED <<bar, title, sale>>
  BY <1>5 DEF TitleFollowsBar
<1> QED BY <1>1, <1>2, <1>3, <1>4, <1>5
    DEF BuybackNext, approveWrite, callEnds, approveRead

LEMMA NextTitle ==
  ASSUME TypeOK, SalesKnown, TitleFollowsBar, [Next]_vars PROVE TitleFollowsBar'
<1>1. CASE UNCHANGED vars
  BY <1>1 DEF vars, TitleFollowsBar
<1> QED BY <1>1, BarNextTitle, SaleNextTitle, BuybackNextTitle DEF Next

-----------------------------------------------------------------------------
(* Every held bar has its order.                                             *)

Waits(x, b) == /\ buyback[x].status \in Live
               /\ buyback[x].agent = bar[b].agent
               /\ b \in Accepted(x)

LEMMA InitHeld == Init => HeldBarHasOrder
BY DEF Init, HeldBarHasOrder

\* No bar becomes held, and no order changes.
LEMMA HeldFrame ==
  ASSUME HeldBarHasOrder, UNCHANGED buyback,
         \A b \in Bars : bar'[b] = bar[b] \/ bar'[b].status # "BUYBACK_PENDING"
  PROVE  HeldBarHasOrder'
BY DEF HeldBarHasOrder, Accepted

LEMMA HeldSetBar ==
  ASSUME TypeOK, HeldBarHasOrder, UNCHANGED buyback, NEW b \in Bars,
         NEW st \in BarStatuses, st # "BUYBACK_PENDING",
         NEW a \in Agents \cup {NoAgent}, SetBar(b, st, a)
  PROVE  HeldBarHasOrder'
<1>1. /\ bar'[b] = [status |-> st, agent |-> a]
      /\ \A d \in Bars \ {b} : bar'[d] = bar[d]
  <2>1. bar \in [Bars -> Bar]
    BY DEF TypeOK
  <2> QED BY <2>1, SetBarType
<1>2. \A d \in Bars : bar'[d] = bar[d] \/ bar'[d].status # "BUYBACK_PENDING"
  BY <1>1
<1> QED BY <1>2, HeldFrame

LEMMA BarNextHeld ==
  ASSUME TypeOK, HeldBarHasOrder, BarNext PROVE HeldBarHasOrder'
<1>0. /\ "UNASSIGNED" \in BarStatuses /\ "AT_AGENT" \in BarStatuses
      /\ "AGENT_OWNED" \in BarStatuses
  BY DEF BarStatuses
<1>1. ASSUME NEW a \in Agents, NEW b \in Bars,
             allocate(a, b) \/ returnStock(a, b) \/ purchase(a, b)
      PROVE  HeldBarHasOrder'
  <2>1. /\ UNCHANGED buyback
        /\ \/ SetBar(b, "AT_AGENT", a)
           \/ SetBar(b, "UNASSIGNED", NoAgent)
           \/ SetBar(b, "AGENT_OWNED", a)
    BY <1>1 DEF allocate, returnStock, purchase
  <2> QED BY <1>0, <2>1, HeldSetBar
<1>2. ASSUME NEW b \in Bars, customerSold(b)
      PROVE  HeldBarHasOrder'
  <2>1. UNCHANGED buyback /\ SetBar(b, "UNASSIGNED", NoAgent)
    BY <1>2 DEF customerSold
  <2> QED BY <1>0, <2>1, HeldSetBar
<1>3. CASE UNCHANGED <<bar, buyback>>
  BY <1>3, HeldFrame
<1> QED BY <1>1, <1>2, <1>3 DEF BarNext, quote, deliver, titleTransferred

LEMMA SaleNextHeld ==
  ASSUME TypeOK, SalesKnown, HeldBarHasOrder, SaleNext PROVE HeldBarHasOrder'
<1>1. ASSUME NEW k \in Calls, NEW s \in Sales, createSale(k, s)
      PROVE  HeldBarHasOrder'
  <2>1. call[k].bar \in Bars
    BY <1>1, QuoteType DEF createSale, Quote
  <2>2. UNCHANGED buyback /\ SetBar(call[k].bar, "ASSIGNED", NoAgent)
    BY <1>1 DEF createSale
  <2>3. "ASSIGNED" \in BarStatuses
    BY DEF BarStatuses
  <2> QED BY <2>1, <2>2, <2>3, HeldSetBar
<1>2. ASSUME NEW s \in Sales, voidSale(s)
      PROVE  HeldBarHasOrder'
  <2> DEFINE b == sale[s].bar
             a == sale[s].agent
             st == IF sale[s].owned THEN "AGENT_OWNED" ELSE "AT_AGENT"
  <2>1. b \in Bars /\ a \in Agents
    BY <1>2 DEF voidSale, SalesKnown
  <2>2. UNCHANGED buyback /\ SetBar(b, st, a)
    BY <1>2 DEF voidSale
  <2>3. st # "BUYBACK_PENDING" /\ st \in BarStatuses
    BY DEF BarStatuses
  <2> HIDE DEF a, b, st
  <2> QED BY <2>1, <2>2, <2>3, HeldSetBar
<1>3. CASE UNCHANGED <<bar, buyback>>
  BY <1>3, HeldFrame
<1> QED BY <1>1, <1>2, <1>3 DEF SaleNext, approveSettlement, rejectSettlement,
      submitSettlement, recordSettlement, Settle

\* An order releases the bars in S, and is left with no other or stays alive.
LEMMA HeldRelease ==
  ASSUME TypeOK, HeldBarHasOrder, NEW x \in Buybacks, NEW S \in SUBSET Bars,
         releaseBars(x, S),
         \A y \in Buybacks \ {x} : buyback'[y] = buyback[y],
         \A b \in Bars : Waits(x, b) /\ b \notin S =>
           /\ buyback'[x].status \in Live
           /\ buyback'[x].agent = buyback[x].agent
           /\ b \in Accepted(x)'
  PROVE  HeldBarHasOrder'
<1> SUFFICES ASSUME NEW b \in Bars, bar'[b].status = "BUYBACK_PENDING"
             PROVE  \E y \in Buybacks : Waits(y, b)'
  BY DEF HeldBarHasOrder, Waits
<1>1. bar[b] \in Bar
  BY DEF TypeOK
<1>2. bar'[b] = bar[b] /\ ~(b \in S /\ Holds(buyback[x].agent, b, "BUYBACK_PENDING"))
  BY <1>1, ReleaseType DEF TypeOK, Bar
<1>3. PICK y \in Buybacks : Waits(y, b)
  BY <1>2 DEF HeldBarHasOrder, Waits
<1>4. CASE y # x
  BY <1>2, <1>3, <1>4 DEF Waits, Accepted
<1>5. CASE y = x
  <2>1. b \notin S
    BY <1>2, <1>3, <1>5 DEF Waits, Holds
  <2> QED BY <1>2, <1>3, <1>5, <2>1 DEF Waits
<1> QED BY <1>4, <1>5

LEMMA BuybackNextHeld ==
  ASSUME TypeOK, HeldBarHasOrder, BuybackNext PROVE HeldBarHasOrder'
<1>1. ASSUME NEW x \in Buybacks, cancelUndelivered(x) \/ reject(x)
      PROVE  HeldBarHasOrder'
  <2>1. buyback[x].items \in SUBSET Bars
    BY DEF TypeOK, Buyback
  <2>2. /\ releaseBars(x, buyback[x].items)
        /\ SetBuyback(x, "CANCELLED") \/ SetBuyback(x, "REJECTED")
    BY <1>1 DEF cancelUndelivered, reject
  <2>3. \A y \in Buybacks \ {x} : buyback'[y] = buyback[y]
    BY <2>2 DEF SetBuyback, TypeOK
  <2>4. \A b \in Bars : Waits(x, b) => b \in buyback[x].items
    BY DEF Waits, Accepted
  <2> QED BY <2>1, <2>2, <2>3, <2>4, HeldRelease
<1>2. ASSUME NEW x \in Buybacks, NEW R \in SUBSET Bars, receive(x, R)
      PROVE  HeldBarHasOrder'
  <2>1. /\ releaseBars(x, R)
        /\ \A y \in Buybacks \ {x} : buyback'[y] = buyback[y]
        /\ buyback'[x] = [buyback[x] EXCEPT !.refused = R,
             !.status = IF R = buyback[x].items THEN "REJECTED" ELSE "RECEIVED"]
    BY <1>2 DEF receive, TypeOK
  <2>2. ASSUME NEW b \in Bars, Waits(x, b), b \notin R
        PROVE  /\ buyback'[x].status \in Live
               /\ buyback'[x].agent = buyback[x].agent
               /\ b \in Accepted(x)'
    <3>1. buyback[x] \in Buyback /\ b \in buyback[x].items
      BY <2>2 DEF TypeOK, Waits, Accepted
    <3>2. /\ buyback'[x].status = "RECEIVED" /\ buyback'[x].refused = R
          /\ buyback'[x].agent = buyback[x].agent
          /\ buyback'[x].items = buyback[x].items
      BY <2>1, <2>2, <3>1 DEF Buyback
    <3> QED BY <2>2, <3>1, <3>2 DEF Live, Accepted
  <2> QED BY <2>1, <2>2, HeldRelease
<1>3. ASSUME NEW x \in Buybacks, NEW a \in Agents, NEW S \in SUBSET Bars,
             create(x, a, S)
      PROVE  HeldBarHasOrder'
  <2>1. /\ buyback[x].status = "none"
        /\ buyback'[x] = [status |-> "PENDING_DELIVERY", agent |-> a,
                          items |-> S, refused |-> {}]
        /\ \A y \in Buybacks \ {x} : buyback'[y] = buyback[y]
    BY <1>3 DEF create, TypeOK
  <2>2. ASSUME NEW b \in Bars, bar'[b].status = "BUYBACK_PENDING"
        PROVE  \E y \in Buybacks : Waits(y, b)'
    <3>1. CASE b \in S
      <4>1. bar[b] \in Bar /\ bar[b].agent = a
            /\ bar'[b] = [bar[b] EXCEPT !.status = "BUYBACK_PENDING"]
        BY <1>3, <3>1 DEF create, Holds, TypeOK
      <4>2. bar'[b].agent = a
        BY <4>1 DEF Bar
      <4>3. Waits(x, b)'
        BY <2>1, <3>1, <4>2 DEF Waits, Live, Accepted
      <4> QED BY <4>3
    <3>2. CASE b \notin S
      <4>1. bar'[b] = bar[b]
        BY <1>3, <3>2 DEF create
      <4>2. PICK y \in Buybacks : Waits(y, b)
        BY <2>2, <4>1 DEF HeldBarHasOrder, Waits
      <4>3. y # x
        BY <2>1, <4>2 DEF Waits, Live
      <4> QED BY <2>1, <4>1, <4>2, <4>3 DEF Waits, Accepted
    <3> QED BY <3>1, <3>2
  <2> QED BY <2>2 DEF HeldBarHasOrder, Waits
<1>4. ASSUME NEW x \in Buybacks, pay(x)
      PROVE  HeldBarHasOrder'
  <2>1. \A y \in Buybacks \ {x} : buyback'[y] = buyback[y]
    BY <1>4 DEF pay, SetBuyback, TypeOK
  <2>2. ASSUME NEW b \in Bars, bar'[b].status = "BUYBACK_PENDING"
        PROVE  \E y \in Buybacks : Waits(y, b)'
    <3>1. b \notin Accepted(x) /\ bar'[b] = bar[b]
      BY <1>4, <2>2 DEF pay
    <3>2. PICK y \in Buybacks : Waits(y, b)
      BY <2>2, <3>1 DEF HeldBarHasOrder, Waits
    <3>3. y # x
      BY <3>1, <3>2 DEF Waits
    <3> QED BY <2>1, <3>1, <3>2, <3>3 DEF Waits, Accepted
  <2> QED BY <2>2 DEF HeldBarHasOrder, Waits
<1>5. ASSUME NEW k \in Calls, approveWrite(k)
      PROVE  HeldBarHasOrder'
  <2> DEFINE x == call[k].buyback
  <2>1. x \in Buybacks
    BY <1>5, ApprovalType DEF approveWrite, Approval
  <2>2. SetBuyback(x, "APPROVED") /\ UNCHANGED bar
    BY <1>5 DEF approveWrite
  <2> HIDE DEF x
  <2>3. /\ buyback'[x] = [buyback[x] EXCEPT !.status = "APPROVED"]
        /\ buyback[x] \in Buyback
        /\ \A y \in Buybacks \ {x} : buyback'[y] = buyback[y]
    BY <2>1, <2>2 DEF SetBuyback, TypeOK
  <2>4. ASSUME NEW y \in Buybacks, NEW b \in Bars, Waits(y, b)
        PROVE  Waits(y, b)'
    <3>1. CASE y = x
      BY <2>2, <2>3, <2>4, <3>1 DEF Waits, Accepted, Live, Buyback
    <3>2. CASE y # x
      BY <2>2, <2>3, <2>4, <3>2 DEF Waits, Accepted
    <3> QED BY <3>1, <3>2
  <2> QED BY <2>2, <2>4 DEF HeldBarHasOrder, Waits
<1>6. CASE UNCHANGED <<bar, buyback>>
  BY <1>6, HeldFrame
<1> QED BY <1>1, <1>2, <1>3, <1>4, <1>5, <1>6
    DEF BuybackNext, callEnds, approveRead

LEMMA NextHeld ==
  ASSUME TypeOK, SalesKnown, HeldBarHasOrder, [Next]_vars PROVE HeldBarHasOrder'
<1>1. CASE UNCHANGED vars
  BY <1>1, HeldFrame DEF vars
<1> QED BY <1>1, BarNextHeld, SaleNextHeld, BuybackNextHeld DEF Next

-----------------------------------------------------------------------------
(* The debt, as long as only finitely many sales and settlements were made.  *)

DebtInv ==
  \A a \in Agents :
    /\ IsFiniteSet(Owed(a)) /\ IsFiniteSet(Settled(a))
    /\ debt[a] = NetPayable * Cardinality(Owed(a))
                 - Amount * Cardinality(Settled(a))

LEMMA InitDebt == Init => DebtInv
<1> SUFFICES ASSUME Init, NEW a \in Agents
             PROVE  /\ IsFiniteSet(Owed(a)) /\ IsFiniteSet(Settled(a))
                    /\ debt[a] = NetPayable * Cardinality(Owed(a))
                                 - Amount * Cardinality(Settled(a))
  BY DEF DebtInv
<1>1. Owed(a) = {} /\ Settled(a) = {} /\ debt[a] = 0
  BY DEF Init, Owed, Settled
<1>2. IsFiniteSet({}) /\ Cardinality({}) = 0
  BY FS_EmptySet
<1>3. NetPayable * 0 = 0 /\ Amount * 0 = 0
  BY StockAssumption
<1> QED BY <1>1, <1>2, <1>3

LEMMA DebtFrame ==
  ASSUME DebtInv, UNCHANGED <<debt, sale, settlement>> PROVE DebtInv'
BY DEF DebtInv, Owed, Settled

LEMMA CreateSaleDebt ==
  ASSUME TypeOK, DebtInv, NEW k \in Calls, NEW s \in Sales, createSale(k, s)
  PROVE  DebtInv'
<1> DEFINE q == call[k]
<1>1. q.agent \in Agents /\ q.owned \in BOOLEAN
  BY QuoteType DEF createSale, Quote
<1>2. /\ sale[s].status = "none" /\ UNCHANGED settlement
      /\ sale' = [sale EXCEPT ![s] = [status |-> "COMPLETED", bar |-> q.bar,
                                      agent |-> q.agent, owned |-> q.owned]]
      /\ debt' = IF q.owned THEN debt
                 ELSE [debt EXCEPT ![q.agent] = @ + NetPayable]
  BY DEF createSale
<1> HIDE DEF q
<1> SUFFICES ASSUME NEW a \in Agents
             PROVE  /\ IsFiniteSet(Owed(a)') /\ IsFiniteSet(Settled(a)')
                    /\ debt'[a] = NetPayable * Cardinality(Owed(a)')
                                  - Amount * Cardinality(Settled(a)')
  BY DEF DebtInv
<1>3. /\ IsFiniteSet(Owed(a)) /\ IsFiniteSet(Settled(a))
      /\ debt[a] = NetPayable * Cardinality(Owed(a))
                   - Amount * Cardinality(Settled(a))
      /\ Settled(a)' = Settled(a)
  BY <1>2 DEF DebtInv, Settled
<1>4. /\ sale'[s].status = "COMPLETED" /\ sale'[s].agent = q.agent
      /\ sale'[s].owned = q.owned
      /\ \A r \in Sales \ {s} : sale'[r] = sale[r]
  BY <1>2 DEF TypeOK
<1>5. s \notin Owed(a)
  BY <1>2 DEF Owed
<1>6. CASE a = q.agent /\ ~q.owned
  <2>1. Owed(a)' = Owed(a) \cup {s}
    BY <1>4, <1>6 DEF Owed
  <2>2. debt'[a] = debt[a] + NetPayable /\ NetPayable \in Int /\ Amount \in Int
    BY <1>1, <1>2, <1>6, StockAssumption DEF TypeOK
  <2>3. /\ IsFiniteSet(Owed(a) \cup {s})
        /\ NetPayable * Cardinality(Owed(a) \cup {s}) =
             NetPayable * Cardinality(Owed(a)) + NetPayable
    BY <1>3, <1>5, <2>2, AddOne
  <2>4. /\ NetPayable * Cardinality(Owed(a)) \in Int
        /\ Amount * Cardinality(Settled(a)) \in Int
    BY <1>3, <2>2, ProductInt
  <2> QED BY <1>3, <2>1, <2>2, <2>3, <2>4
<1>7. CASE ~(a = q.agent /\ ~q.owned)
  <2>1. Owed(a)' = Owed(a)
    BY <1>4, <1>5, <1>7 DEF Owed
  <2>2. debt'[a] = debt[a]
    BY <1>1, <1>2, <1>7 DEF TypeOK
  <2> QED BY <1>3, <2>1, <2>2
<1> QED BY <1>6, <1>7

LEMMA VoidSaleDebt ==
  ASSUME TypeOK, SalesKnown, DebtInv, NEW s \in Sales, voidSale(s)
  PROVE  DebtInv'
<1>1. /\ sale[s] \in Sale /\ sale[s].agent \in Agents
      /\ sale[s].status = "COMPLETED" /\ UNCHANGED settlement
      /\ sale' = [sale EXCEPT ![s].status = "VOIDED"]
      /\ debt' = IF sale[s].owned THEN debt
                 ELSE [debt EXCEPT ![sale[s].agent] = @ - NetPayable]
  BY DEF voidSale, VoidedDebt, TypeOK, SalesKnown
<1> SUFFICES ASSUME NEW a \in Agents
             PROVE  /\ IsFiniteSet(Owed(a)') /\ IsFiniteSet(Settled(a)')
                    /\ debt'[a] = NetPayable * Cardinality(Owed(a)')
                                  - Amount * Cardinality(Settled(a)')
  BY DEF DebtInv
<1>2. /\ IsFiniteSet(Owed(a)) /\ IsFiniteSet(Settled(a))
      /\ debt[a] = NetPayable * Cardinality(Owed(a))
                   - Amount * Cardinality(Settled(a))
      /\ Settled(a)' = Settled(a)
  BY <1>1 DEF DebtInv, Settled
<1>3. /\ sale'[s].status = "VOIDED"
      /\ \A r \in Sales \ {s} : sale'[r] = sale[r]
  BY <1>1 DEF TypeOK
<1>4. CASE s \in Owed(a)
  <2>1. Owed(a)' = Owed(a) \ {s}
    BY <1>3 DEF Owed
  <2>2. debt'[a] = debt[a] - NetPayable /\ NetPayable \in Int /\ Amount \in Int
    BY <1>1, <1>4, StockAssumption DEF TypeOK, Owed
  <2>3. /\ IsFiniteSet(Owed(a) \ {s})
        /\ NetPayable * Cardinality(Owed(a) \ {s}) =
             NetPayable * Cardinality(Owed(a)) - NetPayable
    BY <1>2, <1>4, <2>2, RemoveOne
  <2>4. /\ NetPayable * Cardinality(Owed(a)) \in Int
        /\ Amount * Cardinality(Settled(a)) \in Int
    BY <1>2, <2>2, ProductInt
  <2> QED BY <1>2, <2>1, <2>2, <2>3, <2>4
<1>5. CASE s \notin Owed(a)
  <2>1. Owed(a)' = Owed(a)
    BY <1>3, <1>5 DEF Owed
  <2>2. sale[s].owned \/ sale[s].agent # a
    BY <1>1, <1>5 DEF Owed
  <2>3. debt'[a] = debt[a]
    BY <1>1, <2>2 DEF TypeOK
  <2> QED BY <1>2, <2>1, <2>3
<1> QED BY <1>4, <1>5

\* A settlement that was not approved yet is approved for an agent.
LEMMA SettleDebt ==
  ASSUME TypeOK, DebtInv, NEW t \in Settlements, NEW g,
         settlement[t].status # "APPROVED", Settle(t, g)
  PROVE  DebtInv'
<1>1. /\ UNCHANGED sale
      /\ settlement' = [settlement EXCEPT ![t] = [status |-> "APPROVED", agent |-> g]]
      /\ debt' = [debt EXCEPT ![g] = @ - Amount]
  BY DEF Settle
<1> SUFFICES ASSUME NEW a \in Agents
             PROVE  /\ IsFiniteSet(Owed(a)') /\ IsFiniteSet(Settled(a)')
                    /\ debt'[a] = NetPayable * Cardinality(Owed(a)')
                                  - Amount * Cardinality(Settled(a)')
  BY DEF DebtInv
<1>2. /\ IsFiniteSet(Owed(a)) /\ IsFiniteSet(Settled(a))
      /\ debt[a] = NetPayable * Cardinality(Owed(a))
                   - Amount * Cardinality(Settled(a))
      /\ Owed(a)' = Owed(a) /\ t \notin Settled(a)
  BY <1>1 DEF DebtInv, Settled, Owed
<1>3. /\ settlement'[t].status = "APPROVED" /\ settlement'[t].agent = g
      /\ \A r \in Settlements \ {t} : settlement'[r] = settlement[r]
  BY <1>1 DEF TypeOK
<1>4. CASE a = g
  <2>1. Settled(a)' = Settled(a) \cup {t}
    BY <1>3, <1>4 DEF Settled
  <2>2. debt'[a] = debt[a] - Amount /\ NetPayable \in Int /\ Amount \in Int
    BY <1>1, <1>4, StockAssumption DEF TypeOK
  <2>3. /\ IsFiniteSet(Settled(a) \cup {t})
        /\ Amount * Cardinality(Settled(a) \cup {t}) =
             Amount * Cardinality(Settled(a)) + Amount
    BY <1>2, <2>2, AddOne
  <2>4. /\ NetPayable * Cardinality(Owed(a)) \in Int
        /\ Amount * Cardinality(Settled(a)) \in Int
    BY <1>2, <2>2, ProductInt
  <2> QED BY <1>2, <2>1, <2>2, <2>3, <2>4
<1>5. CASE a # g
  <2>1. Settled(a)' = Settled(a)
    BY <1>2, <1>3, <1>5 DEF Settled
  <2>2. debt'[a] = debt[a]
    BY <1>1, <1>5 DEF TypeOK
  <2> QED BY <1>2, <2>1, <2>2
<1> QED BY <1>4, <1>5

\* A settlement that is not approved changes nothing that is counted.
LEMMA UnsettledDebt ==
  ASSUME TypeOK, DebtInv, UNCHANGED <<debt, sale>>, NEW t \in Settlements,
         settlement[t].status # "APPROVED",
         \A r \in Settlements \ {t} : settlement'[r] = settlement[r],
         settlement'[t].status # "APPROVED"
  PROVE  DebtInv'
<1>1. \A a \in Agents : Owed(a)' = Owed(a) /\ Settled(a)' = Settled(a)
  BY DEF Owed, Settled
<1> QED BY <1>1 DEF DebtInv

LEMMA NextDebt ==
  ASSUME TypeOK, SalesKnown, DebtInv, [Next]_vars PROVE DebtInv'
<1>1. CASE UNCHANGED <<debt, sale, settlement>>
  BY <1>1, DebtFrame
<1>2. ASSUME NEW t \in Settlements, NEW a \in Agents, submitSettlement(t, a)
      PROVE  DebtInv'
  BY <1>2, UnsettledDebt DEF submitSettlement, TypeOK
<1>3. ASSUME NEW t \in Settlements, rejectSettlement(t)
      PROVE  DebtInv'
  <2>1. /\ settlement'[t].status = "REJECTED" /\ settlement[t].status = "PENDING"
        /\ \A r \in Settlements \ {t} : settlement'[r] = settlement[r]
    BY <1>3 DEF rejectSettlement, TypeOK, Settlement
  <2> QED BY <1>3, <2>1, UnsettledDebt DEF rejectSettlement
<1>4. ASSUME NEW t \in Settlements, NEW a \in Agents, recordSettlement(t, a)
      PROVE  DebtInv'
  BY <1>4, SettleDebt DEF recordSettlement
<1>5. ASSUME NEW t \in Settlements, approveSettlement(t)
      PROVE  DebtInv'
  BY <1>5, SettleDebt DEF approveSettlement
<1> QED BY <1>1, <1>2, <1>3, <1>4, <1>5, CreateSaleDebt, VoidSaleDebt DEF vars,
      Next, BarNext, SaleNext, BuybackNext, allocate, returnStock, purchase,
      quote, deliver, titleTransferred, customerSold, cancelUndelivered, pay,
      reject, receive, create, approveWrite, callEnds, approveRead

-----------------------------------------------------------------------------
(* Theorems.                                                                 *)

\* The inductive invariant holds in every reachable state.
THEOREM StockInvariance == Spec => []IndInv
<1>1. Init => IndInv
  BY InitType, InitKnown, InitBooks, InitTitle, InitHeld DEF IndInv
<1>2. IndInv /\ [Next]_vars => IndInv'
  BY NextType, NextKnown, NextBooks, NextTitle, NextHeld DEF IndInv
<1> QED BY <1>1, <1>2, PTL DEF Spec

\* Type correctness; in particular the debt of an agent stays within his limit.
THEOREM StockTypes == Spec => []TypeOK
<1>1. IndInv => TypeOK
  BY DEF IndInv
<1> QED BY <1>1, StockInvariance, PTL

\* The grams in the books are those of the bars that are there.
THEOREM BooksAlwaysFollow == Spec => []BooksFollowBars
<1>1. IndInv => BooksFollowBars
  BY DEF IndInv
<1> QED BY <1>1, StockInvariance, PTL

\* No bar is frozen by an order that ended.
THEOREM NoBarFrozen == Spec => []HeldBarHasOrder
<1>1. IndInv => HeldBarHasOrder
  BY DEF IndInv
<1> QED BY <1>1, StockInvariance, PTL

\* The debt of every agent is what his standing sales of consigned bars cost,
\* less what he settled.
THEOREM DebtAlwaysExplained == Spec => []DebtExplained
<1>1. Init => IndInv /\ DebtInv
  BY InitType, InitKnown, InitBooks, InitTitle, InitHeld, InitDebt DEF IndInv
<1>2. IndInv /\ DebtInv /\ [Next]_vars => (IndInv /\ DebtInv)'
  BY NextType, NextKnown, NextBooks, NextTitle, NextHeld, NextDebt DEF IndInv
<1>3. DebtInv => DebtExplained
  BY DEF DebtInv, DebtExplained
<1> QED BY <1>1, <1>2, <1>3, PTL DEF Spec

\* Titles, holders and the status of bars agree.
THEOREM TitlesFollow == Spec => []TitleFollowsBar
<1>1. IndInv => TitleFollowsBar
  BY DEF IndInv
<1> QED BY <1>1, StockInvariance, PTL

\* A bar goes back from a customer to an agent only by voiding the sale that
\* gave the customer its title.
THEOREM NotTakenBack == Spec => TakenBySaleOnly
<1> DEFINE Taken == \A b \in Bars :
       bar[b].status = "ASSIGNED" /\ bar'[b].status \in {"AT_AGENT", "AGENT_OWNED"}
         => /\ title[b] \in Sales
            /\ sale[title[b]].agent = bar'[b].agent
            /\ sale'[title[b]].status = "VOIDED"
<1>1. IndInv /\ [Next]_vars => [Taken]_vars
  <2> SUFFICES ASSUME IndInv, Next, NEW b \in Bars, bar[b].status = "ASSIGNED",
                      bar'[b].status \in {"AT_AGENT", "AGENT_OWNED"}
               PROVE  /\ title[b] \in Sales
                      /\ sale[title[b]].agent = bar'[b].agent
                      /\ sale'[title[b]].status = "VOIDED"
    OBVIOUS
  <2>0. TypeOK /\ SalesKnown /\ TitleFollowsBar /\ bar[b] \in Bar
        /\ bar \in [Bars -> Bar] /\ title[b] # NoSale
    BY DEF IndInv, TypeOK, TitleFollowsBar
  <2>1. CASE BarNext
    <3>1. \/ UNCHANGED bar
          \/ \E a \in Agents, c \in Bars :
               Free(c) /\ (SetBar(c, "AT_AGENT", a) \/ SetBar(c, "AGENT_OWNED", a))
          \/ \E c \in Bars : SetBar(c, "UNASSIGNED", NoAgent)
      BY <2>1 DEF BarNext, allocate, returnStock, purchase, quote, deliver,
         titleTransferred, customerSold
    <3> QED BY <2>0, <3>1 DEF Free, SetBar
  <2>2. CASE BuybackNext
    <3>1. ASSUME NEW x \in Buybacks, NEW S \in SUBSET Bars, releaseBars(x, S)
          PROVE  FALSE
      BY <2>0, <3>1, ReleaseHolds
    <3>2. \A x \in Buybacks : buyback[x].items \in SUBSET Bars
      BY <2>0 DEF TypeOK, Buyback
    <3>3. ASSUME NEW x \in Buybacks, NEW a \in Agents, NEW S \in SUBSET Bars,
                 create(x, a, S)
          PROVE  FALSE
      BY <2>0, <3>3 DEF create, Holds
    <3>4. ASSUME NEW x \in Buybacks, pay(x) PROVE FALSE
      BY <2>0, <3>4 DEF pay
    <3>5. ~UNCHANGED bar
      OBVIOUS
    <3> QED BY <2>2, <3>1, <3>2, <3>3, <3>4, <3>5 DEF BuybackNext,
          cancelUndelivered, reject, receive, approveWrite, callEnds, approveRead
  <2>3. CASE SaleNext
    <3>1. ASSUME NEW k \in Calls, NEW s \in Sales, createSale(k, s)
          PROVE  FALSE
      <4>1. SetBar(call[k].bar, "ASSIGNED", NoAgent)
        BY <3>1 DEF createSale
      <4> QED BY <2>0, <4>1 DEF SetBar
    <3>2. PICK s \in Sales : voidSale(s)
      BY <2>3, <3>1 DEF SaleNext, approveSettlement, rejectSettlement,
         submitSettlement, recordSettlement, Settle
    <3>3. /\ sale[s].bar \in Bars /\ sale[s].agent \in Agents /\ sale[s] \in Sale
          /\ title[sale[s].bar] = s
      BY <2>0, <3>2 DEF voidSale, SalesKnown, TypeOK, TitleOf
    <3>4. b = sale[s].bar
      BY <2>0, <3>2, <3>3 DEF voidSale, SetBar
    <3>5. bar'[b].agent = sale[s].agent
      BY <2>0, <3>2, <3>3, <3>4 DEF voidSale, SetBar
    <3>6. sale'[s].status = "VOIDED"
      BY <2>0, <3>2, <3>3 DEF voidSale, TypeOK
    <3> QED BY <3>3, <3>4, <3>5, <3>6
  <2> QED BY <2>1, <2>2, <2>3 DEF Next
<1> QED BY <1>1, StockInvariance, PTL DEF Spec, TakenBySaleOnly

\* createSale, voidSale, the settlements and the buybacks together: the books and
\* the debt of an agent say what his bars, sales and settlements say.
THEOREM AccountsAlwaysExplained == Spec => []AccountsExplained
BY BooksAlwaysFollow, DebtAlwaysExplained, PTL DEF AccountsExplained
===========================================================================
