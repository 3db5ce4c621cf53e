----------------------------- MODULE AgentStock -----------------------------
(***************************************************************************)
(* The coded bars that pass through agents: handed over on consignment and  *)
(* returned, bought by the agent, sold to customers and taken back when a   *)
(* sale is voided, and sold back to the company.  With them go the grams in *)
(* the accounts of the vault and of the consignment stock, and the agent's  *)
(* debt.                                                                    *)
(*                                                                          *)
(* Every operation is a transaction under the locks of the rows it reads    *)
(* and is one step, but for two: a sale relies on a quote that was given    *)
(* earlier, and the approval of a sale to the company reads the order,      *)
(* reads a setting, and then writes the order without a condition.          *)
(*                                                                          *)
(* What an agent pays for orders and is paid for bars is in AgentFunds.     *)
(***************************************************************************)
EXTENDS Integers, FiniteSets, FiniteSetsExt

CONSTANTS Agents, Bars, Sales, Buybacks, Settlements, Calls,
          NoAgent, NoBar, NoSale,
          Third,             \* an owner who did not buy from an agent
          NetPayable,        \* what a consigned bar costs the agent
          Amount,            \* a settlement
          CreditLimit,
          MaxPurchases       \* bound: bars the agents buy

ASSUME StockAssumption ==
  /\ NetPayable \in Nat /\ Amount \in Nat
  /\ CreditLimit \in Nat /\ MaxPurchases \in Nat
  /\ NoAgent \notin Agents /\ NoBar \notin Bars
  /\ NoSale \notin Sales /\ Third \notin Sales /\ Third # NoSale

VARIABLES bar,         \* hologram_codes: status and agent
          title,       \* the sale that the ACTIVE ownership of a bar comes from
          undelivered, \* bought bars that the agent has not received
          grams,       \* grams[b]: net entries for b in 1025 and 1030
          sale,        \* agent_sales
          debt,        \* agents.balance_rial
          settlement,  \* agent_settlements
          buyback,     \* agent_buyback_orders
          purchases,   \* bars bought so far
          call         \* call[k]: a quote, or an order read for approval

vars == <<bar, title, undelivered, grams, sale, debt, settlement, buyback,
          purchases, call>>

BarStatuses == {"UNASSIGNED", "AT_AGENT", "AGENT_OWNED", "BUYBACK_PENDING",
                "ASSIGNED"}
BuybackStatuses == {"none", "PENDING_DELIVERY", "RECEIVED", "APPROVED", "PAID",
                    "REJECTED", "CANCELLED"}
Live == {"PENDING_DELIVERY", "RECEIVED", "APPROVED"}

Bar == [status: BarStatuses, agent: Agents \cup {NoAgent}]
Sale == [status: {"none", "COMPLETED", "VOIDED"}, bar: Bars \cup {NoBar},
         agent: Agents \cup {NoAgent}, owned: BOOLEAN]
Settlement == [status: {"none", "PENDING", "APPROVED", "REJECTED"},
               agent: Agents \cup {NoAgent}]
Buyback == [status: BuybackStatuses, agent: Agents \cup {NoAgent},
            items: SUBSET Bars, refused: SUBSET Bars]
Quote == [op: {"sale"}, agent: Agents, bar: Bars, owned: BOOLEAN]
Approval == [op: {"approve"}, buyback: Buybacks]

NoBuyback == [status |-> "none", agent |-> NoAgent, items |-> {}, refused |-> {}]
Idle == [op |-> "idle"]

Init ==
  /\ bar = [b \in Bars |-> [status |-> "UNASSIGNED", agent |-> NoAgent]]
  /\ title = [b \in Bars |-> NoSale]
  /\ undelivered = {}
  /\ grams = [b \in Bars |-> [vault |-> 1, consigned |-> 0]]
  /\ sale = [s \in Sales |->
       [status |-> "none", bar |-> NoBar, agent |-> NoAgent, owned |-> FALSE]]
  /\ debt = [a \in Agents |-> 0]
  /\ settlement = [t \in Settlements |-> [status |-> "none", agent |-> NoAgent]]
  /\ buyback = [x \in Buybacks |-> NoBuyback]
  /\ purchases = 0
  /\ call = [k \in Calls |-> Idle]

-----------------------------------------------------------------------------
(* Bars and the accounts of their grams. *)

\* Variant: the agent is not removed
SetBarKeepsAgent(b, status, a) ==
  bar' = [bar EXCEPT ![b].status = status,
                     ![b].agent = IF a = NoAgent THEN @ ELSE a]

SetBar(b, status, a) == bar' = [bar EXCEPT ![b] = [status |-> status, agent |-> a]]

\* A journal entry that moves the grams of b
MoveGrams(b, vault, consigned) ==
  grams' = [grams EXCEPT ![b] = [vault |-> @.vault + vault,
                                 consigned |-> @.consigned + consigned]]

Free(b) == bar[b].status = "UNASSIGNED" /\ title[b] = NoSale

Holds(a, b, status) == bar[b].status = status /\ bar[b].agent = a

\* On consignment
allocate(a, b) ==
  /\ Free(b)
  /\ SetBar(b, "AT_AGENT", a)
  /\ MoveGrams(b, -1, 1)
  /\ UNCHANGED <<title, undelivered, sale, debt, settlement, buyback, purchases,
                 call>>

returnStock(a, b) ==
  /\ Holds(a, b, "AT_AGENT")
  /\ SetBar(b, "UNASSIGNED", NoAgent)
  /\ MoveGrams(b, 1, -1)
  /\ UNCHANGED <<title, undelivered, sale, debt, settlement, buyback, purchases,
                 call>>

\* The approval of a purchase order
purchase(a, b) ==
  /\ purchases < MaxPurchases
  /\ Free(b)
  /\ SetBar(b, "AGENT_OWNED", a)
  /\ MoveGrams(b, -1, 0)
  /\ undelivered' = undelivered \cup {b}
  /\ purchases' = purchases + 1
  /\ UNCHANGED <<title, sale, debt, settlement, buyback, call>>

deliver(b) ==
  /\ b \in undelivered
  /\ undelivered' = undelivered \ {b}
  /\ UNCHANGED <<bar, title, grams, sale, debt, settlement, buyback, purchases,
                 call>>

\* A customer's bar gets another owner: a transfer of its title.
titleTransferred(b) ==
  /\ bar[b].status = "ASSIGNED"
  /\ title' = [title EXCEPT ![b] = Third]
  /\ UNCHANGED <<bar, undelivered, grams, sale, debt, settlement, buyback,
                 purchases, call>>

\* A customer sells a bar to the company.
customerSold(b) ==
  /\ bar[b].status = "ASSIGNED"
  /\ SetBar(b, "UNASSIGNED", NoAgent)
  /\ title' = [title EXCEPT ![b] = NoSale]
  /\ MoveGrams(b, 1, 0)
  /\ UNCHANGED <<undelivered, sale, debt, settlement, buyback, purchases, call>>

-----------------------------------------------------------------------------
(* Sales to customers. *)

\* The quote remembers whether the bar was the agent's own.
quote(k, a, b) ==
  LET owned == bar[b].status = "AGENT_OWNED" IN
  /\ call[k] = Idle
  /\ Holds(a, b, "AT_AGENT") \/ Holds(a, b, "AGENT_OWNED")
  /\ owned => b \notin undelivered
  /\ call' = [call EXCEPT ![k] = [op |-> "sale", agent |-> a, bar |-> b,
                                  owned |-> owned]]
  /\ UNCHANGED <<bar, title, undelivered, grams, sale, debt, settlement, buyback,
                 purchases>>

StillQuoted(q) ==
  Holds(q.agent, q.bar, IF q.owned THEN "AGENT_OWNED" ELSE "AT_AGENT")

WithinLimit(q) == q.owned \/ debt[q.agent] + NetPayable <= CreditLimit

\* The company bills the agent only for a bar on consignment.
createSale(k, s) ==
  LET q == call[k] IN
  /\ call[k].op = "sale" /\ sale[s].status = "none"
  /\ StillQuoted(q) /\ WithinLimit(q)
  /\ SetBar(q.bar, "ASSIGNED", NoAgent)
  /\ title' = [title EXCEPT ![q.bar] = s]
  /\ sale' = [sale EXCEPT ![s] = [status |-> "COMPLETED", bar |-> q.bar,
                                  agent |-> q.agent, owned |-> q.owned]]
  /\ MoveGrams(q.bar, 0, IF q.owned THEN 0 ELSE -1)
  /\ debt' = IF q.owned THEN debt
             ELSE [debt EXCEPT ![q.agent] = @ + NetPayable]
  /\ call' = [call EXCEPT ![k] = Idle]
  /\ UNCHANGED <<undelivered, settlement, buyback, purchases>>

\* Variant: it is enough that the bar has a customer
TitleOfAnybody(s) == bar[sale[s].bar].status = "ASSIGNED"

\* The active ownership is still the one the sale made.
TitleOf(s) ==
  LET b == sale[s].bar IN bar[b].status = "ASSIGNED" /\ title[b] = s

VoidedDebt(s) ==
  IF sale[s].owned THEN debt
  ELSE [debt EXCEPT ![sale[s].agent] = @ - NetPayable]

voidSale(s) ==
  LET b == sale[s].bar IN
  /\ sale[s].status = "COMPLETED"
  /\ TitleOf(s)
  /\ SetBar(b, IF sale[s].owned THEN "AGENT_OWNED" ELSE "AT_AGENT", sale[s].agent)
  /\ title' = [title EXCEPT ![b] = NoSale]
  /\ sale' = [sale EXCEPT ![s].status = "VOIDED"]
  /\ MoveGrams(b, 0, IF sale[s].owned THEN 0 ELSE 1)
  /\ debt' = VoidedDebt(s)
  /\ UNCHANGED <<undelivered, settlement, buyback, purchases, call>>

-----------------------------------------------------------------------------
(* Settlements of the debt by bank transfer. *)

submitSettlement(t, a) ==
  /\ settlement[t].status = "none"
  /\ settlement' = [settlement EXCEPT ![t] = [status |-> "PENDING", agent |-> a]]
  /\ UNCHANGED <<bar, title, undelivered, grams, sale, debt, buyback, purchases,
                 call>>

Settle(t, a) ==
  /\ settlement' = [settlement EXCEPT ![t] = [status |-> "APPROVED", agent |-> a]]
  /\ debt' = [debt EXCEPT ![a] = @ - Amount]
  /\ UNCHANGED <<bar, title, undelivered, grams, sale, buyback, purchases, call>>

recordSettlement(t, a) == settlement[t].status = "none" /\ Settle(t, a)

approveSettlement(t) ==
  settlement[t].status = "PENDING" /\ Settle(t, settlement[t].agent)

rejectSettlement(t) ==
  /\ settlement[t].status = "PENDING"
  /\ settlement' = [settlement EXCEPT ![t].status = "REJECTED"]
  /\ UNCHANGED <<bar, title, undelivered, grams, sale, debt, buyback, purchases,
                 call>>

-----------------------------------------------------------------------------
(* Sales of the agent's own bars to the company. *)

SetBuyback(x, status) == buyback' = [buyback EXCEPT ![x].status = status]

\* All the bars or none
create(x, a, S) ==
  /\ buyback[x].status = "none" /\ S # {}
  /\ \A b \in S : Holds(a, b, "AGENT_OWNED")
  /\ bar' = [b \in Bars |->
       IF b \in S THEN [bar[b] EXCEPT !.status = "BUYBACK_PENDING"] ELSE bar[b]]
  /\ buyback' = [buyback EXCEPT ![x] = [status |-> "PENDING_DELIVERY", agent |-> a,
                                        items |-> S, refused |-> {}]]
  /\ UNCHANGED <<title, undelivered, grams, sale, debt, settlement, purchases, call>>

\* Variant: bars keep waiting
releaseNothing(x, S) == UNCHANGED bar

releaseBars(x, S) ==
  bar' = [b \in Bars |->
            IF b \in S /\ Holds(buyback[x].agent, b, "BUYBACK_PENDING")
            THEN [bar[b] EXCEPT !.status = "AGENT_OWNED"] ELSE bar[b]]

\* cancelByAgent, and the hourly job when the delivery is late
cancelUndelivered(x) ==
  /\ buyback[x].status = "PENDING_DELIVERY"
  /\ releaseBars(x, buyback[x].items)
  /\ SetBuyback(x, "CANCELLED")
  /\ UNCHANGED <<title, undelivered, grams, sale, debt, settlement, purchases, call>>

\* The inspection refuses some bars, or all.
receive(x, R) ==
  /\ buyback[x].status = "PENDING_DELIVERY" /\ R \subseteq buyback[x].items
  /\ releaseBars(x, R)
  /\ buyback' = [buyback EXCEPT
       ![x].refused = R,
       ![x].status = IF R = buyback[x].items THEN "REJECTED" ELSE "RECEIVED"]
  /\ UNCHANGED <<title, undelivered, grams, sale, debt, settlement, purchases, call>>

approveRead(k, x) ==
  /\ call[k] = Idle
  /\ buyback[x].status = "RECEIVED"
  /\ call' = [call EXCEPT ![k] = [op |-> "approve", buyback |-> x]]
  /\ UNCHANGED <<bar, title, undelivered, grams, sale, debt, settlement, buyback,
                 purchases>>

\* The order is written without looking at its status again.
approveWrite(k) ==
  /\ call[k].op = "approve"
  /\ SetBuyback(call[k].buyback, "APPROVED")
  /\ call' = [call EXCEPT ![k] = Idle]
  /\ UNCHANGED <<bar, title, undelivered, grams, sale, debt, settlement, purchases>>

Accepted(x) == buyback[x].items \ buyback[x].refused

\* Variant: bars that moved meanwhile are passed over
AllHeldOrGone(x) == TRUE

\* The update moved as many bars as were accepted.
AllHeld(x) == \A b \in Accepted(x) : Holds(buyback[x].agent, b, "BUYBACK_PENDING")

pay(x) ==
  /\ buyback[x].status = "APPROVED"
  /\ AllHeld(x)
  /\ bar' = [b \in Bars |->
       IF b \in Accepted(x) THEN [status |-> "UNASSIGNED", agent |-> NoAgent]
       ELSE bar[b]]
  /\ grams' = [b \in Bars |->
       IF b \in Accepted(x) THEN [grams[b] EXCEPT !.vault = @ + 1] ELSE grams[b]]
  /\ SetBuyback(x, "PAID")
  /\ UNCHANGED <<title, undelivered, sale, debt, settlement, purchases, call>>

reject(x) ==
  /\ buyback[x].status \in Live
  /\ releaseBars(x, buyback[x].items)
  /\ SetBuyback(x, "REJECTED")
  /\ UNCHANGED <<title, undelivered, grams, sale, debt, settlement, purchases, call>>

\* A quote lapses, or the process dies.
callEnds(k) ==
  /\ call[k] # Idle
  /\ call' = [call EXCEPT ![k] = Idle]
  /\ UNCHANGED <<bar, title, undelivered, grams, sale, debt, settlement, buyback,
                 purchases>>

-----------------------------------------------------------------------------

BarNext ==
  \/ \E a \in Agents, b \in Bars :
       \/ allocate(a, b) \/ returnStock(a, b) \/ purchase(a, b)
       \/ \E k \in Calls : quote(k, a, b)
  \/ \E b \in Bars : deliver(b) \/ titleTransferred(b) \/ customerSold(b)

SaleNext ==
  \/ \E k \in Calls, s \in Sales : createSale(k, s)
  \/ \E s \in Sales : voidSale(s)
  \/ \E t \in Settlements :
       \/ approveSettlement(t) \/ rejectSettlement(t)
       \/ \E a \in Agents : submitSettlement(t, a) \/ recordSettlement(t, a)

BuybackNext ==
  \/ \E x \in Buybacks :
       \/ cancelUndelivered(x) \/ pay(x) \/ reject(x)
       \/ \E S \in SUBSET Bars :
            \/ receive(x, S)
            \/ \E a \in Agents : create(x, a, S)
  \/ \E k \in Calls :
       \/ approveWrite(k) \/ callEnds(k)
       \/ \E x \in Buybacks : approveRead(k, x)

Next == BarNext \/ SaleNext \/ BuybackNext

Spec == Init /\ [][Next]_vars

-----------------------------------------------------------------------------
(* Properties. *)

\* The debt of an agent includes what consigned bars cost and stays within his
\* limit.
TypeOK ==
  /\ bar \in [Bars -> Bar]
  /\ title \in [Bars -> Sales \cup {NoSale, Third}]
  /\ undelivered \subseteq Bars
  /\ grams \in [Bars -> [vault: Int, consigned: Int]]
  /\ sale \in [Sales -> Sale]
  /\ debt \in [Agents -> {n \in Int : n <= CreditLimit}]
  /\ settlement \in [Settlements -> Settlement]
  /\ buyback \in [Buybacks -> Buyback]
  /\ purchases \in Nat
  /\ call \in [Calls -> {Idle} \cup Quote \cup Approval]

\* The grams in the accounts of the vault (1025) and of the consignment stock
\* (1030) are those of the bars that are there, whatever sequence of sales,
\* voids, returns and sales to the company a bar went through.  In particular
\* the company never pays for a bar that does not come back to the vault.
BooksFollowBars ==
  \A b \in Bars :
    /\ grams[b].vault = IF bar[b].status = "UNASSIGNED" THEN 1 ELSE 0
    /\ grams[b].consigned = IF bar[b].status = "AT_AGENT" THEN 1 ELSE 0

\* A bar that waits to be sold to the company is an accepted item of an order
\* of its agent that is still alive: no bar is frozen by an order that ended.
HeldBarHasOrder ==
  \A b \in Bars : bar[b].status = "BUYBACK_PENDING" =>
    \E x \in Buybacks : /\ buyback[x].status \in Live
                        /\ buyback[x].agent = bar[b].agent
                        /\ b \in Accepted(x)

\* A bar has a title if and only if it is a customer's, an agent is recorded if
\* and only if the bar is in his hands, and the title a sale gave is that of a
\* sale which was not voided.
TitleFollowsBar ==
  \A b \in Bars :
    /\ title[b] = NoSale <=> bar[b].status # "ASSIGNED"
    /\ bar[b].agent = NoAgent <=> bar[b].status \in {"UNASSIGNED", "ASSIGNED"}
    /\ title[b] \in Sales =>
         sale[title[b]].status = "COMPLETED" /\ sale[title[b]].bar = b

\* The consigned bars of a whose sale stands, and his settlements
Owed(a) == {s \in Sales :
              sale[s].status = "COMPLETED" /\ sale[s].agent = a /\ ~sale[s].owned}
Settled(a) == {t \in Settlements :
                 settlement[t].status = "APPROVED" /\ settlement[t].agent = a}

\* An agent owes for the consigned bars whose sale stands, less what was settled.
DebtExplained ==
  \A a \in Agents :
    debt[a] = NetPayable * Cardinality(Owed(a)) - Amount * Cardinality(Settled(a))

\* Bars and debt move together: whichever of a sale, its voiding, a sale back
\* and a settlement comes when, the grams are accounted for where the bar is,
\* and what is owed is what stands.
AccountsExplained == BooksFollowBars /\ DebtExplained

\* A bar is taken from a customer and given back to an agent only by voiding
\* the sale that gave him its title, never after he passed it on.
TakenBySaleOnly ==
  [][\A b \in Bars :
       bar[b].status = "ASSIGNED" /\ bar'[b].status \in {"AT_AGENT", "AGENT_OWNED"}
         => /\ title[b] \in Sales
            /\ sale[title[b]].agent = bar'[b].agent
            /\ sale'[title[b]].status = "VOIDED"]_vars
=============================================================================
