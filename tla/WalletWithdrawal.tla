-------------------------- MODULE WalletWithdrawal --------------------------
(***************************************************************************)
(* The rial side of a wallet and the life of a withdrawal request.          *)
(*                                                                          *)
(* Every operation is one PostgreSQL transaction at READ COMMITTED that     *)
(* takes row locks (SELECT ... FOR UPDATE) on the request, the wallet or    *)
(* both.  A transaction that takes a lock, reads, and writes only later is  *)
(* two steps here, so whatever does not need its lock happens in between;   *)
(* one that holds a single lock from its first read to its commit is one    *)
(* step.  A transaction in flight may be rolled back at any moment          *)
(* (Abort: an error, Prisma's time limit, the death of the process).  A     *)
(* call that is refused, or repeated after it took effect, changes nothing. *)
(*                                                                          *)
(* Besides the withdrawals, the writers of rial_balance that look at holds  *)
(* in different ways are here as far as the wallet sees them: the admin's   *)
(* adjustBalance, the wallet leg of a gold order, and the wallet leg of a   *)
(* shop order.  Deposits, rewards and refunds, which credit the wallet or   *)
(* charge it under the same row lock, are left out.                         *)
(***************************************************************************)
EXTENDS Integers, FiniteSets, Functions

CONSTANTS Users, Withdrawals, Admins, Sessions,
          Amounts,               \* what a user may ask to withdraw
          Opening,               \* every wallet's first balance
          DailyLimit, MonthlyLimit,
          DualThreshold,         \* withdrawal.dual_control_threshold
          FeePercent, FeeFixed, FeeMax,
          Days,                  \* the days of one month, 1 .. last
          Moves,                 \* amounts moved by the other writers
          MaxMoved,              \* bound: rials they move per wallet and kind
          ShopIgnoresHolds,      \* whether shop orders are paid in this run
          NoUser, NoAdmin, NoRequest

ASSUME WalletAssumption ==
  /\ IsFiniteSet(Users) /\ IsFiniteSet(Withdrawals)
  /\ Amounts \subseteq Nat \ {0} /\ Moves \subseteq Nat \ {0}
  /\ Opening \in Nat /\ MaxMoved \in Nat
  /\ DailyLimit \in Nat /\ MonthlyLimit \in Nat /\ DualThreshold \in Nat
  /\ FeePercent \in Nat /\ FeeFixed \in Nat /\ FeeMax \in Nat
  /\ Days \subseteq Nat /\ 1 \in Days
  /\ ShopIgnoresHolds \in BOOLEAN
  /\ NoUser \notin Users /\ NoAdmin \notin Admins
  /\ NoRequest \notin Withdrawals

VARIABLES balance,    \* wallets.rial_balance
          req,        \* rows of withdrawal_requests
          held,       \* requests whose row in wallet_holds exists
          txn,        \* status of the request's WITHDRAWAL transaction
          approval,   \* rows of approvals: who approved, who paid
          journal,    \* the request's journal entry
          ledger,     \* account balances, credit positive
          moved,      \* sums of the other COMPLETED transactions, by type
          day,
          tx          \* tx[s]: the transaction session s has in flight

vars == <<balance, req, held, txn, approval, journal, ledger, moved, day, tx>>
docs == <<req, held, txn, approval, journal>>

Statuses == {"none", "PENDING", "APPROVED", "PROCESSED", "REJECTED",
             "CANCELLED", "RETURNED"}
Request  == [status: Statuses, user: Users \cup {NoUser}, amount: Nat,
             fee: Nat, reviewedBy: Admins \cup {NoAdmin}, day: Nat]
Accounts == {"2010", "1010", "4090", "trade", "sales"}
Kinds    == {"REFUND", "ADDED", "DEDUCTED", "BUY_GOLD", "SELL_GOLD",
             "SHOP_PURCHASE"}
Session  == [step: {"idle", "request", "pay", "return", "adjust"},
             wd: Withdrawals \cup {NoRequest}, user: Users \cup {NoUser},
             admin: Admins \cup {NoAdmin}, amount: Int, seen: Nat]

NoRow == [status |-> "none", user |-> NoUser, amount |-> 0, fee |-> 0,
          reviewedBy |-> NoAdmin, day |-> 0]
\* A transaction in flight: on a wallet, on a request's row, or none
OnWallet(step, u, a, seen) ==
  [step |-> step, wd |-> NoRequest, user |-> u, admin |-> NoAdmin,
   amount |-> a, seen |-> seen]
OnRequest(step, w, admin) ==
  [step |-> step, wd |-> w, user |-> NoUser, admin |-> admin,
   amount |-> 0, seen |-> 0]
Idle == OnRequest("idle", NoRequest, NoAdmin)

Init ==
  /\ balance = [u \in Users |-> Opening]
  /\ req = [w \in Withdrawals |-> NoRow]
  /\ held = {}
  /\ txn = [w \in Withdrawals |-> "none"]
  /\ approval = [w \in Withdrawals |-> [first |-> NoAdmin, second |-> NoAdmin]]
  /\ journal = [w \in Withdrawals |-> "none"]
  /\ ledger = [a \in Accounts |->
                 CASE a = "2010" -> Opening * Cardinality(Users)
                   [] a = "1010" -> -(Opening * Cardinality(Users))
                   [] OTHER -> 0]
  /\ moved = [u \in Users |-> [k \in Kinds |-> 0]]
  /\ day = 1
  /\ tx = [s \in Sessions |-> Idle]

-----------------------------------------------------------------------------
(* Row locks, sums the code computes with aggregate queries, and the ledger. *)

Open(w) == req[w].status \in {"PENDING", "APPROVED"}

\* The wallet row is locked by a withdrawal request from its first statement
\* to its commit; every other transaction locks it in its last step only.
WalletFree(u)   == \A s \in Sessions : ~(tx[s].step = "request" /\ tx[s].user = u)

RequestFree(w)  == \A s \in Sessions : ~(tx[s].step \in {"pay", "return"}
                                           /\ tx[s].wd = w)

AmountOf     == [w \in Withdrawals |-> req[w].amount]
SumAmount(S) == SumFunctionOnSet(AmountOf, S)
Own(u)       == {w \in Withdrawals : req[w].user = u}

\* getActiveHoldRial: the holds of a withdrawal do not expire in practice
HeldRial(u) == SumAmount(Own(u) \cap held)

\* The WITHDRAWAL transactions that count towards the limits
Counted(u) == {w \in Own(u) : txn[w] \in {"PENDING", "COMPLETED"}}
UsedOn(u, d) == SumAmount({w \in Counted(u) : req[w].day = d})

\* The COMPLETED ones, which the wallet's history lists
Completed(u) == {w \in Own(u) : txn[w] = "COMPLETED"}

Fee(a) ==
  LET raw == (a * FeePercent + 50) \div 100 + FeeFixed
  IN IF FeeMax > 0 /\ FeeMax < raw THEN FeeMax ELSE raw

\* postJournal: `lines' gives the change of every account
Post(lines) == ledger' = [a \in Accounts |-> ledger[a] + lines[a]]

Lines(debit, credit, amount) ==
  [a \in Accounts |-> CASE a = debit  -> -amount
                        [] a = credit -> amount
                        [] OTHER      -> 0]

PaymentLines(w) ==
  [a \in Accounts |-> CASE a = "2010" -> -req[w].amount
                        [] a = "1010" -> req[w].amount - req[w].fee
                        [] a = "4090" -> req[w].fee
                        [] OTHER      -> 0]

\* An update of rial_balance; CHECK wallets_balance_non_negative rolls back
\* the transaction whose update would make it negative
Move(u, a) ==
  /\ balance[u] + a >= 0
  /\ balance' = [balance EXCEPT ![u] = @ + a]

Add(u, kind, a) ==
  /\ moved[u][kind] + a <= MaxMoved
  /\ moved' = [moved EXCEPT ![u][kind] = @ + a]

-----------------------------------------------------------------------------
(* The user's side.                                                          *)

WithinLimits(u, a) ==
  /\ UsedOn(u, day) + a <= DailyLimit
  /\ SumAmount(Counted(u)) + a <= MonthlyLimit

\* Variant: the limits are checked before the wallet is locked
RequestBeginUnlocked(s, u, a) ==
  /\ tx[s].step = "idle"
  /\ Fee(a) < a
  /\ WithinLimits(u, a)
  /\ tx' = [tx EXCEPT ![s] = OnWallet("request", u, a, 0)]
  /\ UNCHANGED <<balance, docs, ledger, moved, day>>

\* requestWithdrawal up to the limit check: the wallet is locked first
RequestBegin(s, u, a) ==
  /\ tx[s].step = "idle"
  /\ Fee(a) < a
  /\ WalletFree(u)
  /\ WithinLimits(u, a)
  /\ tx' = [tx EXCEPT ![s] = OnWallet("request", u, a, 0)]
  /\ UNCHANGED <<balance, docs, ledger, moved, day>>

\* The rest of it: the holds are read only now
RequestCommit(s, w) ==
  LET u == tx[s].user
      a == tx[s].amount
  IN /\ tx[s].step = "request"
     /\ req[w].status = "none"
     /\ balance[u] - HeldRial(u) >= a
     /\ req' = [req EXCEPT ![w] = [status |-> "PENDING", user |-> u,
                                   amount |-> a, fee |-> Fee(a),
                                   reviewedBy |-> NoAdmin, day |-> day]]
     /\ held' = held \cup {w}
     /\ txn' = [txn EXCEPT ![w] = "PENDING"]
     /\ tx' = [tx EXCEPT ![s] = Idle]
     /\ UNCHANGED <<balance, approval, journal, ledger, moved, day>>

\* Closing a request unpaid: hold deleted, transaction FAILED
Release(w) ==
  /\ held' = held \ {w}
  /\ txn' = [txn EXCEPT ![w] = "FAILED"]

\* Variant: the hold is left behind
CancelKeepsHold(w) ==
  /\ RequestFree(w)
  /\ req[w].status = "PENDING"
  /\ req' = [req EXCEPT ![w].status = "CANCELLED"]
  /\ txn' = [txn EXCEPT ![w] = "FAILED"]
  /\ UNCHANGED <<balance, held, approval, journal, ledger, moved, day, tx>>

\* cancelMyWithdrawal
Cancel(w) ==
  /\ RequestFree(w)
  /\ req[w].status = "PENDING"
  /\ req' = [req EXCEPT ![w].status = "CANCELLED"]
  /\ Release(w)
  /\ UNCHANGED <<balance, approval, journal, ledger, moved, day, tx>>

-----------------------------------------------------------------------------
(* The admin's side.                                                         *)

Approve(w, admin) ==
  /\ RequestFree(w)
  /\ req[w].status = "PENDING"
  /\ req' = [req EXCEPT ![w].status = "APPROVED", ![w].reviewedBy = admin]
  /\ approval' = [approval EXCEPT ![w].first = admin]
  /\ UNCHANGED <<balance, held, txn, journal, ledger, moved, day, tx>>

\* Variant: rejects without locking the request
RejectUnlocked(w, admin) ==
  /\ Open(w)
  /\ req' = [req EXCEPT ![w].status = "REJECTED", ![w].reviewedBy = admin]
  /\ Release(w)
  /\ UNCHANGED <<balance, approval, journal, ledger, moved, day, tx>>

Reject(w, admin) ==
  /\ RequestFree(w)
  /\ Open(w)
  /\ req' = [req EXCEPT ![w].status = "REJECTED", ![w].reviewedBy = admin]
  /\ Release(w)
  /\ UNCHANGED <<balance, approval, journal, ledger, moved, day, tx>>

\* Variant: the threshold itself is left out
RequiresDualControlAbove(w) == req[w].amount > DualThreshold

RequiresDualControl(w) == req[w].amount >= DualThreshold

\* Variant: pays without locking the request
PayBeginUnlocked(s, w, admin) ==
  /\ tx[s].step = "idle"
  /\ req[w].status = "APPROVED"
  /\ RequiresDualControl(w) => req[w].reviewedBy # admin
  /\ tx' = [tx EXCEPT ![s] = OnRequest("pay", w, admin)]
  /\ UNCHANGED <<balance, docs, ledger, moved, day>>

\* pay up to the wallet lock: the request row is locked, status and
\* separation of duties are checked
PayBegin(s, w, admin) ==
  /\ tx[s].step = "idle"
  /\ RequestFree(w)
  /\ req[w].status = "APPROVED"
  /\ RequiresDualControl(w) => req[w].reviewedBy # admin
  /\ tx' = [tx EXCEPT ![s] = OnRequest("pay", w, admin)]
  /\ UNCHANGED <<balance, docs, ledger, moved, day>>

PayCommit(s) ==
  LET w == tx[s].wd
      u == req[w].user
  IN /\ tx[s].step = "pay"
     /\ WalletFree(u)
     /\ balance[u] >= req[w].amount
     /\ Move(u, -req[w].amount)
     /\ held' = held \ {w}
     /\ txn' = [txn EXCEPT ![w] = "COMPLETED"]
     /\ Post(PaymentLines(w))
     /\ journal' = [journal EXCEPT ![w] = "posted"]
     /\ req' = [req EXCEPT ![w].status = "PROCESSED"]
     /\ approval' = [approval EXCEPT ![w].second = tx[s].admin]
     /\ tx' = [tx EXCEPT ![s] = Idle]
     /\ UNCHANGED <<moved, day>>

\* markReturned: the bank sent the money back
ReturnBegin(s, w) ==
  /\ tx[s].step = "idle"
  /\ RequestFree(w)
  /\ req[w].status = "PROCESSED"
  /\ tx' = [tx EXCEPT ![s] = OnRequest("return", w, NoAdmin)]
  /\ UNCHANGED <<balance, docs, ledger, moved, day>>

\* Variant: only the net amount comes back
ReturnCommitNet(s) ==
  LET w     == tx[s].wd
      u     == req[w].user
      back  == req[w].amount - req[w].fee
      lines == PaymentLines(w)
  IN /\ tx[s].step = "return"
     /\ WalletFree(u)
     /\ Move(u, back)
     /\ moved' = [moved EXCEPT ![u]["REFUND"] = @ + back]
     /\ Post([a \in Accounts |-> -lines[a]])
     /\ journal' = [journal EXCEPT ![w] = "reversed"]
     /\ req' = [req EXCEPT ![w].status = "RETURNED"]
     /\ tx' = [tx EXCEPT ![s] = Idle]
     /\ UNCHANGED <<held, txn, approval, day>>

\* reverseJournal posts the lines of the payment with the sides swapped
ReturnCommit(s) ==
  LET w     == tx[s].wd
      u     == req[w].user
      lines == PaymentLines(w)
  IN /\ tx[s].step = "return"
     /\ WalletFree(u)
     /\ Move(u, req[w].amount)
     /\ moved' = [moved EXCEPT ![u]["REFUND"] = @ + req[w].amount]
     /\ Post([a \in Accounts |-> -lines[a]])
     /\ journal' = [journal EXCEPT ![w] = "reversed"]
     /\ req' = [req EXCEPT ![w].status = "RETURNED"]
     /\ tx' = [tx EXCEPT ![s] = Idle]
     /\ UNCHANGED <<held, txn, approval, day>>

-----------------------------------------------------------------------------
(* The other writers of the balance.                                         *)

\* adjustBalance reads the wallet first and locks it afterwards
AdjustBegin(s, u, a) ==
  /\ tx[s].step = "idle"
  /\ tx' = [tx EXCEPT ![s] = OnWallet("adjust", u, a, balance[u])]
  /\ UNCHANGED <<balance, docs, ledger, moved, day>>

\* The code checks the balance it saw, the database the one it writes
AdjustCommit(s) ==
  LET u == tx[s].user
      a == tx[s].amount
  IN /\ tx[s].step = "adjust"
     /\ WalletFree(u)
     /\ tx[s].seen + a >= 0
     /\ Move(u, a)
     /\ IF a > 0 THEN Add(u, "ADDED", a) ELSE Add(u, "DEDUCTED", -a)
     /\ Post(Lines("1010", "2010", a))
     /\ tx' = [tx EXCEPT ![s] = Idle]
     /\ UNCHANGED <<docs, day>>

\* Variant: holds are not subtracted
BuyGoldHoldBlind(u, a) ==
  /\ WalletFree(u)
  /\ balance[u] >= a
  /\ Move(u, -a)
  /\ Add(u, "BUY_GOLD", a)
  /\ Post(Lines("2010", "trade", a))
  /\ UNCHANGED <<docs, day, tx>>

\* createOrder: the wallet leg of a gold purchase and of a gold sale
BuyGold(u, a) ==
  /\ WalletFree(u)
  /\ balance[u] - HeldRial(u) >= a
  /\ Move(u, -a)
  /\ Add(u, "BUY_GOLD", a)
  /\ Post(Lines("2010", "trade", a))
  /\ UNCHANGED <<docs, day, tx>>

SellGold(u, a) ==
  /\ WalletFree(u)
  /\ Move(u, a)
  /\ Add(u, "SELL_GOLD", a)
  /\ Post(Lines("trade", "2010", a))
  /\ UNCHANGED <<docs, day, tx>>

\* captureWalletOnly: a shop order paid from the wallet compares the price
\* with the balance and not with what the holds leave of it
ShopCapture(u, a) ==
  /\ ShopIgnoresHolds
  /\ WalletFree(u)
  /\ balance[u] >= a
  /\ Move(u, -a)
  /\ Add(u, "SHOP_PURCHASE", a)
  /\ Post(Lines("2010", "sales", a))
  /\ UNCHANGED <<docs, day, tx>>

-----------------------------------------------------------------------------
Abort(s) ==
  /\ tx[s].step # "idle"
  /\ tx' = [tx EXCEPT ![s] = Idle]
  /\ UNCHANGED <<balance, docs, ledger, moved, day>>

Midnight ==
  /\ day + 1 \in Days
  /\ day' = day + 1
  /\ UNCHANGED <<balance, docs, ledger, moved, tx>>

Next ==
  \/ \E s \in Sessions :
       \/ \E u \in Users, a \in Amounts : RequestBegin(s, u, a)
       \/ \E w \in Withdrawals : \/ RequestCommit(s, w)
                                 \/ \E p \in Admins : PayBegin(s, w, p)
                                 \/ ReturnBegin(s, w)
       \/ PayCommit(s)
       \/ ReturnCommit(s)
       \/ \E u \in Users, a \in Moves : AdjustBegin(s, u, a)
                                          \/ AdjustBegin(s, u, -a)
       \/ AdjustCommit(s)
       \/ Abort(s)
  \/ \E w \in Withdrawals : \/ Cancel(w)
                            \/ \E p \in Admins : Approve(w, p) \/ Reject(w, p)
  \/ \E u \in Users, a \in Moves : \/ BuyGold(u, a)
                                   \/ SellGold(u, a)
                                   \/ ShopCapture(u, a)
  \/ Midnight

Spec == Init /\ [][Next]_vars

-----------------------------------------------------------------------------
(* Properties.                                                               *)

\* The tables have their types; in particular no balance is ever negative,
\* although adjustBalance checks a balance it read before taking the lock.
TypeOK ==
  /\ balance \in [Users -> Nat]
  /\ req \in [Withdrawals -> Request]
  /\ held \subseteq Withdrawals
  /\ txn \in [Withdrawals -> {"none", "PENDING", "COMPLETED", "FAILED"}]
  /\ approval \in [Withdrawals -> [first: Admins \cup {NoAdmin},
                                   second: Admins \cup {NoAdmin}]]
  /\ journal \in [Withdrawals -> {"none", "posted", "reversed"}]
  /\ ledger \in [Accounts -> Int]
  /\ moved \in [Users -> [Kinds -> Nat]]
  /\ day \in Days
  /\ tx \in [Sessions -> Session]

\* The four tables a request lives in never disagree: the hold stands exactly
\* while the request is open, its transaction is COMPLETED exactly when the
\* money left, and the payment's journal entry stands exactly while it did.
TxnOf(status) ==
  CASE status = "none" -> "none"
    [] status \in {"PENDING", "APPROVED"} -> "PENDING"
    [] status \in {"REJECTED", "CANCELLED"} -> "FAILED"
    [] status \in {"PROCESSED", "RETURNED"} -> "COMPLETED"

JournalOf(status) ==
  CASE status = "PROCESSED" -> "posted"
    [] status = "RETURNED" -> "reversed"
    [] OTHER -> "none"

TablesAgree ==
  \A w \in Withdrawals : /\ w \in held <=> Open(w)
                         /\ txn[w] = TxnOf(req[w].status)
                         /\ journal[w] = JournalOf(req[w].status)

\* Separation of duties (pay, FPT_ITT_EXT.1.7): whoever approved a withdrawal
\* of the threshold or more is not the one who paid it.
DualControl ==
  \A w \in Withdrawals :
    /\ approval[w].second # NoAdmin
    /\ req[w].amount >= DualThreshold
    => approval[w].first \notin {NoAdmin, approval[w].second}

\* What the inductive argument adds.  A request: its two approvals are those
\* its status calls for, and something is left to pay after the fee.
RequestInv(w) ==
  /\ req[w].status # "none" =>
       req[w].user \in Users /\ req[w].fee < req[w].amount
  /\ req[w].status = "APPROVED" =>
       approval[w].first = req[w].reviewedBy /\ approval[w].first \in Admins
  /\ approval[w].second # NoAdmin <=> req[w].status \in {"PROCESSED", "RETURNED"}

\* A transaction in flight: the request is still what it was when its row was
\* locked, and nobody else holds that row, or that wallet.
SessionInv(s) ==
  /\ tx[s].step \in {"pay", "return"} =>
       /\ tx[s].wd \in Withdrawals
       /\ \A t \in Sessions :
            tx[t].step \in {"pay", "return"} /\ tx[t].wd = tx[s].wd => t = s
  /\ tx[s].step = "pay" =>
       /\ req[tx[s].wd].status = "APPROVED"
       /\ tx[s].admin \in Admins
       /\ RequiresDualControl(tx[s].wd)
            => tx[s].admin # approval[tx[s].wd].first
  /\ tx[s].step = "return" => req[tx[s].wd].status = "PROCESSED"
  /\ tx[s].step \in {"request", "adjust"} => tx[s].user \in Users
  /\ tx[s].step = "request" =>
       /\ tx[s].amount \in Amounts /\ Fee(tx[s].amount) < tx[s].amount
       /\ \A t \in Sessions :
            tx[t].step = "request" /\ tx[t].user = tx[s].user => t = s

IndInv ==
  /\ TypeOK /\ TablesAgree /\ DualControl
  /\ \A w \in Withdrawals : RequestInv(w)
  /\ \A s \in Sessions : SessionInv(s)

\* A request that was cancelled, rejected or returned stays so, and a paid one
\* can only be returned: a payment in flight never meets another decision.
Decided == {"CANCELLED", "REJECTED", "RETURNED"}
DecisionsStand ==
  [][\A w \in Withdrawals :
       /\ req[w].status \in Decided => req'[w] = req[w]
       /\ req[w].status = "PROCESSED" =>
            req'[w].status \in {"PROCESSED", "RETURNED"}]_vars

\* The balance is the sum of the wallet's COMPLETED transactions: no payment,
\* return or adjustment reaches the wallet twice or is lost in a race.
WalletExplained ==
  \A u \in Users :
    balance[u] = Opening + moved[u]["REFUND"]
                   + moved[u]["ADDED"] - moved[u]["DEDUCTED"]
                   + moved[u]["SELL_GOLD"] - moved[u]["BUY_GOLD"]
                   - moved[u]["SHOP_PURCHASE"]
                   - SumAmount(Completed(u))

\* Account 2010 is what the wallets hold: every writer of rial_balance posts
\* the matching line.
LiabilityMatchesWallets ==
  ledger["2010"] = SumFunctionOnSet(balance, Users)

\* Fees, requests that are paid and not returned, what admins added by hand
FeeOf  == [w \in Withdrawals |-> req[w].fee]
Paid   == {w \in Withdrawals : req[w].status = "PROCESSED"}
ByHand == [u \in Users |-> moved[u]["ADDED"] - moved[u]["DEDUCTED"]]

\* The bank account lost exactly the net amounts of the requests that are
\* paid and not returned, and the fee account holds exactly their fees.
PaidOutExplained ==
  LET fees == SumFunctionOnSet(FeeOf, Paid)
  IN /\ ledger["4090"] = fees
     /\ ledger["1010"] = SumAmount(Paid) - fees
                           - SumFunctionOnSet(ByHand, Users)
                           - Opening * Cardinality(Users)

\* The books and the wallets tell the same, after every payment, return and
\* adjustment, in whatever order they were made.
BooksExplained == LiabilityMatchesWallets /\ PaidOutExplained

\* The withdrawals of a day and of the month stay within the limits, for
\* concurrent calls and for a call that runs across midnight.
LimitsHold ==
  \A u \in Users :
    /\ \A d \in Days : UsedOn(u, d) <= DailyLimit
    /\ SumAmount(Counted(u)) <= MonthlyLimit

\* What the inductive argument adds: no request is of a day to come, and a
\* call that was within the limits when it looked still is when it writes.
LimitsInv ==
  /\ \A w \in Withdrawals : txn[w] \in {"PENDING", "COMPLETED"} => req[w].day <= day
  /\ \A s \in Sessions :
       tx[s].step = "request" => WithinLimits(tx[s].user, tx[s].amount)

\* What is reserved for open withdrawals is in the wallet, but for what the
\* two writers that do not look at holds took out: an admin's deduction and
\* a shop order.
HoldsCoveredButForced ==
  \A u \in Users :
    HeldRial(u) - balance[u] <= moved[u]["DEDUCTED"] + moved[u]["SHOP_PURCHASE"]
=============================================================================
