---------------------- MODULE WalletWithdrawalProofs ----------------------
(***************************************************************************)
(* Proofs about WalletWithdrawal, for any number of users, requests, admins *)
(* and sessions, any limits, fees and threshold.  IndInv is inductive;      *)
(* types, agreement of the tables and dual control follow from it, and with *)
(* it no step undoes a decision.  On top of it, what is summed over the     *)
(* requests: the limits (with LimitsInv), and Money, which relates the      *)
(* wallets, their history, the books and the holds.                         *)
(***************************************************************************)
EXTENDS WalletWithdrawal, SumFacts, FiniteSetTheorems, TLAPS

-----------------------------------------------------------------------------
(* Types of the values the actions write.                                    *)

LEMMA IdleType == Idle \in Session
BY DEF Idle, OnRequest, Session

LEMMA NoRowType == NoRow \in Request
BY DEF NoRow, Request, Statuses

LEMMA AmountNat == ASSUME NEW a \in Amounts PROVE a \in Nat
BY WalletAssumption

\* The fee is a natural number of rials.
LEMMA FeeNat == ASSUME NEW a \in Nat PROVE Fee(a) \in Nat
<1> DEFINE x == a * FeePercent
<1>1. x \in Nat
  BY WalletAssumption
<1>2. (x + 50) \div 100 \in Nat
  <2> HIDE DEF x
  <2> QED BY <1>1
<1> HIDE DEF x
<1>3. FeeFixed \in Nat /\ FeeMax \in Nat
  BY WalletAssumption
<1>4. Fee(a) = LET raw == (x + 50) \div 100 + FeeFixed
               IN IF FeeMax > 0 /\ FeeMax < raw THEN FeeMax ELSE raw
  BY DEF Fee, x
<1> QED BY <1>2, <1>3, <1>4

\* Posting integer lines keeps the accounts integers.
LEMMA PostType ==
  ASSUME ledger \in [Accounts -> Int], NEW lines \in [Accounts -> Int],
         Post(lines)
  PROVE  ledger' \in [Accounts -> Int]
BY DEF Post

LEMMA LinesType ==
  ASSUME NEW d, NEW c, NEW a \in Int PROVE Lines(d, c, a) \in [Accounts -> Int]
BY DEF Lines

LEMMA PaymentLinesType ==
  ASSUME req \in [Withdrawals -> Request], NEW w \in Withdrawals
  PROVE  /\ PaymentLines(w) \in [Accounts -> Int]
         /\ [a \in Accounts |-> -PaymentLines(w)[a]] \in [Accounts -> Int]
<1>1. req[w].amount \in Nat /\ req[w].fee \in Nat
  BY DEF Request
<1>2. PaymentLines(w) \in [Accounts -> Int]
  BY <1>1 DEF PaymentLines
<1> QED BY <1>2

LEMMA MoveType ==
  ASSUME balance \in [Users -> Nat], NEW u \in Users, NEW a \in Int, Move(u, a)
  PROVE  balance' \in [Users -> Nat]
BY DEF Move

LEMMA AddType ==
  ASSUME moved \in [Users -> [Kinds -> Nat]], NEW u \in Users,
         NEW k \in Kinds, NEW a \in Nat, Add(u, k, a)
  PROVE  moved' \in [Users -> [Kinds -> Nat]]
BY DEF Add

-----------------------------------------------------------------------------
(* Two frames shared by the actions.                                         *)

Rest == /\ TablesAgree /\ DualControl
        /\ \A w \in Withdrawals : RequestInv(w)
        /\ \A s \in Sessions : SessionInv(s)

\* A step that changes neither a request's tables nor a session.
LEMMA FrameRest == ASSUME Rest, UNCHANGED <<docs, tx>> PROVE Rest'
<1>1. UNCHANGED <<req, held, txn, approval, journal, tx>>
  BY DEF docs
<1>2. TablesAgree'
  BY <1>1 DEF Rest, TablesAgree, Open
<1>3. DualControl'
  BY <1>1 DEF Rest, DualControl
<1>4. \A w \in Withdrawals : RequestInv(w)'
  BY <1>1 DEF Rest, RequestInv
<1>5. \A s \in Sessions : SessionInv(s)'
  BY <1>1 DEF Rest, SessionInv, RequiresDualControl
<1> QED BY <1>2, <1>3, <1>4, <1>5 DEF Rest

\* A session begins or ends a transaction that holds no lock, or ends one.
LEMMA FrameSession ==
  ASSUME TypeOK, Rest, UNCHANGED docs, NEW s \in Sessions, NEW x \in Session,
         tx' = [tx EXCEPT ![s] = x],
         x.step = "idle" \/ (x.step = "adjust" /\ x.user \in Users)
  PROVE  Rest'
<1>1. UNCHANGED <<req, held, txn, approval, journal>>
  BY DEF docs
<1>2. TablesAgree'
  BY <1>1 DEF Rest, TablesAgree, Open
<1>3. DualControl'
  BY <1>1 DEF Rest, DualControl
<1>4. \A w \in Withdrawals : RequestInv(w)'
  BY <1>1 DEF Rest, RequestInv
<1>5. ASSUME NEW t \in Sessions PROVE SessionInv(t)'
  <2>0. tx \in [Sessions -> Session]
    BY DEF TypeOK
  <2>1. \A r \in Sessions : tx'[r] = IF r = s THEN x ELSE tx[r]
    BY <2>0
  <2>2. SessionInv(t)
    BY DEF Rest
  <2> QED BY <1>1, <2>1, <2>2 DEF SessionInv, RequiresDualControl
<1> QED BY <1>2, <1>3, <1>4, <1>5 DEF Rest

\* A step on the row of one request, taken while nobody holds it.
LEMMA FrameRequest ==
  ASSUME Rest, NEW w \in Withdrawals, UNCHANGED <<journal, tx>>,
         RequestFree(w),
         \A v \in Withdrawals \ {w} : /\ req'[v] = req[v]
                                      /\ approval'[v] = approval[v]
  PROVE  /\ \A v \in Withdrawals \ {w} : RequestInv(v) => RequestInv(v)'
         /\ \A s \in Sessions : SessionInv(s)'
<1>1. \A v \in Withdrawals \ {w} : RequestInv(v) => RequestInv(v)'
  BY DEF RequestInv
<1>2. ASSUME NEW s \in Sessions PROVE SessionInv(s)'
  <2>1. SessionInv(s)
    BY DEF Rest
  <2>2. tx[s].step \in {"pay", "return"} => tx[s].wd \in Withdrawals \ {w}
    BY <2>1 DEF RequestFree, SessionInv
  <2> QED BY <2>1, <2>2 DEF SessionInv, RequiresDualControl
<1> QED BY <1>1, <1>2

-----------------------------------------------------------------------------
(* One lemma per action that touches a request or holds a lock.              *)

LEMMA RequestBeginInv ==
  ASSUME IndInv, NEW s \in Sessions, NEW u \in Users, NEW a \in Amounts,
         RequestBegin(s, u, a)
  PROVE  IndInv'
<1> DEFINE x == OnWallet("request", u, a, 0)
<1>0. /\ tx \in [Sessions -> Session] /\ a \in Nat
      /\ UNCHANGED <<balance, req, held, txn, approval, journal, ledger, moved, day>>
  BY AmountNat DEF IndInv, TypeOK, RequestBegin, docs
<1>1. x \in Session /\ x.step = "request" /\ x.user = u /\ x.amount = a
  BY <1>0 DEF Session, OnWallet
<1>2. tx' = [tx EXCEPT ![s] = x]
  BY DEF RequestBegin
<1>3. \A t \in Sessions : tx'[t] = IF t = s THEN x ELSE tx[t]
  BY <1>0, <1>2
<1>4. TypeOK'
  BY <1>0, <1>1, <1>2 DEF IndInv, TypeOK
<1>5. TablesAgree' /\ DualControl' /\ \A w \in Withdrawals : RequestInv(w)'
  BY <1>0 DEF IndInv, TablesAgree, DualControl, RequestInv, Open
<1>6. ASSUME NEW t \in Sessions PROVE SessionInv(t)'
  <2>1. SessionInv(t) /\ WalletFree(u) /\ Fee(a) < a
    BY DEF IndInv, RequestBegin
  <2> HIDE DEF x
  <2> QED BY <1>0, <1>1, <1>3, <2>1 DEF SessionInv, RequiresDualControl, WalletFree, Fee
<1> QED BY <1>4, <1>5, <1>6 DEF IndInv

LEMMA RequestCommitInv ==
  ASSUME IndInv, NEW s \in Sessions, NEW w \in Withdrawals, RequestCommit(s, w)
  PROVE  IndInv'
<1> DEFINE u == tx[s].user
           a == tx[s].amount
           row == [status |-> "PENDING", user |-> u, amount |-> a,
                   fee |-> Fee(a), reviewedBy |-> NoAdmin, day |-> day]
<1>0. /\ tx \in [Sessions -> Session] /\ req \in [Withdrawals -> Request]
      /\ txn \in [Withdrawals -> {"none", "PENDING", "COMPLETED", "FAILED"}]
      /\ day \in Nat
      /\ UNCHANGED <<balance, approval, journal, ledger, moved, day>>
  BY WalletAssumption DEF IndInv, TypeOK, RequestCommit
<1>1. u \in Users /\ a \in Amounts /\ Fee(a) < a
  BY DEF IndInv, SessionInv, RequestCommit
<1>2. a \in Nat /\ Fee(a) \in Nat
  BY <1>1, AmountNat, FeeNat
<1>3. row \in Request
  BY <1>0, <1>1, <1>2 DEF Request, Statuses
<1>4. /\ req' = [req EXCEPT ![w] = row] /\ held' = held \cup {w}
      /\ txn' = [txn EXCEPT ![w] = "PENDING"]
      /\ tx' = [tx EXCEPT ![s] = Idle]
      /\ req[w].status = "none"
  BY DEF RequestCommit
<1>5. /\ row.status = "PENDING" /\ row.user = u /\ row.amount = a
      /\ row.fee = Fee(a)
  OBVIOUS
<1> HIDE DEF row
<1>6. /\ req'[w] = row
      /\ \A v \in Withdrawals \ {w} : req'[v] = req[v]
  BY <1>0, <1>4
<1>7. TypeOK'
  BY <1>0, <1>3, <1>4, IdleType DEF IndInv, TypeOK
<1>8. TablesAgree'
  <2> SUFFICES ASSUME NEW v \in Withdrawals
               PROVE  /\ v \in held' <=> Open(v)'
                      /\ txn'[v] = TxnOf(req'[v].status)
                      /\ journal'[v] = JournalOf(req'[v].status)
    BY DEF TablesAgree
  <2>1. /\ v \in held <=> Open(v)
        /\ txn[v] = TxnOf(req[v].status)
        /\ journal[v] = JournalOf(req[v].status)
    BY DEF IndInv, TablesAgree
  <2> QED BY <1>0, <1>4, <1>5, <1>6, <2>1 DEF Open, TxnOf, JournalOf
<1>9. DualControl'
  BY <1>0, <1>4, <1>6 DEF IndInv, DualControl, RequestInv
<1>10. ASSUME NEW v \in Withdrawals PROVE RequestInv(v)'
  <2>1. RequestInv(v)
    BY DEF IndInv
  <2> QED BY <1>0, <1>1, <1>4, <1>5, <1>6, <2>1 DEF RequestInv
<1>11. ASSUME NEW t \in Sessions PROVE SessionInv(t)'
  <2>1. SessionInv(t)
    BY DEF IndInv
  <2>2. \A r \in Sessions : tx'[r] = IF r = s THEN Idle ELSE tx[r]
    BY <1>0, <1>4
  <2>3. tx'[t].step \in {"pay", "return"} => tx'[t].wd \in Withdrawals \ {w}
    BY <1>4, <2>1, <2>2 DEF SessionInv, Idle, OnRequest
  <2> QED BY <1>0, <1>6, <2>1, <2>2, <2>3 DEF SessionInv, RequiresDualControl, Idle, OnRequest, Fee
<1> QED BY <1>7, <1>8, <1>9, <1>10, <1>11 DEF IndInv

\* cancelMyWithdrawal and reject close an open request the same way.
LEMMA CloseInv ==
  ASSUME IndInv, NEW w \in Withdrawals, NEW row \in Request,
         RequestFree(w), Open(w), Release(w),
         req' = [req EXCEPT ![w] = row],
         row.status \in {"CANCELLED", "REJECTED"}, row.user = req[w].user,
         row.amount = req[w].amount, row.fee = req[w].fee,
         UNCHANGED <<balance, approval, journal, ledger, moved, day, tx>>
  PROVE  IndInv'
<1>0. /\ req \in [Withdrawals -> Request]
      /\ txn \in [Withdrawals -> {"none", "PENDING", "COMPLETED", "FAILED"}]
  BY DEF IndInv, TypeOK
<1>1. held' = held \ {w} /\ txn' = [txn EXCEPT ![w] = "FAILED"]
  BY DEF Release
<1>2. req'[w] = row /\ \A v \in Withdrawals \ {w} : req'[v] = req[v]
  BY <1>0
<1>3. TypeOK'
  BY <1>0, <1>1 DEF IndInv, TypeOK
<1>4. TablesAgree'
  <2> SUFFICES ASSUME NEW v \in Withdrawals
               PROVE  /\ v \in held' <=> Open(v)'
                      /\ txn'[v] = TxnOf(req'[v].status)
                      /\ journal'[v] = JournalOf(req'[v].status)
    BY DEF TablesAgree
  <2>1. /\ v \in held <=> Open(v)
        /\ txn[v] = TxnOf(req[v].status)
        /\ journal[v] = JournalOf(req[v].status)
    BY DEF IndInv, TablesAgree
  <2> QED BY <1>0, <1>1, <1>2, <2>1 DEF Open, TxnOf, JournalOf
<1>5. DualControl'
  BY <1>0, <1>2 DEF IndInv, DualControl
<1>6. (\A v \in Withdrawals : RequestInv(v)') /\ \A s \in Sessions : SessionInv(s)'
  <2>1. Rest /\ RequestInv(w)
    BY DEF Rest, IndInv
  <2>2. RequestInv(w)'
    BY <1>2, <2>1 DEF RequestInv, Open
  <2>3. \A v \in Withdrawals : RequestInv(v)
    BY DEF IndInv
  <2> QED BY <1>2, <2>1, <2>2, <2>3, FrameRequest
<1> QED BY <1>3, <1>4, <1>5, <1>6 DEF IndInv

LEMMA CancelInv ==
  ASSUME IndInv, NEW w \in Withdrawals, Cancel(w)
  PROVE  IndInv'
<1>1. req[w] \in Request /\ req[w].status = "PENDING"
  BY DEF IndInv, TypeOK, Cancel
<1>2. [req[w] EXCEPT !.status = "CANCELLED"] \in Request
  BY <1>1 DEF Request, Statuses
<1>3. req' = [req EXCEPT ![w] = [req[w] EXCEPT !.status = "CANCELLED"]]
  BY DEF Cancel, IndInv, TypeOK
<1>4. RequestFree(w) /\ Open(w) /\ Release(w)
      /\ UNCHANGED <<balance, approval, journal, ledger, moved, day, tx>>
  BY <1>1 DEF Cancel, Open
<1>5. [req[w] EXCEPT !.status = "CANCELLED"].status = "CANCELLED"
  BY <1>1 DEF Request
<1>6. /\ [req[w] EXCEPT !.status = "CANCELLED"].user = req[w].user
      /\ [req[w] EXCEPT !.status = "CANCELLED"].amount = req[w].amount
      /\ [req[w] EXCEPT !.status = "CANCELLED"].fee = req[w].fee
  BY <1>1 DEF Request
<1> QED BY <1>2, <1>3, <1>4, <1>5, <1>6, CloseInv

LEMMA RejectInv ==
  ASSUME IndInv, NEW w \in Withdrawals, NEW p \in Admins, Reject(w, p)
  PROVE  IndInv'
<1> DEFINE row == [[req[w] EXCEPT !.status = "REJECTED"] EXCEPT !.reviewedBy = p]
<1>1. req[w] \in Request
  BY DEF IndInv, TypeOK
<1>2. /\ row \in Request /\ row.status = "REJECTED"
      /\ row.user = req[w].user /\ row.amount = req[w].amount
      /\ row.fee = req[w].fee
  BY <1>1 DEF Request, Statuses
<1>3. req' = [req EXCEPT ![w] = row]
  BY DEF Reject, IndInv, TypeOK
<1>4. RequestFree(w) /\ Open(w) /\ Release(w)
      /\ UNCHANGED <<balance, approval, journal, ledger, moved, day, tx>>
  BY DEF Reject
<1> HIDE DEF row
<1> QED BY <1>2, <1>3, <1>4, CloseInv

LEMMA ApproveInv ==
  ASSUME IndInv, NEW w \in Withdrawals, NEW p \in Admins, Approve(w, p)
  PROVE  IndInv'
<1> DEFINE row == [[req[w] EXCEPT !.status = "APPROVED"] EXCEPT !.reviewedBy = p]
<1>0. /\ req \in [Withdrawals -> Request] /\ req[w].status = "PENDING"
      /\ approval \in [Withdrawals -> [first: Admins \cup {NoAdmin},
                                       second: Admins \cup {NoAdmin}]]
      /\ RequestFree(w)
      /\ UNCHANGED <<balance, held, txn, journal, ledger, moved, day, tx>>
  BY DEF IndInv, TypeOK, Approve
<1>1. /\ row \in Request /\ row.status = "APPROVED" /\ row.reviewedBy = p
      /\ row.user = req[w].user /\ row.amount = req[w].amount
      /\ row.fee = req[w].fee
  BY <1>0 DEF Request, Statuses
<1>2. req' = [req EXCEPT ![w] = row]
  BY <1>0 DEF Approve
<1> HIDE DEF row
<1>3. req'[w] = row /\ \A v \in Withdrawals \ {w} : req'[v] = req[v]
  BY <1>0, <1>2
<1>4. /\ approval' \in [Withdrawals -> [first: Admins \cup {NoAdmin},
                                       second: Admins \cup {NoAdmin}]]
      /\ approval'[w].first = p /\ approval'[w].second = approval[w].second
      /\ \A v \in Withdrawals \ {w} : approval'[v] = approval[v]
  BY <1>0 DEF Approve
<1>5. TypeOK'
  BY <1>0, <1>1, <1>2, <1>4 DEF IndInv, TypeOK
<1>6. TablesAgree'
  <2> SUFFICES ASSUME NEW v \in Withdrawals
               PROVE  /\ v \in held' <=> Open(v)'
                      /\ txn'[v] = TxnOf(req'[v].status)
                      /\ journal'[v] = JournalOf(req'[v].status)
    BY DEF TablesAgree
  <2>1. /\ v \in held <=> Open(v)
        /\ txn[v] = TxnOf(req[v].status)
        /\ journal[v] = JournalOf(req[v].status)
    BY DEF IndInv, TablesAgree
  <2> QED BY <1>0, <1>1, <1>3, <2>1 DEF Open, TxnOf, JournalOf
<1>7. RequestInv(w) /\ approval[w].second = NoAdmin
  BY <1>0 DEF IndInv, RequestInv
<1>8. DualControl'
  BY <1>1, <1>3, <1>4, <1>7 DEF IndInv, DualControl
<1>9. (\A v \in Withdrawals : RequestInv(v)') /\ \A s \in Sessions : SessionInv(s)'
  <2>1. Rest /\ \A v \in Withdrawals : RequestInv(v)
    BY DEF Rest, IndInv
  <2>2. RequestInv(w)'
    BY <1>0, <1>1, <1>3, <1>4, <1>7 DEF RequestInv
  <2> QED BY <1>0, <1>3, <1>4, <2>1, <2>2, FrameRequest
<1> QED BY <1>5, <1>6, <1>8, <1>9 DEF IndInv

\* Taking the row of a request, to pay it or to mark it returned.
LEMMA LockRowInv ==
  ASSUME IndInv, NEW s \in Sessions, NEW w \in Withdrawals,
         NEW x \in Session, x.step \in {"pay", "return"}, x.wd = w,
         RequestFree(w), tx' = [tx EXCEPT ![s] = x],
         UNCHANGED <<balance, docs, ledger, moved, day>>,
         x.step = "pay" =>
           /\ req[w].status = "APPROVED" /\ x.admin \in Admins
           /\ RequiresDualControl(w) => x.admin # approval[w].first,
         x.step = "return" => req[w].status = "PROCESSED"
  PROVE  IndInv'
<1>0. /\ tx \in [Sessions -> Session]
      /\ UNCHANGED <<balance, req, held, txn, approval, journal, ledger, moved, day>>
  BY DEF IndInv, TypeOK, docs
<1>1. \A t \in Sessions : tx'[t] = IF t = s THEN x ELSE tx[t]
  BY <1>0
<1>2. TypeOK'
  BY <1>0 DEF IndInv, TypeOK
<1>3. TablesAgree' /\ DualControl' /\ \A v \in Withdrawals : RequestInv(v)'
  BY <1>0 DEF IndInv, TablesAgree, DualControl, RequestInv, Open
<1>4. ASSUME NEW t \in Sessions PROVE SessionInv(t)'
  <2>1. SessionInv(t)
    BY DEF IndInv
  <2> QED BY <1>0, <1>1, <2>1 DEF SessionInv, RequiresDualControl, RequestFree
<1> QED BY <1>2, <1>3, <1>4 DEF IndInv

LEMMA PayBeginInv ==
  ASSUME IndInv, NEW s \in Sessions, NEW w \in Withdrawals, NEW p \in Admins,
         PayBegin(s, w, p)
  PROVE  IndInv'
<1> DEFINE x == OnRequest("pay", w, p)
<1>1. x \in Session /\ x.step = "pay" /\ x.wd = w /\ x.admin = p
  BY DEF OnRequest, Session
<1>2. /\ RequestFree(w) /\ tx' = [tx EXCEPT ![s] = x]
      /\ UNCHANGED <<balance, docs, ledger, moved, day>>
      /\ req[w].status = "APPROVED"
      /\ RequiresDualControl(w) => req[w].reviewedBy # p
  BY DEF PayBegin
<1>3. req[w].reviewedBy = approval[w].first
  BY <1>2 DEF IndInv, RequestInv
<1> HIDE DEF x
<1> QED BY <1>1, <1>2, <1>3, LockRowInv

LEMMA ReturnBeginInv ==
  ASSUME IndInv, NEW s \in Sessions, NEW w \in Withdrawals, ReturnBegin(s, w)
  PROVE  IndInv'
<1> DEFINE x == OnRequest("return", w, NoAdmin)
<1>1. x \in Session /\ x.step = "return" /\ x.wd = w
  BY DEF OnRequest, Session
<1>2. /\ RequestFree(w) /\ tx' = [tx EXCEPT ![s] = x]
      /\ UNCHANGED <<balance, docs, ledger, moved, day>>
      /\ req[w].status = "PROCESSED"
  BY DEF ReturnBegin
<1> HIDE DEF x
<1> QED BY <1>1, <1>2, LockRowInv

\* A session that holds the row of request w finishes with it: the other
\* sessions hold other rows.
LEMMA OthersHoldOtherRows ==
  ASSUME IndInv, NEW s \in Sessions, tx[s].step \in {"pay", "return"},
         tx' = [tx EXCEPT ![s] = Idle],
         \A v \in Withdrawals \ {tx[s].wd} : /\ req'[v] = req[v]
                                             /\ approval'[v] = approval[v]
  PROVE  \A t \in Sessions : SessionInv(t)'
<1> SUFFICES ASSUME NEW t \in Sessions PROVE SessionInv(t)'
  OBVIOUS
<1>1. tx \in [Sessions -> Session] /\ SessionInv(s) /\ SessionInv(t)
  BY DEF IndInv, TypeOK
<1>2. \A r \in Sessions : tx'[r] = IF r = s THEN Idle ELSE tx[r]
  BY <1>1
<1>3. Idle.step = "idle"
  BY DEF Idle, OnRequest
<1>4. CASE t = s
  BY <1>1, <1>2, <1>3, <1>4 DEF SessionInv
<1>5. CASE t # s
  <2>1. tx[t].step \in {"pay", "return"} => tx[t].wd \in Withdrawals \ {tx[s].wd}
    BY <1>1, <1>5 DEF SessionInv
  <2>2. tx'[t] = tx[t]
    BY <1>2, <1>5
  <2> QED BY <1>1, <1>2, <1>3, <2>1, <2>2 DEF SessionInv, RequiresDualControl
<1> QED BY <1>4, <1>5

LEMMA PayCommitInv ==
  ASSUME IndInv, NEW s \in Sessions, PayCommit(s)
  PROVE  IndInv'
<1> DEFINE w == tx[s].wd
           row == [req[w] EXCEPT !.status = "PROCESSED"]
<1>0. /\ tx \in [Sessions -> Session] /\ req \in [Withdrawals -> Request]
      /\ balance \in [Users -> Nat] /\ ledger \in [Accounts -> Int]
      /\ txn \in [Withdrawals -> {"none", "PENDING", "COMPLETED", "FAILED"}]
      /\ journal \in [Withdrawals -> {"none", "posted", "reversed"}]
      /\ approval \in [Withdrawals -> [first: Admins \cup {NoAdmin},
                                       second: Admins \cup {NoAdmin}]]
      /\ tx[s].step = "pay" /\ UNCHANGED <<moved, day>>
  BY DEF IndInv, TypeOK, PayCommit
<1>1. /\ w \in Withdrawals /\ req[w].status = "APPROVED" /\ tx[s].admin \in Admins
      /\ RequiresDualControl(w) => tx[s].admin # approval[w].first
  BY <1>0 DEF IndInv, SessionInv
<1>2. /\ req[w].user \in Users /\ req[w].fee < req[w].amount
      /\ approval[w].first \in Admins /\ approval[w].second = NoAdmin
      /\ RequestInv(w)
  BY <1>1 DEF IndInv, RequestInv
<1>3. /\ row \in Request /\ row.status = "PROCESSED" /\ row.user = req[w].user
      /\ row.amount = req[w].amount /\ row.fee = req[w].fee
      /\ req[w].amount \in Nat
  <2>1. req[w] \in Request
    BY <1>0, <1>1
  <2> QED BY <2>1 DEF Request, Statuses
<1>4. /\ req' = [req EXCEPT ![w] = row] /\ held' = held \ {w}
      /\ txn' = [txn EXCEPT ![w] = "COMPLETED"]
      /\ journal' = [journal EXCEPT ![w] = "posted"]
      /\ approval' = [approval EXCEPT ![w].second = tx[s].admin]
      /\ tx' = [tx EXCEPT ![s] = Idle]
      /\ Post(PaymentLines(w)) /\ Move(req[w].user, -req[w].amount)
  BY DEF PayCommit
<1> HIDE DEF row, w
<1>5. req'[w] = row /\ \A v \in Withdrawals \ {w} : req'[v] = req[v]
  BY <1>0, <1>1, <1>4
<1>6. /\ approval' \in [Withdrawals -> [first: Admins \cup {NoAdmin},
                                       second: Admins \cup {NoAdmin}]]
      /\ approval'[w].first = approval[w].first
      /\ approval'[w].second = tx[s].admin
      /\ \A v \in Withdrawals \ {w} : approval'[v] = approval[v]
  BY <1>0, <1>1, <1>4
<1>7. TypeOK'
  <2>1. balance' \in [Users -> Nat]
    BY <1>0, <1>2, <1>3, <1>4, MoveType
  <2>2. ledger' \in [Accounts -> Int]
    BY <1>0, <1>1, <1>4, PaymentLinesType, PostType
  <2>3. req' \in [Withdrawals -> Request] /\ tx' \in [Sessions -> Session]
    BY <1>0, <1>3, <1>4, IdleType
  <2>4. /\ txn' \in [Withdrawals -> {"none", "PENDING", "COMPLETED", "FAILED"}]
        /\ journal' \in [Withdrawals -> {"none", "posted", "reversed"}]
    BY <1>0, <1>4
  <2> QED BY <1>0, <1>4, <1>6, <2>1, <2>2, <2>3, <2>4 DEF IndInv, TypeOK
<1>8. TablesAgree'
  <2> SUFFICES ASSUME NEW v \in Withdrawals
               PROVE  /\ v \in held' <=> Open(v)'
                      /\ txn'[v] = TxnOf(req'[v].status)
                      /\ journal'[v] = JournalOf(req'[v].status)
    BY DEF TablesAgree
  <2>1. /\ v \in held <=> Open(v)
        /\ txn[v] = TxnOf(req[v].status)
        /\ journal[v] = JournalOf(req[v].status)
    BY DEF IndInv, TablesAgree
  <2> QED BY <1>0, <1>1, <1>3, <1>4, <1>5, <2>1 DEF Open, TxnOf, JournalOf
<1>9. DualControl'
  BY <1>1, <1>2, <1>3, <1>5, <1>6, WalletAssumption
  DEF IndInv, DualControl, RequiresDualControl
<1>10. ASSUME NEW v \in Withdrawals PROVE RequestInv(v)'
  <2>1. RequestInv(v)
    BY DEF IndInv
  <2> QED BY <1>1, <1>2, <1>3, <1>5, <1>6, <2>1, WalletAssumption DEF RequestInv
<1>11. \A t \in Sessions : SessionInv(t)'
  BY <1>0, <1>4, <1>5, <1>6, OthersHoldOtherRows DEF w
<1> QED BY <1>7, <1>8, <1>9, <1>10, <1>11 DEF IndInv

LEMMA ReturnCommitInv ==
  ASSUME IndInv, NEW s \in Sessions, ReturnCommit(s)
  PROVE  IndInv'
<1> DEFINE w == tx[s].wd
           row == [req[w] EXCEPT !.status = "RETURNED"]
<1>0. /\ tx \in [Sessions -> Session] /\ req \in [Withdrawals -> Request]
      /\ balance \in [Users -> Nat] /\ ledger \in [Accounts -> Int]
      /\ journal \in [Withdrawals -> {"none", "posted", "reversed"}]
      /\ moved \in [Users -> [Kinds -> Nat]]
      /\ tx[s].step = "return" /\ UNCHANGED <<held, txn, approval, day>>
  BY DEF IndInv, TypeOK, ReturnCommit
<1>1. w \in Withdrawals /\ req[w].status = "PROCESSED"
  BY <1>0 DEF IndInv, SessionInv
<1>2. req[w].user \in Users /\ req[w].fee < req[w].amount /\ RequestInv(w)
  BY <1>1 DEF IndInv, RequestInv
<1>3. /\ row \in Request /\ row.status = "RETURNED" /\ row.user = req[w].user
      /\ row.amount = req[w].amount /\ row.fee = req[w].fee
      /\ req[w].amount \in Nat
  <2>1. req[w] \in Request
    BY <1>0, <1>1
  <2> QED BY <2>1 DEF Request, Statuses
<1>4. /\ req' = [req EXCEPT ![w] = row]
      /\ journal' = [journal EXCEPT ![w] = "reversed"]
      /\ moved' = [moved EXCEPT ![req[w].user]["REFUND"] = @ + req[w].amount]
      /\ tx' = [tx EXCEPT ![s] = Idle]
      /\ Post([a \in Accounts |-> -PaymentLines(w)[a]])
      /\ Move(req[w].user, req[w].amount)
  BY DEF ReturnCommit
<1> HIDE DEF row, w
<1>5. req'[w] = row /\ \A v \in Withdrawals \ {w} : req'[v] = req[v]
  BY <1>0, <1>1, <1>4
<1>6. TypeOK'
  <2>1. balance' \in [Users -> Nat]
    BY <1>0, <1>2, <1>3, <1>4, MoveType
  <2>2. ledger' \in [Accounts -> Int]
    BY <1>0, <1>1, <1>4, PaymentLinesType, PostType
  <2>3. req' \in [Withdrawals -> Request] /\ tx' \in [Sessions -> Session]
    BY <1>0, <1>3, <1>4, IdleType
  <2>4. moved' \in [Users -> [Kinds -> Nat]]
    BY <1>0, <1>2, <1>3, <1>4 DEF Kinds
  <2>5. journal' \in [Withdrawals -> {"none", "posted", "reversed"}]
    BY <1>0, <1>4
  <2> QED BY <1>0, <2>1, <2>2, <2>3, <2>4, <2>5 DEF IndInv, TypeOK
<1>7. TablesAgree'
  <2> SUFFICES ASSUME NEW v \in Withdrawals
               PROVE  /\ v \in held' <=> Open(v)'
                      /\ txn'[v] = TxnOf(req'[v].status)
                      /\ journal'[v] = JournalOf(req'[v].status)
    BY DEF TablesAgree
  <2>1. /\ v \in held <=> Open(v)
        /\ txn[v] = TxnOf(req[v].status)
        /\ journal[v] = JournalOf(req[v].status)
    BY DEF IndInv, TablesAgree
  <2> QED BY <1>0, <1>1, <1>3, <1>4, <1>5, <2>1 DEF Open, TxnOf, JournalOf
<1>8. DualControl'
  BY <1>0, <1>3, <1>5 DEF IndInv, DualControl
<1>9. ASSUME NEW v \in Withdrawals PROVE RequestInv(v)'
  <2>1. RequestInv(v)
    BY DEF IndInv
  <2> QED BY <1>0, <1>1, <1>2, <1>3, <1>5, <2>1 DEF RequestInv
<1>10. \A t \in Sessions : SessionInv(t)'
  BY <1>0, <1>4, <1>5, OthersHoldOtherRows DEF w
<1> QED BY <1>6, <1>7, <1>8, <1>9, <1>10 DEF IndInv

-----------------------------------------------------------------------------
(* The other writers of the balance.                                         *)

\* They move money of one wallet, post two lines and touch no request.
LEMMA WriterInv ==
  ASSUME IndInv, NEW u \in Users, NEW a \in Int, Move(u, a),
         NEW lines \in [Accounts -> Int], Post(lines),
         NEW k \in Kinds, NEW m \in Nat, Add(u, k, m),
         UNCHANGED <<docs, day>>,
         tx' = tx \/ \E s \in Sessions : tx' = [tx EXCEPT ![s] = Idle]
  PROVE  IndInv'
<1>1. Rest /\ TypeOK /\ tx \in [Sessions -> Session]
  BY DEF Rest, IndInv, TypeOK
<1>2. TypeOK'
  <2>1. /\ balance' \in [Users -> Nat] /\ ledger' \in [Accounts -> Int]
        /\ moved' \in [Users -> [Kinds -> Nat]]
    BY MoveType, PostType, AddType DEF IndInv, TypeOK
  <2>2. tx' \in [Sessions -> Session]
    BY <1>1, IdleType
  <2> QED BY <1>1, <2>1, <2>2 DEF TypeOK, docs
<1>3. Rest'
  <2>1. CASE tx' = tx
    BY <1>1, <2>1, FrameRest
  <2>2. CASE \E s \in Sessions : tx' = [tx EXCEPT ![s] = Idle]
    <3>1. Idle.step = "idle"
      BY DEF Idle, OnRequest
    <3> QED BY <1>1, <2>2, <3>1, IdleType, FrameSession
  <2> QED BY <2>1, <2>2
<1> QED BY <1>2, <1>3 DEF IndInv, Rest

LEMMA AdjustBeginInv ==
  ASSUME IndInv, NEW s \in Sessions, NEW u \in Users, NEW a \in Int,
         AdjustBegin(s, u, a)
  PROVE  IndInv'
<1> DEFINE x == OnWallet("adjust", u, a, balance[u])
<1>1. Rest /\ TypeOK /\ tx \in [Sessions -> Session] /\ balance[u] \in Nat
  BY DEF Rest, IndInv, TypeOK
<1>2. x \in Session /\ x.step = "adjust" /\ x.user = u
  BY <1>1 DEF OnWallet, Session
<1>3. /\ tx' = [tx EXCEPT ![s] = x]
      /\ UNCHANGED docs /\ UNCHANGED <<balance, ledger, moved, day>>
  BY DEF AdjustBegin
<1> HIDE DEF x
<1>4. TypeOK'
  BY <1>1, <1>2, <1>3 DEF TypeOK, docs
<1>5. Rest'
  BY <1>1, <1>2, <1>3, FrameSession
<1> QED BY <1>4, <1>5 DEF IndInv, Rest

LEMMA AdjustCommitInv ==
  ASSUME IndInv, NEW s \in Sessions, AdjustCommit(s)
  PROVE  IndInv'
<1>1. tx[s] \in Session /\ SessionInv(s) /\ tx[s].step = "adjust"
  BY DEF IndInv, TypeOK, AdjustCommit
<1>2. tx[s].user \in Users /\ tx[s].amount \in Int
  BY <1>1 DEF SessionInv, Session
<1>3. /\ Move(tx[s].user, tx[s].amount)
      /\ Post(Lines("1010", "2010", tx[s].amount))
      /\ UNCHANGED <<docs, day>> /\ tx' = [tx EXCEPT ![s] = Idle]
  BY DEF AdjustCommit
<1>4. Lines("1010", "2010", tx[s].amount) \in [Accounts -> Int]
  BY <1>2, LinesType
<1>5. CASE tx[s].amount > 0
  <2>1. Add(tx[s].user, "ADDED", tx[s].amount) /\ tx[s].amount \in Nat
    BY <1>2, <1>5 DEF AdjustCommit
  <2> QED BY <1>2, <1>3, <1>4, <2>1, WriterInv DEF Kinds
<1>6. CASE ~(tx[s].amount > 0)
  <2>1. Add(tx[s].user, "DEDUCTED", -tx[s].amount) /\ -tx[s].amount \in Nat
    BY <1>2, <1>6 DEF AdjustCommit
  <2> QED BY <1>2, <1>3, <1>4, <2>1, WriterInv DEF Kinds
<1> QED BY <1>5, <1>6

LEMMA LegInv ==
  ASSUME IndInv, NEW u \in Users, NEW a \in Moves,
         BuyGold(u, a) \/ SellGold(u, a) \/ ShopCapture(u, a)
  PROVE  IndInv'
<1>1. a \in Nat /\ a \in Int /\ -a \in Int
  BY WalletAssumption
<1>2. /\ Lines("2010", "trade", a) \in [Accounts -> Int]
      /\ Lines("trade", "2010", a) \in [Accounts -> Int]
      /\ Lines("2010", "sales", a) \in [Accounts -> Int]
  BY <1>1, LinesType
<1>3. {"BUY_GOLD", "SELL_GOLD", "SHOP_PURCHASE"} \subseteq Kinds
  BY DEF Kinds
<1>4. CASE BuyGold(u, a)
  <2>1. /\ Move(u, -a) /\ Add(u, "BUY_GOLD", a) /\ Post(Lines("2010", "trade", a))
        /\ UNCHANGED <<docs, day>> /\ tx' = tx
    BY <1>4 DEF BuyGold
  <2> QED BY <1>1, <1>2, <1>3, <2>1, WriterInv
<1>5. CASE SellGold(u, a)
  <2>1. /\ Move(u, a) /\ Add(u, "SELL_GOLD", a) /\ Post(Lines("trade", "2010", a))
        /\ UNCHANGED <<docs, day>> /\ tx' = tx
    BY <1>5 DEF SellGold
  <2> QED BY <1>1, <1>2, <1>3, <2>1, WriterInv
<1>6. CASE ShopCapture(u, a)
  <2>1. /\ Move(u, -a) /\ Add(u, "SHOP_PURCHASE", a)
        /\ Post(Lines("2010", "sales", a))
        /\ UNCHANGED <<docs, day>> /\ tx' = tx
    BY <1>6 DEF ShopCapture
  <2> QED BY <1>1, <1>2, <1>3, <2>1, WriterInv
<1> QED BY <1>4, <1>5, <1>6

LEMMA AbortInv ==
  ASSUME IndInv, NEW s \in Sessions, Abort(s) PROVE IndInv'
<1>1. Rest /\ TypeOK /\ tx \in [Sessions -> Session]
  BY DEF Rest, IndInv, TypeOK
<1>2. /\ tx' = [tx EXCEPT ![s] = Idle] /\ UNCHANGED docs
      /\ UNCHANGED <<balance, ledger, moved, day>>
  BY DEF Abort
<1>3. TypeOK'
  BY <1>1, <1>2, IdleType DEF TypeOK, docs
<1>4. Idle.step = "idle"
  BY DEF Idle, OnRequest
<1>5. Rest'
  BY <1>1, <1>2, <1>4, IdleType, FrameSession
<1> QED BY <1>3, <1>5 DEF IndInv, Rest

LEMMA QuietInv == ASSUME IndInv, Midnight \/ UNCHANGED vars PROVE IndInv'
<1>1. Rest /\ TypeOK
  BY DEF Rest, IndInv
<1>2. UNCHANGED <<docs, tx>> /\ UNCHANGED <<balance, ledger, moved>> /\ day' \in Days
  BY <1>1 DEF Midnight, vars, docs, TypeOK
<1>3. TypeOK'
  BY <1>1, <1>2 DEF TypeOK, docs
<1>4. Rest'
  BY <1>1, <1>2, FrameRest
<1> QED BY <1>3, <1>4 DEF IndInv, Rest

-----------------------------------------------------------------------------
(* The inductive invariant.                                                  *)

LEMMA InitInv == Init => IndInv
<1> SUFFICES ASSUME Init PROVE IndInv
  OBVIOUS
<1>1. Opening * Cardinality(Users) \in Int
  <2>1. Cardinality(Users) \in Nat
    BY WalletAssumption, FS_CardinalityType
  <2> QED BY <2>1, WalletAssumption
<1>2. TypeOK
  <2>1. ledger \in [Accounts -> Int]
    <3> DEFINE all == Opening * Cardinality(Users)
    <3>1. ledger = [a \in Accounts |-> CASE a = "2010" -> all
                                         [] a = "1010" -> -all
                                         [] OTHER -> 0]
      BY DEF Init
    <3> HIDE DEF all
    <3>2. all \in Int
      BY <1>1 DEF all
    <3> QED BY <3>1, <3>2
  <2>2. /\ req \in [Withdrawals -> Request] /\ tx \in [Sessions -> Session]
    BY NoRowType, IdleType DEF Init
  <2> QED BY <2>1, <2>2, WalletAssumption DEF Init, TypeOK
<1>3. TablesAgree /\ DualControl
  BY DEF Init, TablesAgree, DualControl, Open, NoRow, TxnOf, JournalOf
<1>4. \A w \in Withdrawals : RequestInv(w)
  BY DEF Init, RequestInv, NoRow
<1>5. \A s \in Sessions : SessionInv(s)
  BY DEF Init, SessionInv, Idle, OnRequest
<1> QED BY <1>2, <1>3, <1>4, <1>5 DEF IndInv

LEMMA StepInv == IndInv /\ [Next]_vars => IndInv'
<1> SUFFICES ASSUME IndInv, [Next]_vars PROVE IndInv'
  OBVIOUS
<1>1. ASSUME NEW s \in Sessions, NEW u \in Users, NEW a \in Amounts,
             RequestBegin(s, u, a)
      PROVE  IndInv'
  BY <1>1, RequestBeginInv
<1>2. ASSUME NEW s \in Sessions, NEW w \in Withdrawals,
             RequestCommit(s, w) \/ (\E p \in Admins : PayBegin(s, w, p))
               \/ ReturnBegin(s, w)
      PROVE  IndInv'
  BY <1>2, RequestCommitInv, PayBeginInv, ReturnBeginInv
<1>3. ASSUME NEW s \in Sessions,
             PayCommit(s) \/ ReturnCommit(s) \/ AdjustCommit(s) \/ Abort(s)
      PROVE  IndInv'
  BY <1>3, PayCommitInv, ReturnCommitInv, AdjustCommitInv, AbortInv
<1>4. ASSUME NEW s \in Sessions, NEW u \in Users, NEW a \in Moves,
             AdjustBegin(s, u, a) \/ AdjustBegin(s, u, -a)
      PROVE  IndInv'
  <2>1. a \in Int /\ -a \in Int
    BY WalletAssumption
  <2> QED BY <1>4, <2>1, AdjustBeginInv
<1>5. ASSUME NEW w \in Withdrawals,
             Cancel(w) \/ \E p \in Admins : Approve(w, p) \/ Reject(w, p)
      PROVE  IndInv'
  BY <1>5, CancelInv, ApproveInv, RejectInv
<1>6. ASSUME NEW u \in Users, NEW a \in Moves,
             BuyGold(u, a) \/ SellGold(u, a) \/ ShopCapture(u, a)
      PROVE  IndInv'
  BY <1>6, LegInv
<1>7. CASE Midnight \/ UNCHANGED vars
  BY <1>7, QuietInv
<1> QED BY <1>1, <1>2, <1>3, <1>4, <1>5, <1>6, <1>7 DEF Next

\* The invariant behind the results below holds in every reachable state of
\* the withdrawal flow, whatever the sessions do.
THEOREM WalletInvariance == Spec => []IndInv
BY InitInv, StepInv, PTL DEF Spec

\* Every table keeps its type; no balance is ever negative, although
\* adjustBalance checks one it read before it locked the wallet.
THEOREM WalletTypes == Spec => []TypeOK
<1>1. IndInv => TypeOK
  BY DEF IndInv
<1> QED BY <1>1, WalletInvariance, PTL

\* The request, its hold, its transaction and its journal entry never disagree.
THEOREM TablesNeverDisagree == Spec => []TablesAgree
<1>1. IndInv => TablesAgree
  BY DEF IndInv
<1> QED BY <1>1, WalletInvariance, PTL

\* Nobody both approves and pays a withdrawal of the threshold or more.
THEOREM DutiesSeparated == Spec => []DualControl
<1>1. IndInv => DualControl
  BY DEF IndInv
<1> QED BY <1>1, WalletInvariance, PTL

\* Cancelled, rejected and returned requests never change again, and a paid one
\* can only be returned.
THEOREM DecisionsNeverUndone == Spec => DecisionsStand
<1> DEFINE Stands == \A w \in Withdrawals :
                       /\ req[w].status \in Decided => req'[w] = req[w]
                       /\ req[w].status = "PROCESSED" =>
                            req'[w].status \in {"PROCESSED", "RETURNED"}
<1>1. IndInv /\ [Next]_vars => [Stands]_vars
  <2> SUFFICES ASSUME IndInv, Next, NEW w \in Withdrawals
               PROVE  /\ req[w].status \in Decided => req'[w] = req[w]
                      /\ req[w].status = "PROCESSED" =>
                           req'[w].status \in {"PROCESSED", "RETURNED"}
    OBVIOUS
  <2>0. req \in [Withdrawals -> Request] /\ \A s \in Sessions : SessionInv(s)
    BY DEF IndInv, TypeOK
  <2>1. CASE UNCHANGED req
    BY <2>1
  <2>2. ASSUME NEW s \in Sessions, NEW v \in Withdrawals, RequestCommit(s, v)
        PROVE  req'[w] = req[w] \/ req[w].status = "none"
    BY <2>0, <2>2 DEF RequestCommit
  <2>3. ASSUME NEW s \in Sessions, PayCommit(s)
        PROVE  req'[w] = req[w] \/ req[w].status = "APPROVED"
    BY <2>0, <2>3 DEF PayCommit, SessionInv
  <2>4. ASSUME NEW s \in Sessions, ReturnCommit(s)
        PROVE  \/ req'[w] = req[w]
               \/ req[w].status = "PROCESSED" /\ req'[w].status = "RETURNED"
    <3>1. tx[s].wd \in Withdrawals /\ req[tx[s].wd].status = "PROCESSED"
      BY <2>0, <2>4 DEF ReturnCommit, SessionInv
    <3>2. req' = [req EXCEPT ![tx[s].wd].status = "RETURNED"]
      BY <2>4 DEF ReturnCommit
    <3>3. CASE w = tx[s].wd
      BY <2>0, <3>1, <3>2, <3>3 DEF Request
    <3>4. CASE w # tx[s].wd
      BY <2>0, <3>2, <3>4
    <3> QED BY <3>3, <3>4
  <2>5. ASSUME NEW v \in Withdrawals,
               Cancel(v) \/ \E p \in Admins : Approve(v, p) \/ Reject(v, p)
        PROVE  req'[w] = req[w] \/ req[w].status \in {"PENDING", "APPROVED"}
    BY <2>0, <2>5 DEF Cancel, Approve, Reject, Open
  <2>6. \/ UNCHANGED req
        \/ \E s \in Sessions, v \in Withdrawals : RequestCommit(s, v)
        \/ \E s \in Sessions : PayCommit(s) \/ ReturnCommit(s)
        \/ \E v \in Withdrawals :
             Cancel(v) \/ \E p \in Admins : Approve(v, p) \/ Reject(v, p)
    BY DEF Next, RequestBegin, PayBegin, ReturnBegin, AdjustBegin, AdjustCommit,
           Abort, BuyGold, SellGold, ShopCapture, Midnight, docs
  <2> QED BY <2>1, <2>2, <2>3, <2>4, <2>5, <2>6 DEF Decided
<1> QED BY <1>1, WalletInvariance, PTL DEF Spec, DecisionsStand


-----------------------------------------------------------------------------
(* Sums over requests when the row of one changes.                           *)

\* What a request may be counted in: its row, its transaction, its hold
Tables == /\ req \in [Withdrawals -> Request] /\ req' \in [Withdrawals -> Request]
          /\ txn \in [Withdrawals -> {"none", "PENDING", "COMPLETED", "FAILED"}]
          /\ txn' \in [Withdrawals -> {"none", "PENDING", "COMPLETED", "FAILED"}]
          /\ held \subseteq Withdrawals /\ held' \subseteq Withdrawals

RowStep(w) ==
  /\ Tables
  /\ \A v \in Withdrawals \ {w} : /\ req'[v] = req[v] /\ txn'[v] = txn[v]
                                  /\ v \in held' <=> v \in held

\* The amount of a request as far as it is in a set
Part(w, S) == IF w \in S THEN req[w].amount ELSE 0

LEMMA AmountsNat ==
  ASSUME req \in [Withdrawals -> Request], NEW S, S \subseteq Withdrawals
  PROVE  /\ IsFiniteSet(S) /\ \A w \in Withdrawals : AmountOf[w] = req[w].amount
         /\ \A w \in S : AmountOf[w] \in Nat /\ req[w].amount \in Nat
         /\ SumAmount(S) \in Nat
<1>1. IsFiniteSet(S)
  BY WalletAssumption, FS_Subset
<1>2. \A w \in Withdrawals : AmountOf[w] = req[w].amount /\ req[w].amount \in Nat
  BY DEF AmountOf, Request
<1> QED BY <1>1, <1>2, SumType DEF SumAmount

\* The sum over a set that gains or loses the request, or keeps it
LEMMA OneRow ==
  ASSUME NEW w \in Withdrawals, RowStep(w),
         NEW S, NEW T, S \subseteq Withdrawals, T \subseteq Withdrawals,
         S \ {w} = T \ {w}
  PROVE  SumFunctionOnSet(AmountOf', T)
           = SumAmount(S) + (IF w \in T THEN req'[w].amount ELSE 0) - Part(w, S)
<1> DEFINE f == AmountOf
           g == AmountOf'
<1>1. f = [v \in Withdrawals |-> req[v].amount]
  BY DEF AmountOf
<1>2. g = [v \in Withdrawals |-> req'[v].amount]
  BY DEF AmountOf
<1> HIDE DEF f, g
<1>3. \A v \in Withdrawals : req[v].amount \in Nat /\ req'[v].amount \in Nat
  BY DEF RowStep, Tables, Request
<1>4. (\A v \in S : f[v] \in Int) /\ (\A v \in T : g[v] \in Int)
  BY <1>1, <1>2, <1>3
<1>5. Agree(f, g, S \ {w})
  BY <1>1, <1>2 DEF Agree, RowStep
<1>6. IsFiniteSet(S) /\ IsFiniteSet(T)
  BY WalletAssumption, FS_Subset
<1>7. SumFunctionOnSet(g, T) = SumFunctionOnSet(f, S)
        + (IF w \in T THEN g[w] ELSE 0) - (IF w \in S THEN f[w] ELSE 0)
  BY <1>4, <1>5, <1>6, SumStep
<1>8. f[w] = req[w].amount /\ g[w] = req'[w].amount
  BY <1>1, <1>2
<1>9. SumFunctionOnSet(g, T) = SumFunctionOnSet(AmountOf', T)
  BY DEF g
<1>10. SumFunctionOnSet(f, S) = SumAmount(S)
  BY DEF f, SumAmount
<1> QED BY <1>7, <1>8, <1>9, <1>10 DEF Part

\* What the row of one request does to every sum that the code computes
LEMMA RowSums ==
  ASSUME NEW w \in Withdrawals, RowStep(w), NEW u
  PROVE  /\ HeldRial(u)' = HeldRial(u) + Part(w, Own(u) \cap held)'
                             - Part(w, Own(u) \cap held)
         /\ SumAmount(Counted(u))' = SumAmount(Counted(u))
                             + Part(w, Counted(u))' - Part(w, Counted(u))
         /\ SumAmount(Completed(u))' = SumAmount(Completed(u))
                             + Part(w, Completed(u))' - Part(w, Completed(u))
         /\ SumAmount(Paid)' = SumAmount(Paid) + Part(w, Paid)' - Part(w, Paid)
<1>1. /\ Own(u) \subseteq Withdrawals /\ Own(u)' \subseteq Withdrawals
      /\ Own(u) \ {w} = Own(u)' \ {w}
  BY DEF Own, RowStep
<1>2. /\ Own(u) \cap held \subseteq Withdrawals
      /\ (Own(u) \cap held)' \subseteq Withdrawals
      /\ (Own(u) \cap held) \ {w} = (Own(u) \cap held)' \ {w}
  BY <1>1 DEF RowStep, Tables
<1>3. /\ Counted(u) \subseteq Withdrawals /\ Counted(u)' \subseteq Withdrawals
      /\ Counted(u) \ {w} = Counted(u)' \ {w}
  BY <1>1 DEF Counted, RowStep
<1>4. /\ Completed(u) \subseteq Withdrawals /\ Completed(u)' \subseteq Withdrawals
      /\ Completed(u) \ {w} = Completed(u)' \ {w}
  BY <1>1 DEF Completed, RowStep
<1>5. /\ Paid \subseteq Withdrawals /\ Paid' \subseteq Withdrawals
      /\ Paid \ {w} = Paid' \ {w}
  BY DEF Paid, RowStep
<1>6. HeldRial(u)' = HeldRial(u) + Part(w, Own(u) \cap held)'
                       - Part(w, Own(u) \cap held)
  BY <1>2, OneRow DEF HeldRial, SumAmount, Part
<1>7. SumAmount(Counted(u))' = SumAmount(Counted(u))
                       + Part(w, Counted(u))' - Part(w, Counted(u))
  BY <1>3, OneRow DEF SumAmount, Part
<1>8. SumAmount(Completed(u))' = SumAmount(Completed(u))
                       + Part(w, Completed(u))' - Part(w, Completed(u))
  BY <1>4, OneRow DEF SumAmount, Part
<1>9. SumAmount(Paid)' = SumAmount(Paid) + Part(w, Paid)' - Part(w, Paid)
  BY <1>5, OneRow DEF SumAmount, Part
<1> QED BY <1>6, <1>7, <1>8, <1>9

-----------------------------------------------------------------------------
(* What each action does to the row of its request.                          *)

\* Whose it is, how much and since when stays.
SameRequest(w) ==
  /\ req'[w].user = req[w].user /\ req'[w].amount = req[w].amount
  /\ req'[w].fee = req[w].fee /\ req'[w].day = req[w].day

LEMMA TablesOf == ASSUME IndInv, IndInv' PROVE Tables
BY DEF IndInv, TypeOK, Tables

LEMMA RequestRow ==
  ASSUME IndInv, IndInv', NEW s \in Sessions, NEW w \in Withdrawals,
         RequestCommit(s, w)
  PROVE  /\ RowStep(w)
         /\ req[w].status = "none" /\ txn[w] = "none" /\ w \notin held
         /\ req'[w].status = "PENDING" /\ txn'[w] = "PENDING" /\ w \in held'
         /\ req'[w].user = tx[s].user /\ req'[w].amount = tx[s].amount
         /\ req'[w].day = day /\ tx[s].user \in Users /\ tx[s].amount \in Nat
<1>0. Tables
  BY TablesOf
<1>1. req[w].status = "none" /\ txn[w] = "none" /\ w \notin held
  BY DEF RequestCommit, IndInv, TablesAgree, TxnOf, Open
<1>2. tx[s].user \in Users /\ tx[s].amount \in Nat
  BY AmountNat DEF RequestCommit, IndInv, SessionInv
<1>3. /\ req' = [req EXCEPT ![w] = [status |-> "PENDING", user |-> tx[s].user,
                     amount |-> tx[s].amount, fee |-> Fee(tx[s].amount),
                     reviewedBy |-> NoAdmin, day |-> day]]
      /\ held' = held \cup {w} /\ txn' = [txn EXCEPT ![w] = "PENDING"]
  BY DEF RequestCommit
<1>4. RowStep(w)
  BY <1>0, <1>3 DEF RowStep, Tables
<1> QED BY <1>0, <1>1, <1>2, <1>3, <1>4 DEF Tables

LEMMA RejectedRow ==
  ASSUME Tables, NEW w \in Withdrawals, NEW p \in Admins, Reject(w, p)
  PROVE  /\ \A v \in Withdrawals \ {w} : req'[v] = req[v]
         /\ SameRequest(w) /\ req'[w].status \in {"CANCELLED", "REJECTED"}
<1> DEFINE row == [[req[w] EXCEPT !.status = "REJECTED"] EXCEPT !.reviewedBy = p]
<1>1. req[w] \in Request /\ req \in [Withdrawals -> Request]
  BY DEF Tables
<1>2. /\ row.status = "REJECTED" /\ row.user = req[w].user
      /\ row.amount = req[w].amount /\ row.fee = req[w].fee
      /\ row.day = req[w].day
  BY <1>1 DEF Request
<1>3. req' = [req EXCEPT ![w] = row]
  BY <1>1 DEF Reject
<1> HIDE DEF row
<1> QED BY <1>1, <1>2, <1>3 DEF SameRequest

LEMMA CloseRow ==
  ASSUME IndInv, IndInv', NEW w \in Withdrawals,
         Cancel(w) \/ \E p \in Admins : Reject(w, p)
  PROVE  /\ RowStep(w) /\ SameRequest(w)
         /\ Open(w) /\ txn[w] = "PENDING" /\ w \in held
         /\ req'[w].status \in {"CANCELLED", "REJECTED"}
         /\ txn'[w] = "FAILED" /\ w \notin held'
<1>0. Tables
  BY TablesOf
<1>1. Open(w) /\ txn[w] = "PENDING" /\ w \in held
  BY DEF Cancel, Reject, IndInv, TablesAgree, TxnOf, Open
<1>2. held' = held \ {w} /\ txn' = [txn EXCEPT ![w] = "FAILED"]
  BY DEF Cancel, Reject, Release
<1>3. /\ \A v \in Withdrawals \ {w} : req'[v] = req[v]
      /\ SameRequest(w) /\ req'[w].status \in {"CANCELLED", "REJECTED"}
  <2>1. CASE Cancel(w)
    BY <1>0, <2>1 DEF Cancel, Tables, Request, SameRequest
  <2>2. CASE \E p \in Admins : Reject(w, p)
    BY <1>0, <2>2, RejectedRow
  <2> QED BY <2>1, <2>2
<1>4. RowStep(w)
  BY <1>0, <1>2, <1>3 DEF RowStep, Tables
<1> QED BY <1>0, <1>1, <1>2, <1>3, <1>4 DEF Tables

LEMMA ApproveRow ==
  ASSUME IndInv, IndInv', NEW w \in Withdrawals, NEW p \in Admins, Approve(w, p)
  PROVE  /\ RowStep(w) /\ SameRequest(w) /\ UNCHANGED <<txn, held>>
         /\ txn[w] = "PENDING"
         /\ req[w].status = "PENDING" /\ req'[w].status = "APPROVED"
<1>0. Tables
  BY TablesOf
<1>1. txn[w] = "PENDING" /\ req[w].status = "PENDING" /\ UNCHANGED <<txn, held>>
  BY DEF Approve, IndInv, TablesAgree, TxnOf
<1>2. /\ \A v \in Withdrawals \ {w} : req'[v] = req[v]
      /\ SameRequest(w) /\ req'[w].status = "APPROVED"
  <2> DEFINE row == [[req[w] EXCEPT !.status = "APPROVED"] EXCEPT !.reviewedBy = p]
  <2>1. req[w] \in Request /\ req \in [Withdrawals -> Request]
    BY <1>0 DEF Tables
  <2>2. /\ row.status = "APPROVED" /\ row.user = req[w].user
        /\ row.amount = req[w].amount /\ row.fee = req[w].fee
        /\ row.day = req[w].day
    BY <2>1 DEF Request
  <2>3. req' = [req EXCEPT ![w] = row]
    BY <2>1 DEF Approve
  <2> HIDE DEF row
  <2> QED BY <2>1, <2>2, <2>3 DEF SameRequest
<1> QED BY <1>0, <1>1, <1>2 DEF RowStep

LEMMA PayRow ==
  ASSUME IndInv, IndInv', NEW s \in Sessions, PayCommit(s)
  PROVE  LET w == tx[s].wd IN
         /\ w \in Withdrawals /\ req[w].user \in Users
         /\ RowStep(w) /\ SameRequest(w)
         /\ req[w].status = "APPROVED" /\ txn[w] = "PENDING" /\ w \in held
         /\ req'[w].status = "PROCESSED" /\ txn'[w] = "COMPLETED"
         /\ w \notin held'
<1> DEFINE w == tx[s].wd
<1>0. Tables
  BY TablesOf
<1>1. w \in Withdrawals /\ req[w].status = "APPROVED"
  BY DEF PayCommit, IndInv, SessionInv
<1>2. txn[w] = "PENDING" /\ w \in held /\ req[w].user \in Users
  BY <1>1 DEF IndInv, TablesAgree, TxnOf, Open, RequestInv
<1>3. /\ held' = held \ {w} /\ txn' = [txn EXCEPT ![w] = "COMPLETED"]
      /\ req' = [req EXCEPT ![w].status = "PROCESSED"]
  BY DEF PayCommit
<1> HIDE DEF w
<1>4. /\ \A v \in Withdrawals \ {w} : req'[v] = req[v]
      /\ SameRequest(w) /\ req'[w].status = "PROCESSED"
  BY <1>0, <1>1, <1>3 DEF Tables, Request, SameRequest
<1>5. RowStep(w)
  BY <1>0, <1>3, <1>4 DEF RowStep, Tables
<1>6. txn'[w] = "COMPLETED" /\ w \notin held'
  BY <1>0, <1>1, <1>3 DEF Tables
<1> QED BY <1>1, <1>2, <1>4, <1>5, <1>6 DEF w

LEMMA ReturnRow ==
  ASSUME IndInv, IndInv', NEW s \in Sessions, ReturnCommit(s)
  PROVE  LET w == tx[s].wd IN
         /\ w \in Withdrawals /\ req[w].user \in Users
         /\ RowStep(w) /\ SameRequest(w) /\ UNCHANGED <<txn, held>>
         /\ req[w].status = "PROCESSED" /\ txn[w] = "COMPLETED" /\ w \notin held
         /\ req'[w].status = "RETURNED"
<1> DEFINE w == tx[s].wd
<1>0. Tables
  BY TablesOf
<1>1. w \in Withdrawals /\ req[w].status = "PROCESSED"
  BY DEF ReturnCommit, IndInv, SessionInv
<1>2. txn[w] = "COMPLETED" /\ w \notin held /\ req[w].user \in Users
  BY <1>1 DEF IndInv, TablesAgree, TxnOf, Open, RequestInv
<1>3. UNCHANGED <<txn, held>> /\ req' = [req EXCEPT ![w].status = "RETURNED"]
  BY DEF ReturnCommit
<1> HIDE DEF w
<1>4. /\ \A v \in Withdrawals \ {w} : req'[v] = req[v]
      /\ SameRequest(w) /\ req'[w].status = "RETURNED"
  BY <1>0, <1>1, <1>3 DEF Tables, Request, SameRequest
<1> QED BY <1>0, <1>1, <1>2, <1>3, <1>4 DEF RowStep, w

\* Every other action leaves the rows, the transactions and the holds alone.
Quiet == UNCHANGED <<req, txn, held>>

LEMMA QuietSums ==
  ASSUME Quiet, NEW u, NEW d
  PROVE  /\ HeldRial(u)' = HeldRial(u) /\ UsedOn(u, d)' = UsedOn(u, d)
         /\ SumAmount(Counted(u))' = SumAmount(Counted(u))
         /\ SumAmount(Completed(u))' = SumAmount(Completed(u))
         /\ SumAmount(Paid)' = SumAmount(Paid)
         /\ SumFunctionOnSet(FeeOf, Paid)' = SumFunctionOnSet(FeeOf, Paid)
BY DEF Quiet, HeldRial, UsedOn, SumAmount, AmountOf, Own, Counted, Completed,
       Paid, FeeOf

-----------------------------------------------------------------------------
(* The limits.                                                               *)

Counts(status) == status \in {"PENDING", "COMPLETED"}

LEMMA AmountsNext ==
  ASSUME req' \in [Withdrawals -> Request], NEW S, S \subseteq Withdrawals
  PROVE  SumFunctionOnSet(AmountOf', S) \in Nat
<1> DEFINE f == AmountOf'
<1>1. IsFiniteSet(S)
  BY WalletAssumption, FS_Subset
<1>2. \A w \in S : f[w] \in Nat
  BY DEF AmountOf, Request
<1> HIDE DEF f
<1>3. SumFunctionOnSet(f, S) \in Nat
  BY <1>1, <1>2, SumType
<1> QED BY <1>3 DEF f

LEMMA UsedNat ==
  ASSUME IndInv, IndInv', NEW u, NEW d
  PROVE  /\ UsedOn(u, d) \in Nat /\ SumAmount(Counted(u)) \in Nat
         /\ UsedOn(u, d)' \in Nat /\ SumAmount(Counted(u))' \in Nat
<1>1. req \in [Withdrawals -> Request] /\ req' \in [Withdrawals -> Request]
  BY DEF IndInv, TypeOK
<1>2. /\ Counted(u) \subseteq Withdrawals /\ Counted(u)' \subseteq Withdrawals
      /\ {w \in Counted(u) : req[w].day = d} \subseteq Withdrawals
      /\ {w \in Counted(u) : req[w].day = d}' \subseteq Withdrawals
  BY DEF Counted, Own
<1> QED BY <1>1, <1>2, AmountsNat, AmountsNext DEF UsedOn, SumAmount

\* A row's change to what is used on a day
LEMMA UsedRow ==
  ASSUME NEW w \in Withdrawals, RowStep(w), NEW u, NEW d
  PROVE  UsedOn(u, d)' = UsedOn(u, d)
           + Part(w, {v \in Counted(u) : req[v].day = d})'
           - Part(w, {v \in Counted(u) : req[v].day = d})
<1> DEFINE S == {v \in Counted(u) : req[v].day = d}
           T == {v \in Counted(u)' : req'[v].day = d}
<1>1. S \subseteq Withdrawals /\ T \subseteq Withdrawals
  BY DEF Counted, Own
<1>2. S \ {w} = T \ {w}
  BY DEF Counted, Own, RowStep
<1>3. UsedOn(u, d) = SumAmount(S) /\ UsedOn(u, d)' = SumFunctionOnSet(AmountOf', T)
  BY DEF UsedOn, SumAmount
<1>4. Part(w, {v \in Counted(u) : req[v].day = d})' = IF w \in T THEN req'[w].amount ELSE 0
  BY DEF Part
<1> HIDE DEF T
<1>5. SumFunctionOnSet(AmountOf', T)
        = SumAmount(S) + (IF w \in T THEN req'[w].amount ELSE 0) - Part(w, S)
  <2> HIDE DEF S
  <2> QED BY <1>1, <1>2, OneRow
<1> QED BY <1>3, <1>4, <1>5

\* A request that did not count before does not begin to.
LEMMA CountedStep ==
  ASSUME IndInv, IndInv', NEW w \in Withdrawals, RowStep(w), NEW u, NEW d,
         Counts(txn'[w]) => Counts(txn[w]) /\ SameRequest(w)
  PROVE  /\ UsedOn(u, d)' <= UsedOn(u, d)
         /\ SumAmount(Counted(u))' <= SumAmount(Counted(u))
<1> DEFINE S == {v \in Counted(u) : req[v].day = d}
<1>1. w \in Counted(u)' => w \in Counted(u) /\ req'[w].amount = req[w].amount
  BY DEF Counted, Own, Counts, SameRequest
<1>2. Part(w, S)' <= Part(w, S) /\ Part(w, S) \in Nat /\ Part(w, S)' \in Nat
  BY <1>1 DEF Part, SameRequest, RowStep, Tables, Request, Counted, Own, Counts
<1>3. /\ Part(w, Counted(u))' <= Part(w, Counted(u))
      /\ Part(w, Counted(u)) \in Nat /\ Part(w, Counted(u))' \in Nat
  BY <1>1 DEF Part, RowStep, Tables, Request
<1> HIDE DEF S
<1>4. UsedOn(u, d) \in Nat /\ SumAmount(Counted(u)) \in Nat
  BY UsedNat
<1>5. UsedOn(u, d)' = UsedOn(u, d) + Part(w, S)' - Part(w, S)
  BY UsedRow DEF S
<1>6. SumAmount(Counted(u))' = SumAmount(Counted(u))
         + Part(w, Counted(u))' - Part(w, Counted(u))
  BY RowSums
<1> QED BY <1>2, <1>3, <1>4, <1>5, <1>6

\* What keeps the limits: no sum grows, and no call takes up a new request.
LEMMA LimitsKept ==
  ASSUME IndInv, IndInv', LimitsInv, LimitsHold, day' = day,
         \A u \in Users : /\ \A d \in Days : UsedOn(u, d)' <= UsedOn(u, d)
                          /\ SumAmount(Counted(u))' <= SumAmount(Counted(u)),
         \A w \in Withdrawals : Counts(txn'[w]) => req'[w].day <= day,
         \A s \in Sessions : tx'[s].step = "request" => tx'[s] = tx[s]
  PROVE  LimitsInv' /\ LimitsHold'
<1>1. /\ \A u \in Users, d \in Days : UsedOn(u, d) \in Nat /\ UsedOn(u, d)' \in Nat
      /\ \A u \in Users : /\ SumAmount(Counted(u)) \in Nat
                           /\ SumAmount(Counted(u))' \in Nat
  BY UsedNat
<1>2. LimitsHold'
  BY <1>1, WalletAssumption DEF LimitsHold
<1>3. ASSUME NEW s \in Sessions, tx'[s].step = "request"
      PROVE  WithinLimits(tx[s].user, tx[s].amount)'
  <2> DEFINE u == tx[s].user
             a == tx[s].amount
  <2>1. tx'[s] = tx[s] /\ tx[s].step = "request" /\ u \in Users /\ a \in Nat
    BY <1>3, AmountNat DEF IndInv, SessionInv
  <2>2. WithinLimits(u, a) /\ day \in Days
    BY <2>1 DEF LimitsInv, IndInv, TypeOK
  <2> QED BY <1>1, <2>1, <2>2, WalletAssumption DEF WithinLimits
<1>4. LimitsInv'
  BY <1>3 DEF LimitsInv, Counts
<1> QED BY <1>2, <1>4

\* A call is within the limits when it starts ...
LEMMA RequestBeginLimits ==
  ASSUME IndInv, IndInv', LimitsInv, LimitsHold,
         NEW s \in Sessions, NEW u \in Users, NEW a \in Amounts,
         RequestBegin(s, u, a)
  PROVE  LimitsInv' /\ LimitsHold'
<1> DEFINE x == OnWallet("request", u, a, 0)
<1>1. /\ Quiet /\ day' = day /\ WithinLimits(u, a)
      /\ tx' = [tx EXCEPT ![s] = x] /\ tx \in [Sessions -> Session]
  BY DEF RequestBegin, docs, Quiet, IndInv, TypeOK
<1>2. x.user = u /\ x.amount = a
  BY DEF OnWallet
<1>3. \A t \in Sessions : tx'[t] = IF t = s THEN x ELSE tx[t]
  BY <1>1
<1> HIDE DEF x
<1>4. \A v \in Users : /\ SumAmount(Counted(v))' = SumAmount(Counted(v))
                       /\ \A d \in Days : UsedOn(v, d)' = UsedOn(v, d)
  BY <1>1, QuietSums
<1>5. LimitsHold'
  BY <1>4 DEF LimitsHold
<1>6. ASSUME NEW t \in Sessions, tx'[t].step = "request"
      PROVE  WithinLimits(tx[t].user, tx[t].amount)'
  <2>1. CASE t = s
    BY <1>1, <1>2, <1>3, <1>4, <2>1 DEF WithinLimits, IndInv, TypeOK
  <2>2. CASE t # s
    <3>1. tx'[t] = tx[t] /\ tx[t].step = "request" /\ tx[t].user \in Users
      BY <1>3, <1>6, <2>2 DEF IndInv, SessionInv
    <3>2. WithinLimits(tx[t].user, tx[t].amount) /\ day \in Days
      BY <3>1 DEF LimitsInv, IndInv, TypeOK
    <3> QED BY <1>1, <1>4, <3>1, <3>2 DEF WithinLimits
  <2> QED BY <2>1, <2>2
<1>7. LimitsInv'
  BY <1>1, <1>6 DEF LimitsInv, Quiet
<1> QED BY <1>5, <1>7

\* ... and still is when it writes, since nobody else asks for the wallet.
LEMMA RequestCommitLimits ==
  ASSUME IndInv, IndInv', LimitsInv, LimitsHold,
         NEW s \in Sessions, NEW w \in Withdrawals, RequestCommit(s, w)
  PROVE  LimitsInv' /\ LimitsHold'
<1> DEFINE u == tx[s].user
           a == tx[s].amount
           Of(v, d) == {x \in Counted(v) : req[x].day = d}
<1>1. /\ RowStep(w) /\ txn[w] = "none" /\ txn'[w] = "PENDING"
      /\ req'[w].user = u /\ req'[w].amount = a /\ req'[w].day = day
      /\ u \in Users /\ a \in Nat
  BY RequestRow
<1>2. /\ tx[s].step = "request" /\ tx \in [Sessions -> Session] /\ day' = day
      /\ tx' = [tx EXCEPT ![s] = Idle] /\ day \in Days /\ day \in Nat
  BY WalletAssumption DEF RequestCommit, IndInv, TypeOK
<1>3. UsedOn(u, day) + a <= DailyLimit /\ SumAmount(Counted(u)) + a <= MonthlyLimit
  BY <1>2 DEF LimitsInv, WithinLimits
<1>4. \A v \in Users : /\ w \notin Counted(v)
                       /\ w \in Counted(v)' <=> v = u
  BY <1>1 DEF Counted, Own
<1>5. ASSUME NEW v \in Users, NEW d
      PROVE  /\ UsedOn(v, d)' = UsedOn(v, d) + IF v = u /\ d = day THEN a ELSE 0
             /\ SumAmount(Counted(v))'
                  = SumAmount(Counted(v)) + IF v = u THEN a ELSE 0
  <2>1. /\ Part(w, Counted(v)) = 0
        /\ Part(w, Counted(v))' = IF v = u THEN a ELSE 0
    BY <1>1, <1>4 DEF Part
  <2>2. /\ Part(w, Of(v, d)) = 0
        /\ Part(w, Of(v, d))' = IF v = u /\ d = day THEN a ELSE 0
    BY <1>1, <1>4 DEF Part
  <2>3. UsedOn(v, d)' = UsedOn(v, d) + Part(w, Of(v, d))' - Part(w, Of(v, d))
    BY <1>1, UsedRow
  <2>4. SumAmount(Counted(v))' = SumAmount(Counted(v))
           + Part(w, Counted(v))' - Part(w, Counted(v))
    BY <1>1, RowSums
  <2>5. UsedOn(v, d) \in Nat /\ SumAmount(Counted(v)) \in Nat
    BY UsedNat
  <2> HIDE DEF u, a, Of
  <2> QED BY <1>1, <2>1, <2>2, <2>3, <2>4, <2>5
<1>6. \A v \in Users : /\ \A d : UsedOn(v, d) \in Nat
                       /\ SumAmount(Counted(v)) \in Nat
  BY UsedNat
<1> HIDE DEF Of
<1>7. LimitsHold'
  <2> SUFFICES ASSUME NEW v \in Users
               PROVE  /\ \A d \in Days : UsedOn(v, d)' <= DailyLimit
                      /\ SumAmount(Counted(v))' <= MonthlyLimit
    BY DEF LimitsHold
  <2>1. /\ \A d \in Days : UsedOn(v, d) <= DailyLimit
        /\ SumAmount(Counted(v)) <= MonthlyLimit
    BY DEF LimitsHold
  <2> HIDE DEF u, a
  <2> QED BY <1>1, <1>3, <1>5, <1>6, <2>1
<1>8. ASSUME NEW t \in Sessions, tx'[t].step = "request"
      PROVE  WithinLimits(tx[t].user, tx[t].amount)'
  <2>1. t # s /\ tx'[t] = tx[t] /\ tx[t].step = "request"
    BY <1>2, <1>8 DEF Idle, OnRequest
  <2>2. tx[t].user # u /\ tx[t].user \in Users /\ tx[t].amount \in Nat
    BY <1>2, <2>1, AmountNat DEF IndInv, SessionInv
  <2>3. WithinLimits(tx[t].user, tx[t].amount)
    BY <2>1 DEF LimitsInv
  <2> HIDE DEF u, a
  <2>4. /\ UsedOn(tx[t].user, day)' = UsedOn(tx[t].user, day)
        /\ SumAmount(Counted(tx[t].user))' = SumAmount(Counted(tx[t].user))
    BY <1>2, <1>5, <1>6, <2>1, <2>2
  <2> QED BY <1>2, <2>1, <2>3, <2>4 DEF WithinLimits
<1>9. ASSUME NEW v \in Withdrawals, txn'[v] \in {"PENDING", "COMPLETED"}
      PROVE  req'[v].day <= day'
  BY <1>1, <1>2, <1>9 DEF LimitsInv, RowStep
<1>10. LimitsInv'
  BY <1>8, <1>9 DEF LimitsInv
<1> QED BY <1>7, <1>10

\* The decisions on a request: it stops counting, or counts as before.
LEMMA DecisionLimits ==
  ASSUME IndInv, IndInv', LimitsInv, LimitsHold, NEW w \in Withdrawals,
         RowStep(w), Counts(txn'[w]) => Counts(txn[w]) /\ SameRequest(w),
         day' = day,
         \A s \in Sessions : tx'[s].step = "request" => tx'[s] = tx[s]
  PROVE  LimitsInv' /\ LimitsHold'
<1>1. \A u \in Users : /\ \A d \in Days : UsedOn(u, d)' <= UsedOn(u, d)
                       /\ SumAmount(Counted(u))' <= SumAmount(Counted(u))
  BY CountedStep, WalletAssumption
<1>2. \A v \in Withdrawals : Counts(txn'[v]) => req'[v].day <= day
  BY DEF LimitsInv, RowStep, SameRequest, Counts
<1> QED BY <1>1, <1>2, LimitsKept

\* On a new day nothing is used yet.
LEMMA MidnightLimits ==
  ASSUME IndInv, IndInv', LimitsInv, LimitsHold, Midnight
  PROVE  LimitsInv' /\ LimitsHold'
<1>1. /\ Quiet /\ tx' = tx /\ day' = day + 1
      /\ day \in Nat /\ day \in Days /\ day + 1 \in Days
  BY WalletAssumption DEF Midnight, docs, Quiet, IndInv, TypeOK
<1>2. \A u \in Users : /\ SumAmount(Counted(u))' = SumAmount(Counted(u))
                       /\ \A d \in Days : UsedOn(u, d)' = UsedOn(u, d)
  BY <1>1, QuietSums
<1>3. ASSUME NEW u \in Users PROVE UsedOn(u, day + 1) = 0
  <2>1. \A w \in Counted(u) : req[w].day <= day /\ req[w].day \in Nat
    BY DEF Counted, Own, LimitsInv, IndInv, TypeOK, Request
  <2>2. {w \in Counted(u) : req[w].day = day + 1} = {}
    BY <1>1, <2>1
  <2> QED BY <2>2, SumEmpty DEF UsedOn, SumAmount
<1>4. LimitsHold'
  BY <1>2 DEF LimitsHold
<1>5. ASSUME NEW s \in Sessions, tx'[s].step = "request"
      PROVE  WithinLimits(tx[s].user, tx[s].amount)'
  <2>1. /\ tx[s].step = "request" /\ tx[s].user \in Users
        /\ tx[s].amount \in Nat
    BY <1>1, <1>5, AmountNat DEF IndInv, SessionInv
  <2>2. PICK u \in Users, a \in Nat, d \in Days :
          u = tx[s].user /\ a = tx[s].amount /\ d = day + 1
    BY <1>1, <2>1
  <2>3. WithinLimits(u, a) /\ UsedOn(u, day) \in Nat
    BY <2>1, <2>2, UsedNat DEF LimitsInv
  <2>4. a <= DailyLimit /\ SumAmount(Counted(u)) + a <= MonthlyLimit
    BY <2>3, WalletAssumption DEF WithinLimits
  <2>5. UsedOn(u, d)' = 0 /\ SumAmount(Counted(u))' = SumAmount(Counted(u))
    BY <1>2, <1>3, <2>2
  <2> QED BY <1>1, <2>2, <2>4, <2>5, WalletAssumption DEF WithinLimits
<1>6. ASSUME NEW w \in Withdrawals, txn'[w] \in {"PENDING", "COMPLETED"}
      PROVE  req'[w].day <= day'
  <2>1. req[w].day <= day /\ req[w].day \in Nat /\ req'[w] = req[w]
    BY <1>1, <1>6 DEF LimitsInv, IndInv, TypeOK, Request, Quiet
  <2> QED BY <1>1, <2>1
<1>7. LimitsInv'
  BY <1>1, <1>5, <1>6 DEF LimitsInv
<1> QED BY <1>4, <1>7

\* Everything else neither counts a request nor starts to ask for one.
LEMMA OtherLimits ==
  ASSUME IndInv, IndInv', LimitsInv, LimitsHold, Quiet, day' = day,
         \A s \in Sessions : tx'[s].step = "request" => tx'[s] = tx[s]
  PROVE  LimitsInv' /\ LimitsHold'
<1>1. \A u \in Users : /\ \A d \in Days : UsedOn(u, d)' <= UsedOn(u, d)
                       /\ SumAmount(Counted(u))' <= SumAmount(Counted(u))
  BY QuietSums, UsedNat
<1>2. \A v \in Withdrawals : Counts(txn'[v]) => req'[v].day <= day
  BY DEF LimitsInv, Counts, Quiet
<1> QED BY <1>1, <1>2, LimitsKept

\* Setting a session to anything but a request starts none.
LEMMA NoneStarts ==
  ASSUME IndInv, NEW s \in Sessions, NEW x, x.step # "request",
         tx' = [tx EXCEPT ![s] = x]
  PROVE  \A t \in Sessions : tx'[t].step = "request" => tx'[t] = tx[t]
BY DEF IndInv, TypeOK

LEMMA LimitsStep ==
  IndInv /\ IndInv' /\ LimitsInv /\ LimitsHold /\ [Next]_vars
    => LimitsInv' /\ LimitsHold'
<1> SUFFICES ASSUME IndInv, IndInv', LimitsInv, LimitsHold, [Next]_vars
             PROVE  LimitsInv' /\ LimitsHold'
  OBVIOUS
<1>0. Idle.step = "idle"
  BY DEF Idle, OnRequest
<1>1. ASSUME NEW s \in Sessions, NEW u \in Users, NEW a \in Amounts,
             RequestBegin(s, u, a)
      PROVE  LimitsInv' /\ LimitsHold'
  BY <1>1, RequestBeginLimits
<1>2. ASSUME NEW s \in Sessions, NEW w \in Withdrawals, RequestCommit(s, w)
      PROVE  LimitsInv' /\ LimitsHold'
  BY <1>2, RequestCommitLimits
<1>3. ASSUME NEW w \in Withdrawals, Cancel(w) \/ \E p \in Admins : Reject(w, p)
      PROVE  LimitsInv' /\ LimitsHold'
  <2>1. day' = day /\ tx' = tx
    BY <1>3 DEF Cancel, Reject
  <2>2. RowStep(w) /\ ~Counts(txn'[w])
    BY <1>3, CloseRow DEF Counts
  <2> QED BY <2>1, <2>2, DecisionLimits
<1>4. ASSUME NEW w \in Withdrawals, NEW p \in Admins, Approve(w, p)
      PROVE  LimitsInv' /\ LimitsHold'
  <2>1. day' = day /\ tx' = tx
    BY <1>4 DEF Approve
  <2>2. RowStep(w) /\ SameRequest(w) /\ Counts(txn[w])
    BY <1>4, ApproveRow DEF Counts
  <2> QED BY <2>1, <2>2, DecisionLimits
<1>5. ASSUME NEW s \in Sessions, PayCommit(s)
      PROVE  LimitsInv' /\ LimitsHold'
  <2>1. day' = day /\ tx' = [tx EXCEPT ![s] = Idle]
    BY <1>5 DEF PayCommit
  <2>2. \A t \in Sessions : tx'[t].step = "request" => tx'[t] = tx[t]
    BY <1>0, <2>1, NoneStarts
  <2>3. /\ tx[s].wd \in Withdrawals /\ RowStep(tx[s].wd)
        /\ SameRequest(tx[s].wd) /\ Counts(txn[tx[s].wd])
    BY <1>5, PayRow DEF Counts
  <2> QED BY <2>1, <2>2, <2>3, DecisionLimits
<1>6. ASSUME NEW s \in Sessions, ReturnCommit(s)
      PROVE  LimitsInv' /\ LimitsHold'
  <2>1. day' = day /\ tx' = [tx EXCEPT ![s] = Idle]
    BY <1>6 DEF ReturnCommit
  <2>2. \A t \in Sessions : tx'[t].step = "request" => tx'[t] = tx[t]
    BY <1>0, <2>1, NoneStarts
  <2>3. /\ tx[s].wd \in Withdrawals /\ RowStep(tx[s].wd)
        /\ SameRequest(tx[s].wd) /\ Counts(txn[tx[s].wd])
    BY <1>6, ReturnRow DEF Counts
  <2> QED BY <2>1, <2>2, <2>3, DecisionLimits
<1>7. CASE Midnight
  BY <1>7, MidnightLimits
<1>8. ASSUME NEW s \in Sessions, NEW x, x.step # "request",
             tx' = [tx EXCEPT ![s] = x], Quiet, day' = day
      PROVE  LimitsInv' /\ LimitsHold'
  <2>1. \A t \in Sessions : tx'[t].step = "request" => tx'[t] = tx[t]
    BY <1>8, NoneStarts
  <2> QED BY <1>8, <2>1, OtherLimits
<1>81. ASSUME NEW s \in Sessions, NEW w \in Withdrawals, NEW p \in Admins,
              PayBegin(s, w, p)
       PROVE  LimitsInv' /\ LimitsHold'
  <2>1. OnRequest("pay", w, p).step # "request"
    BY DEF OnRequest
  <2> QED BY <1>8, <1>81, <2>1 DEF PayBegin, docs, Quiet
<1>82. ASSUME NEW s \in Sessions, NEW w \in Withdrawals, ReturnBegin(s, w)
       PROVE  LimitsInv' /\ LimitsHold'
  <2>1. OnRequest("return", w, NoAdmin).step # "request"
    BY DEF OnRequest
  <2> QED BY <1>8, <1>82, <2>1 DEF ReturnBegin, docs, Quiet
<1>83. ASSUME NEW s \in Sessions, NEW u \in Users, NEW a, AdjustBegin(s, u, a)
       PROVE  LimitsInv' /\ LimitsHold'
  <2>1. OnWallet("adjust", u, a, balance[u]).step # "request"
    BY DEF OnWallet
  <2> QED BY <1>8, <1>83, <2>1 DEF AdjustBegin, docs, Quiet
<1>84. ASSUME NEW s \in Sessions, AdjustCommit(s) \/ Abort(s)
       PROVE  LimitsInv' /\ LimitsHold'
  <2>1. Quiet /\ day' = day /\ tx' = [tx EXCEPT ![s] = Idle]
    BY <1>84 DEF AdjustCommit, Abort, docs, Quiet
  <2> QED BY <1>0, <1>8, <2>1
<1>9. ASSUME NEW u \in Users, NEW a \in Moves,
             BuyGold(u, a) \/ SellGold(u, a) \/ ShopCapture(u, a)
      PROVE  LimitsInv' /\ LimitsHold'
  <2>1. Quiet /\ day' = day /\ tx' = tx
    BY <1>9 DEF BuyGold, SellGold, ShopCapture, docs, Quiet
  <2> QED BY <2>1, OtherLimits
<1>10. CASE UNCHANGED vars
  <2>1. Quiet /\ day' = day /\ tx' = tx
    BY <1>10 DEF vars, Quiet
  <2> QED BY <2>1, OtherLimits
<1> QED BY <1>1, <1>2, <1>3, <1>4, <1>5, <1>6, <1>7, <1>81, <1>82, <1>83, <1>84,
           <1>9, <1>10
        DEF Next

-----------------------------------------------------------------------------
(* The money: wallets, reservations and books.                               *)

Fees   == SumFunctionOnSet(FeeOf, Paid)
Wallets == SumFunctionOnSet(balance, Users)
Adjusted == SumFunctionOnSet(ByHand, Users)
FeePart(w) == IF w \in Paid THEN req[w].fee ELSE 0

\* What the wallet's history adds up to, but for the withdrawals
Others(u) == moved[u]["REFUND"] + moved[u]["ADDED"] - moved[u]["DEDUCTED"]
               + moved[u]["SELL_GOLD"] - moved[u]["BUY_GOLD"]
               - moved[u]["SHOP_PURCHASE"]

Money == WalletExplained /\ BooksExplained /\ HoldsCoveredButForced

\* All of these are numbers.
Numbers ==
  /\ Fees \in Nat /\ Wallets \in Nat /\ Adjusted \in Int
  /\ SumAmount(Paid) \in Nat
  /\ \A a \in Accounts : ledger[a] \in Int
  /\ \A u \in Users : /\ HeldRial(u) \in Nat
                      /\ SumAmount(Completed(u)) \in Nat
                      /\ balance[u] \in Nat /\ Others(u) \in Int
                      /\ \A k \in Kinds : moved[u][k] \in Nat

LEMMA NumbersHold == IndInv => Numbers
<1> SUFFICES ASSUME IndInv PROVE Numbers
  OBVIOUS
<1>1. /\ req \in [Withdrawals -> Request] /\ held \subseteq Withdrawals
      /\ balance \in [Users -> Nat] /\ moved \in [Users -> [Kinds -> Nat]]
      /\ ledger \in [Accounts -> Int]
  BY DEF IndInv, TypeOK
<1>2. /\ Paid \subseteq Withdrawals
      /\ \A u : /\ Own(u) \cap held \subseteq Withdrawals
                /\ Completed(u) \subseteq Withdrawals
  BY DEF Paid, Completed, Own
<1>3. /\ SumAmount(Paid) \in Nat
      /\ \A u : HeldRial(u) \in Nat /\ SumAmount(Completed(u)) \in Nat
  BY <1>1, <1>2, AmountsNat DEF HeldRial
<1>4. Fees \in Nat
  <2>1. \A w \in Paid : FeeOf[w] \in Nat
    BY <1>1 DEF FeeOf, Paid, Request
  <2> QED BY <1>2, <2>1, WalletAssumption, FS_Subset, SumType DEF Fees
<1>5. Wallets \in Nat
  BY <1>1, WalletAssumption, SumType DEF Wallets
<1>6. \A u \in Users : \A k \in Kinds : moved[u][k] \in Nat
  BY <1>1
<1>7. \A u \in Users : Others(u) \in Int /\ ByHand[u] \in Int
  BY <1>6 DEF Others, ByHand, Kinds
<1>8. Adjusted \in Int
  BY <1>7, WalletAssumption, SumType DEF Adjusted
<1> QED BY <1>1, <1>3, <1>4, <1>5, <1>6, <1>7, <1>8 DEF Numbers

LEMMA NumbersHoldNext == IndInv' => Numbers'
BY NumbersHold, PTL

LEMMA OpeningInt == Opening * Cardinality(Users) \in Int
BY WalletAssumption, ProductInt

\* The invariants in these terms
Covered(u) == HeldRial(u) - balance[u]
                <= moved[u]["DEDUCTED"] + moved[u]["SHOP_PURCHASE"]
Explained(u) == balance[u] = Opening + Others(u) - SumAmount(Completed(u))
Booked == /\ ledger["2010"] = Wallets /\ ledger["4090"] = Fees
          /\ ledger["1010"] = SumAmount(Paid) - Fees - Adjusted
                                - Opening * Cardinality(Users)

LEMMA MoneyIs ==
  IndInv => (Money <=> /\ \A u \in Users : Explained(u) /\ Covered(u)
                       /\ Booked)
<1> SUFFICES ASSUME IndInv
             PROVE  Money <=> /\ \A u \in Users : Explained(u) /\ Covered(u)
                              /\ Booked
  OBVIOUS
<1>1. ASSUME NEW u \in Users
      PROVE  Opening + Others(u) - SumAmount(Completed(u))
               = Opening + moved[u]["REFUND"]
                   + moved[u]["ADDED"] - moved[u]["DEDUCTED"]
                   + moved[u]["SELL_GOLD"] - moved[u]["BUY_GOLD"]
                   - moved[u]["SHOP_PURCHASE"]
                   - SumAmount(Completed(u))
  <2>1. /\ \A k \in Kinds : moved[u][k] \in Int
        /\ SumAmount(Completed(u)) \in Int /\ Opening \in Int
    BY NumbersHold, WalletAssumption DEF Numbers
  <2> QED BY <2>1 DEF Others, Kinds
<1>2. WalletExplained <=> \A u \in Users : Explained(u)
  BY <1>1 DEF WalletExplained, Explained
<1>3. HoldsCoveredButForced <=> \A u \in Users : Covered(u)
  BY DEF HoldsCoveredButForced, Covered
<1>4. BooksExplained <=> Booked
  BY DEF BooksExplained, LiabilityMatchesWallets, PaidOutExplained, Booked,
         Fees, Wallets, Adjusted
<1> QED BY <1>2, <1>3, <1>4 DEF Money

LEMMA MoneyIsNext ==
  IndInv' => (Money' <=> /\ \A u \in Users : Explained(u)' /\ Covered(u)'
                         /\ Booked')
<1>1. (IndInv => (Money <=> /\ \A u \in Users : Explained(u) /\ Covered(u)
                            /\ Booked))'
  BY MoneyIs, PTL
<1> QED BY <1>1

\* A row's change to the fees
LEMMA FeeRow ==
  ASSUME NEW w \in Withdrawals, RowStep(w)
  PROVE  Fees' = Fees + FeePart(w)' - FeePart(w)
<1> DEFINE f == FeeOf
           g == FeeOf'
           S == Paid
           T == Paid'
<1>1. /\ f = [v \in Withdrawals |-> req[v].fee]
      /\ g = [v \in Withdrawals |-> req'[v].fee]
  BY DEF FeeOf
<1>2. S \subseteq Withdrawals /\ T \subseteq Withdrawals /\ S \ {w} = T \ {w}
  BY DEF Paid, RowStep
<1>3. Fees' = SumFunctionOnSet(g, T) /\ Fees = SumFunctionOnSet(f, S)
  BY DEF Fees
<1>4. FeePart(w)' = (IF w \in T THEN req'[w].fee ELSE 0)
      /\ FeePart(w) = (IF w \in S THEN req[w].fee ELSE 0)
  BY DEF FeePart
<1> HIDE DEF f, g, S, T
<1>5. \A v \in Withdrawals : req[v].fee \in Nat /\ req'[v].fee \in Nat
  BY DEF RowStep, Tables, Request
<1>6. (\A v \in S : f[v] \in Int) /\ (\A v \in T : g[v] \in Int)
  BY <1>1, <1>2, <1>5
<1>7. Agree(f, g, S \ {w})
  BY <1>1, <1>2 DEF Agree, RowStep
<1>8. IsFiniteSet(S) /\ IsFiniteSet(T)
  BY <1>2, WalletAssumption, FS_Subset
<1>9. SumFunctionOnSet(g, T) = SumFunctionOnSet(f, S)
        + (IF w \in T THEN g[w] ELSE 0) - (IF w \in S THEN f[w] ELSE 0)
  BY <1>2, <1>6, <1>7, <1>8, SumStep
<1> QED BY <1>1, <1>3, <1>4, <1>9

\* A move of one wallet
LEMMA WalletsMove ==
  ASSUME IndInv, IndInv', NEW u \in Users, NEW a \in Int, Move(u, a)
  PROVE  /\ Wallets' = Wallets + a /\ balance'[u] = balance[u] + a
         /\ \A v \in Users \ {u} : balance'[v] = balance[v]
<1>1. balance \in [Users -> Nat] /\ balance' \in [Users -> Nat]
  BY DEF IndInv, TypeOK
<1>2. /\ balance'[u] = balance[u] + a
      /\ \A v \in Users \ {u} : balance'[v] = balance[v]
  BY <1>1 DEF Move
<1>3. SumFunctionOnSet(balance', Users)
        = SumFunctionOnSet(balance, Users) + balance'[u] - balance[u]
  BY <1>1, <1>2, WalletAssumption, SumChange
<1>4. Wallets \in Int
  BY NumbersHold DEF Numbers
<1>5. balance[u] \in Int
  BY <1>1
<1> QED BY <1>2, <1>3, <1>4, <1>5 DEF Wallets

\* The sum of what admins adjusted, when the totals of one wallet change
LEMMA AdjustedMove ==
  ASSUME IndInv, IndInv', NEW u \in Users,
         \A v \in Users \ {u} : moved'[v] = moved[v]
  PROVE  Adjusted' = Adjusted + (moved'[u]["ADDED"] - moved'[u]["DEDUCTED"])
                              - (moved[u]["ADDED"] - moved[u]["DEDUCTED"])
<1> DEFINE f == ByHand
           g == ByHand'
<1>1. /\ f = [v \in Users |-> moved[v]["ADDED"] - moved[v]["DEDUCTED"]]
      /\ g = [v \in Users |-> moved'[v]["ADDED"] - moved'[v]["DEDUCTED"]]
  BY DEF ByHand
<1>2. Adjusted' = SumFunctionOnSet(g, Users) /\ Adjusted = SumFunctionOnSet(f, Users)
  BY DEF Adjusted
<1> HIDE DEF f, g
<1>3. \A v \in Users : /\ moved[v]["ADDED"] \in Nat /\ moved[v]["DEDUCTED"] \in Nat
                       /\ moved'[v]["ADDED"] \in Nat /\ moved'[v]["DEDUCTED"] \in Nat
  BY NumbersHold, NumbersHoldNext DEF Numbers, Kinds
<1>4. \A v \in Users : f[v] \in Int /\ g[v] \in Int
  BY <1>1, <1>3
<1>5. \A v \in Users \ {u} : f[v] = g[v]
  BY <1>1
<1>6. SumFunctionOnSet(g, Users) = SumFunctionOnSet(f, Users) + g[u] - f[u]
  BY <1>4, <1>5, WalletAssumption, SumChange
<1>7. /\ f[u] = moved[u]["ADDED"] - moved[u]["DEDUCTED"]
      /\ g[u] = moved'[u]["ADDED"] - moved'[u]["DEDUCTED"]
  BY <1>1
<1> QED BY <1>2, <1>6, <1>7

\* Steps that touch neither a wallet nor a request
LEMMA StillMoney ==
  ASSUME IndInv, IndInv', Money, Quiet, UNCHANGED <<balance, ledger, moved>>
  PROVE  Money'
<1>1. /\ \A u : /\ HeldRial(u)' = HeldRial(u)
                /\ SumAmount(Completed(u))' = SumAmount(Completed(u))
      /\ SumAmount(Paid)' = SumAmount(Paid) /\ Fees' = Fees
  BY QuietSums DEF Fees
<1>2. Wallets' = Wallets /\ Adjusted' = Adjusted
      /\ \A u : Others(u)' = Others(u)
  BY DEF Wallets, Adjusted, ByHand, Others
<1>3. (\A u \in Users : Explained(u) /\ Covered(u)) /\ Booked
  BY MoneyIs
<1>4. (\A u \in Users : Explained(u)' /\ Covered(u)') /\ Booked'
  BY <1>1, <1>2, <1>3 DEF Explained, Covered, Booked
<1> QED BY <1>4, MoneyIsNext

\* requestWithdrawal reserves no more than the other holds leave.
LEMMA RequestMoney ==
  ASSUME IndInv, IndInv', Money, NEW s \in Sessions, NEW w \in Withdrawals,
         RequestCommit(s, w)
  PROVE  Money'
<1>0. (\A u \in Users : Explained(u) /\ Covered(u)) /\ Booked
  BY MoneyIs
<1>1. /\ RowStep(w) /\ req[w].status = "none" /\ txn[w] = "none" /\ w \notin held
      /\ req'[w].status = "PENDING" /\ txn'[w] = "PENDING"
      /\ req'[w].user = tx[s].user /\ req'[w].amount = tx[s].amount
      /\ tx[s].user \in Users /\ tx[s].amount \in Nat
  BY RequestRow
<1>2. /\ UNCHANGED <<balance, ledger, moved>>
      /\ balance[tx[s].user] - HeldRial(tx[s].user) >= tx[s].amount
  BY DEF RequestCommit
<1>3. Wallets' = Wallets /\ Adjusted' = Adjusted
      /\ \A u : Others(u)' = Others(u)
  BY <1>2 DEF Wallets, Adjusted, ByHand, Others
<1>4. Fees' = Fees /\ SumAmount(Paid)' = SumAmount(Paid)
  <2>1. w \notin Paid /\ w \notin Paid'
    BY <1>1 DEF Paid
  <2>2. FeePart(w) = 0 /\ FeePart(w)' = 0 /\ Part(w, Paid) = 0 /\ Part(w, Paid)' = 0
    BY <2>1 DEF FeePart, Part
  <2>3. /\ Fees' = Fees + FeePart(w)' - FeePart(w)
        /\ SumAmount(Paid)' = SumAmount(Paid) + Part(w, Paid)' - Part(w, Paid)
    BY <1>1, FeeRow, RowSums
  <2> QED BY <2>2, <2>3, NumbersHold DEF Numbers
<1>5. ASSUME NEW u \in Users PROVE Explained(u)' /\ Covered(u)'
  <2>0. Explained(u) /\ Covered(u)
    BY <1>0
  <2>1. w \notin Completed(u) /\ w \notin Completed(u)'
    BY <1>1 DEF Completed
  <2>2. Part(w, Completed(u)) = 0 /\ Part(w, Completed(u))' = 0
    BY <2>1 DEF Part
  <2>3. SumAmount(Completed(u))' = SumAmount(Completed(u))
          + Part(w, Completed(u))' - Part(w, Completed(u))
    BY <1>1, RowSums
  <2>4. SumAmount(Completed(u))' = SumAmount(Completed(u))
    BY <2>2, <2>3, NumbersHold DEF Numbers
  <2>5. Explained(u)'
    BY <1>2, <1>3, <2>0, <2>4 DEF Explained
  <2>6. /\ Part(w, Own(u) \cap held) = 0
        /\ Part(w, Own(u) \cap held)' <= IF u = tx[s].user THEN tx[s].amount ELSE 0
        /\ Part(w, Own(u) \cap held)' \in Int
    BY <1>1 DEF Part, Own
  <2>7. HeldRial(u)' = HeldRial(u) + Part(w, Own(u) \cap held)'
                                   - Part(w, Own(u) \cap held)
    BY <1>1, RowSums
  <2>8. HeldRial(u)' <= HeldRial(u) + IF u = tx[s].user THEN tx[s].amount ELSE 0
    BY <1>1, <2>6, <2>7, NumbersHold DEF Numbers
  <2>9. /\ HeldRial(u) \in Nat /\ HeldRial(u)' \in Nat /\ balance[u] \in Nat
        /\ moved[u]["DEDUCTED"] \in Nat /\ moved[u]["SHOP_PURCHASE"] \in Nat
    BY NumbersHold, NumbersHoldNext DEF Numbers, Kinds
  <2>10. HeldRial(u)' - balance[u] <= moved[u]["DEDUCTED"] + moved[u]["SHOP_PURCHASE"]
    BY <1>1, <1>2, <2>0, <2>8, <2>9 DEF Covered
  <2> QED BY <1>2, <2>5, <2>10 DEF Covered
<1>6. Booked'
  BY <1>0, <1>2, <1>3, <1>4 DEF Booked
<1> QED BY <1>5, <1>6, MoneyIsNext

\* cancelMyWithdrawal, approve and reject move no money, and release at most
\* what was reserved.
LEMMA DecisionMoney ==
  ASSUME IndInv, IndInv', Money, NEW w \in Withdrawals, RowStep(w),
         UNCHANGED <<balance, ledger, moved>>, SameRequest(w),
         w \in held' => w \in held,
         txn[w] # "COMPLETED", txn'[w] # "COMPLETED",
         req[w].status # "PROCESSED", req'[w].status # "PROCESSED"
  PROVE  Money'
<1>0. (\A u \in Users : Explained(u) /\ Covered(u)) /\ Booked
  BY MoneyIs
<1>1. Wallets' = Wallets /\ Adjusted' = Adjusted
      /\ \A u : Others(u)' = Others(u)
  BY DEF Wallets, Adjusted, ByHand, Others
<1>2. Fees' = Fees /\ SumAmount(Paid)' = SumAmount(Paid)
  <2>1. w \notin Paid /\ w \notin Paid'
    BY DEF Paid
  <2>2. FeePart(w) = 0 /\ FeePart(w)' = 0 /\ Part(w, Paid) = 0 /\ Part(w, Paid)' = 0
    BY <2>1 DEF FeePart, Part
  <2>3. /\ Fees' = Fees + FeePart(w)' - FeePart(w)
        /\ SumAmount(Paid)' = SumAmount(Paid) + Part(w, Paid)' - Part(w, Paid)
    BY FeeRow, RowSums
  <2> QED BY <2>2, <2>3, NumbersHold DEF Numbers
<1>3. ASSUME NEW u \in Users PROVE Explained(u)' /\ Covered(u)'
  <2>0. Explained(u) /\ Covered(u)
    BY <1>0
  <2>1. w \notin Completed(u) /\ w \notin Completed(u)'
    BY DEF Completed
  <2>2. Part(w, Completed(u)) = 0 /\ Part(w, Completed(u))' = 0
    BY <2>1 DEF Part
  <2>3. SumAmount(Completed(u))' = SumAmount(Completed(u))
          + Part(w, Completed(u))' - Part(w, Completed(u))
    BY RowSums
  <2>4. SumAmount(Completed(u))' = SumAmount(Completed(u))
    BY <2>2, <2>3, NumbersHold DEF Numbers
  <2>5. Explained(u)'
    BY <1>1, <2>0, <2>4 DEF Explained
  <2>6. /\ Part(w, Own(u) \cap held)' <= Part(w, Own(u) \cap held)
        /\ Part(w, Own(u) \cap held)' \in Int /\ Part(w, Own(u) \cap held) \in Int
    BY DEF Part, Own, SameRequest, RowStep, Tables, Request
  <2>7. HeldRial(u)' = HeldRial(u) + Part(w, Own(u) \cap held)'
                                   - Part(w, Own(u) \cap held)
    BY RowSums
  <2>8. HeldRial(u)' <= HeldRial(u)
    BY <2>6, <2>7, NumbersHold DEF Numbers
  <2>9. /\ HeldRial(u) \in Nat /\ HeldRial(u)' \in Nat /\ balance[u] \in Nat
        /\ moved[u]["DEDUCTED"] \in Nat /\ moved[u]["SHOP_PURCHASE"] \in Nat
    BY NumbersHold, NumbersHoldNext DEF Numbers, Kinds
  <2>10. HeldRial(u)' - balance[u] <= moved[u]["DEDUCTED"] + moved[u]["SHOP_PURCHASE"]
    BY <2>0, <2>8, <2>9 DEF Covered
  <2> QED BY <2>5, <2>10 DEF Covered
<1>4. Booked'
  BY <1>0, <1>1, <1>2 DEF Booked
<1> QED BY <1>3, <1>4, MoneyIsNext

\* What a payment's lines do to the three accounts
LEMMA PaymentPosted ==
  ASSUME IndInv, IndInv', NEW w \in Withdrawals
  PROVE  /\ Post(PaymentLines(w)) =>
              /\ ledger'["2010"] = ledger["2010"] - req[w].amount
              /\ ledger'["1010"] = ledger["1010"] + req[w].amount - req[w].fee
              /\ ledger'["4090"] = ledger["4090"] + req[w].fee
         /\ Post([a \in Accounts |-> -PaymentLines(w)[a]]) =>
              /\ ledger'["2010"] = ledger["2010"] + req[w].amount
              /\ ledger'["1010"] = ledger["1010"] - req[w].amount + req[w].fee
              /\ ledger'["4090"] = ledger["4090"] - req[w].fee
<1>1. req[w].amount \in Nat /\ req[w].fee \in Nat
  BY DEF IndInv, TypeOK, Request
<1>2. \A a \in Accounts : ledger[a] \in Int
  BY DEF IndInv, TypeOK
<1>3. {"2010", "1010", "4090"} \subseteq Accounts
  BY DEF Accounts
<1> DEFINE l == PaymentLines(w)
<1>4. /\ l["2010"] = -req[w].amount /\ l["4090"] = req[w].fee
      /\ l["1010"] = req[w].amount - req[w].fee
  BY <1>3 DEF PaymentLines
<1> HIDE DEF l
<1>5. ASSUME Post(l)
      PROVE  /\ ledger'["2010"] = ledger["2010"] - req[w].amount
             /\ ledger'["1010"] = ledger["1010"] + req[w].amount - req[w].fee
             /\ ledger'["4090"] = ledger["4090"] + req[w].fee
  <2>1. \A a \in Accounts : ledger'[a] = ledger[a] + l[a]
    BY <1>5 DEF Post
  <2> QED BY <1>1, <1>2, <1>3, <1>4, <2>1
<1>6. ASSUME Post([a \in Accounts |-> -l[a]])
      PROVE  /\ ledger'["2010"] = ledger["2010"] + req[w].amount
             /\ ledger'["1010"] = ledger["1010"] - req[w].amount + req[w].fee
             /\ ledger'["4090"] = ledger["4090"] - req[w].fee
  <2>1. \A a \in Accounts : ledger'[a] = ledger[a] + (-l[a])
    BY <1>6 DEF Post
  <2> QED BY <1>1, <1>2, <1>3, <1>4, <2>1
<1> QED BY <1>5, <1>6 DEF l

\* pay takes the amount from the wallet, its hold and the books alike.
LEMMA PayMoney ==
  ASSUME IndInv, IndInv', Money, NEW s \in Sessions, PayCommit(s)
  PROVE  Money'
<1>0. (\A u \in Users : Explained(u) /\ Covered(u)) /\ Booked
  BY MoneyIs
<1>1. PICK w \in Withdrawals : w = tx[s].wd
  BY PayRow
<1>2. /\ req[w].user \in Users /\ RowStep(w) /\ SameRequest(w)
      /\ req[w].status = "APPROVED" /\ txn[w] = "PENDING" /\ w \in held
      /\ req'[w].status = "PROCESSED" /\ txn'[w] = "COMPLETED" /\ w \notin held'
  BY <1>1, PayRow
<1>3. PICK x \in Users : x = req[w].user
  BY <1>2
<1>4. PICK a \in Nat : a = req[w].amount
  BY DEF IndInv, TypeOK, Request
<1>5. Move(x, -a) /\ Post(PaymentLines(w)) /\ moved' = moved
  BY <1>1, <1>3, <1>4 DEF PayCommit
<1>6. /\ Wallets' = Wallets - a /\ balance'[x] = balance[x] - a
      /\ \A v \in Users \ {x} : balance'[v] = balance[v]
  <2>1. -a \in Int /\ Wallets \in Int /\ balance[x] \in Int
    BY NumbersHold DEF Numbers
  <2>2. /\ Wallets' = Wallets + (-a) /\ balance'[x] = balance[x] + (-a)
        /\ \A v \in Users \ {x} : balance'[v] = balance[v]
    BY <1>5, <2>1, WalletsMove
  <2> QED BY <2>1, <2>2
<1>7. Adjusted' = Adjusted /\ \A u : Others(u)' = Others(u)
  BY <1>5 DEF Adjusted, ByHand, Others
<1>8. Fees' = Fees + req[w].fee /\ SumAmount(Paid)' = SumAmount(Paid) + a
  <2>1. w \notin Paid /\ w \in Paid'
    BY <1>2 DEF Paid
  <2>2. /\ FeePart(w) = 0 /\ FeePart(w)' = req[w].fee
        /\ Part(w, Paid) = 0 /\ Part(w, Paid)' = a
    BY <1>2, <1>4, <2>1 DEF FeePart, Part, SameRequest
  <2>3. /\ Fees' = Fees + FeePart(w)' - FeePart(w)
        /\ SumAmount(Paid)' = SumAmount(Paid) + Part(w, Paid)' - Part(w, Paid)
    BY <1>2, FeeRow, RowSums
  <2>4. req[w].fee \in Nat
    BY DEF IndInv, TypeOK, Request
  <2> QED BY <2>2, <2>3, <2>4, NumbersHold DEF Numbers
<1>9. ASSUME NEW u \in Users PROVE Explained(u)' /\ Covered(u)'
  <2>0. Explained(u) /\ Covered(u)
    BY <1>0
  <2>1. /\ w \notin Completed(u) /\ (w \in Completed(u)' <=> u = x)
        /\ w \notin (Own(u) \cap held)' /\ (w \in Own(u) \cap held <=> u = x)
    BY <1>2, <1>3 DEF Completed, Own, SameRequest
  <2>2. /\ Part(w, Completed(u)) = 0
        /\ Part(w, Completed(u))' = IF u = x THEN a ELSE 0
        /\ Part(w, Own(u) \cap held)' = 0
        /\ Part(w, Own(u) \cap held) = IF u = x THEN a ELSE 0
    BY <1>2, <1>4, <2>1 DEF Part, SameRequest
  <2>3. /\ SumAmount(Completed(u))' = SumAmount(Completed(u))
             + Part(w, Completed(u))' - Part(w, Completed(u))
        /\ HeldRial(u)' = HeldRial(u) + Part(w, Own(u) \cap held)'
                                      - Part(w, Own(u) \cap held)
    BY <1>2, RowSums
  <2>4. /\ HeldRial(u) \in Nat /\ SumAmount(Completed(u)) \in Nat
        /\ balance[u] \in Nat /\ Others(u) \in Int /\ Opening \in Int
        /\ moved[u]["DEDUCTED"] \in Nat /\ moved[u]["SHOP_PURCHASE"] \in Nat
    BY NumbersHold, WalletAssumption DEF Numbers, Kinds
  <2>5. /\ SumAmount(Completed(u))' = SumAmount(Completed(u))
                                        + IF u = x THEN a ELSE 0
        /\ HeldRial(u)' = HeldRial(u) - IF u = x THEN a ELSE 0
        /\ balance'[u] = balance[u] - IF u = x THEN a ELSE 0
    BY <1>6, <2>2, <2>3, <2>4
  <2>6. Explained(u)'
    BY <1>7, <2>0, <2>4, <2>5 DEF Explained
  <2>7. Covered(u)'
    BY <1>5, <2>0, <2>4, <2>5 DEF Covered
  <2> QED BY <2>6, <2>7
<1>10. Booked'
  <2>1. /\ ledger'["2010"] = ledger["2010"] - a
        /\ ledger'["1010"] = ledger["1010"] + a - req[w].fee
        /\ ledger'["4090"] = ledger["4090"] + req[w].fee
    BY <1>4, <1>5, PaymentPosted
  <2>2. /\ req[w].fee \in Nat /\ Wallets \in Int /\ Fees \in Int
        /\ SumAmount(Paid) \in Int /\ Adjusted \in Int
        /\ Opening * Cardinality(Users) \in Int
    BY NumbersHold, OpeningInt DEF Numbers, IndInv, TypeOK, Request
  <2> DEFINE o == Opening * Cardinality(Users)
  <2>3. ledger["2010"] = Wallets /\ ledger["4090"] = Fees
        /\ ledger["1010"] = SumAmount(Paid) - Fees - Adjusted - o
    BY <1>0 DEF Booked
  <2> HIDE DEF o
  <2>4. /\ ledger'["2010"] = Wallets' /\ ledger'["4090"] = Fees'
        /\ ledger'["1010"] = SumAmount(Paid)' - Fees' - Adjusted' - o
    BY <1>6, <1>7, <1>8, <2>1, <2>2, <2>3 DEF o
  <2> QED BY <2>4 DEF Booked, o
<1> QED BY <1>9, <1>10, MoneyIsNext

\* markReturned gives the amount back and reverses the journal entry.
LEMMA ReturnMoney ==
  ASSUME IndInv, IndInv', Money, NEW s \in Sessions, ReturnCommit(s)
  PROVE  Money'
<1>0. (\A u \in Users : Explained(u) /\ Covered(u)) /\ Booked
  BY MoneyIs
<1>1. PICK w \in Withdrawals : w = tx[s].wd
  BY ReturnRow
<1>2. /\ req[w].user \in Users /\ RowStep(w) /\ SameRequest(w)
      /\ UNCHANGED <<txn, held>>
      /\ req[w].status = "PROCESSED" /\ req'[w].status = "RETURNED" /\ w \notin held
  BY <1>1, ReturnRow
<1>3. PICK x \in Users : x = req[w].user
  BY <1>2
<1>4. PICK a \in Nat : a = req[w].amount
  BY DEF IndInv, TypeOK, Request
<1>5. /\ Move(x, a) /\ Post([b \in Accounts |-> -PaymentLines(w)[b]])
      /\ moved' = [moved EXCEPT ![x]["REFUND"] = @ + a]
  BY <1>1, <1>3, <1>4 DEF ReturnCommit
<1>6. /\ Wallets' = Wallets + a /\ balance'[x] = balance[x] + a
      /\ \A v \in Users \ {x} : balance'[v] = balance[v]
  BY <1>5, WalletsMove
<1>7. /\ moved'[x]["REFUND"] = moved[x]["REFUND"] + a
      /\ \A k \in Kinds \ {"REFUND"} : moved'[x][k] = moved[x][k]
      /\ \A v \in Users \ {x} : moved'[v] = moved[v]
  BY <1>5 DEF IndInv, TypeOK, Kinds
<1>8. /\ Others(x)' = Others(x) + a
      /\ \A v \in Users \ {x} : Others(v)' = Others(v)
  <2>1. \A k \in Kinds : moved[x][k] \in Nat
    BY NumbersHold DEF Numbers
  <2> QED BY <1>7, <2>1 DEF Others, Kinds
<1>9. Adjusted' = Adjusted
  <2>1. Adjusted' = Adjusted + (moved'[x]["ADDED"] - moved'[x]["DEDUCTED"])
                             - (moved[x]["ADDED"] - moved[x]["DEDUCTED"])
    BY <1>7, AdjustedMove
  <2>2. /\ moved[x]["ADDED"] \in Nat /\ moved[x]["DEDUCTED"] \in Nat
        /\ Adjusted \in Int
    BY NumbersHold DEF Numbers, Kinds
  <2>3. moved'[x]["ADDED"] = moved[x]["ADDED"]
        /\ moved'[x]["DEDUCTED"] = moved[x]["DEDUCTED"]
    BY <1>7 DEF Kinds
  <2> QED BY <2>1, <2>2, <2>3
<1>10. Fees' = Fees - req[w].fee /\ SumAmount(Paid)' = SumAmount(Paid) - a
  <2>1. w \in Paid /\ w \notin Paid'
    BY <1>2 DEF Paid
  <2>2. /\ FeePart(w) = req[w].fee /\ FeePart(w)' = 0
        /\ Part(w, Paid) = a /\ Part(w, Paid)' = 0
    BY <1>4, <2>1 DEF FeePart, Part
  <2>3. /\ Fees' = Fees + FeePart(w)' - FeePart(w)
        /\ SumAmount(Paid)' = SumAmount(Paid) + Part(w, Paid)' - Part(w, Paid)
    BY <1>2, FeeRow, RowSums
  <2>4. req[w].fee \in Nat
    BY DEF IndInv, TypeOK, Request
  <2> QED BY <2>2, <2>3, <2>4, NumbersHold DEF Numbers
<1>11. ASSUME NEW u \in Users PROVE Explained(u)' /\ Covered(u)'
  <2>0. Explained(u) /\ Covered(u)
    BY <1>0
  <2>1. /\ (w \in Completed(u)' <=> w \in Completed(u))
        /\ w \notin (Own(u) \cap held)' /\ w \notin Own(u) \cap held
    BY <1>2 DEF Completed, Own, SameRequest
  <2>2. /\ Part(w, Completed(u))' = Part(w, Completed(u))
        /\ Part(w, Own(u) \cap held)' = 0 /\ Part(w, Own(u) \cap held) = 0
        /\ Part(w, Completed(u)) \in Int
    BY <1>2, <1>4, <2>1 DEF Part, SameRequest
  <2>3. /\ SumAmount(Completed(u))' = SumAmount(Completed(u))
             + Part(w, Completed(u))' - Part(w, Completed(u))
        /\ HeldRial(u)' = HeldRial(u) + Part(w, Own(u) \cap held)'
                                      - Part(w, Own(u) \cap held)
    BY <1>2, RowSums
  <2>4. /\ HeldRial(u) \in Nat /\ SumAmount(Completed(u)) \in Nat
        /\ balance[u] \in Nat /\ Others(u) \in Int /\ Opening \in Int
        /\ moved[u]["DEDUCTED"] \in Nat /\ moved[u]["SHOP_PURCHASE"] \in Nat
    BY NumbersHold, WalletAssumption DEF Numbers, Kinds
  <2>5. /\ SumAmount(Completed(u))' = SumAmount(Completed(u))
        /\ HeldRial(u)' = HeldRial(u)
        /\ balance'[u] = balance[u] + IF u = x THEN a ELSE 0
        /\ Others(u)' = Others(u) + IF u = x THEN a ELSE 0
        /\ moved'[u]["DEDUCTED"] = moved[u]["DEDUCTED"]
        /\ moved'[u]["SHOP_PURCHASE"] = moved[u]["SHOP_PURCHASE"]
    BY <1>6, <1>7, <1>8, <2>2, <2>3, <2>4 DEF Kinds
  <2>6. Explained(u)'
    BY <2>0, <2>4, <2>5 DEF Explained
  <2>7. Covered(u)'
    BY <2>0, <2>4, <2>5 DEF Covered
  <2> QED BY <2>6, <2>7
<1>12. Booked'
  <2>1. /\ ledger'["2010"] = ledger["2010"] + a
        /\ ledger'["1010"] = ledger["1010"] - a + req[w].fee
        /\ ledger'["4090"] = ledger["4090"] - req[w].fee
    BY <1>4, <1>5, PaymentPosted
  <2>2. /\ req[w].fee \in Nat /\ Wallets \in Int /\ Fees \in Int
        /\ SumAmount(Paid) \in Int /\ Adjusted \in Int
        /\ Opening * Cardinality(Users) \in Int
    BY NumbersHold, OpeningInt DEF Numbers, IndInv, TypeOK, Request
  <2> DEFINE o == Opening * Cardinality(Users)
  <2>3. ledger["2010"] = Wallets /\ ledger["4090"] = Fees
        /\ ledger["1010"] = SumAmount(Paid) - Fees - Adjusted - o
    BY <1>0 DEF Booked
  <2> HIDE DEF o
  <2>4. /\ ledger'["2010"] = Wallets' /\ ledger'["4090"] = Fees'
        /\ ledger'["1010"] = SumAmount(Paid)' - Fees' - Adjusted' - o
    BY <1>6, <1>9, <1>10, <2>1, <2>2, <2>3 DEF o
  <2> QED BY <2>4 DEF Booked, o
<1> QED BY <1>11, <1>12, MoneyIsNext

\* The other writers: the balance, the history and account 2010 move by the
\* same amount; only an adjustment touches the bank's account, and only a
\* purchase of gold looks at the holds.
Incoming == {"ADDED", "SELL_GOLD"}
ByAdmin  == {"ADDED", "DEDUCTED"}

LEMMA WriterMoney ==
  ASSUME IndInv, IndInv', Money, Quiet, NEW u \in Users, NEW m \in Nat, NEW a \in Int,
         NEW k \in Kinds \ {"REFUND"}, a = IF k \in Incoming THEN m ELSE -m,
         Move(u, a), Add(u, k, m),
         ledger'["2010"] = ledger["2010"] + a,
         ledger'["4090"] = ledger["4090"],
         ledger'["1010"] = ledger["1010"] - IF k \in ByAdmin THEN a ELSE 0,
         k = "BUY_GOLD" => balance[u] - HeldRial(u) >= m
  PROVE  Money'
<1> USE DEF Incoming, ByAdmin
<1>0. (\A v \in Users : Explained(v) /\ Covered(v)) /\ Booked
  BY MoneyIs
<1>1. /\ Wallets' = Wallets + a /\ balance'[u] = balance[u] + a
      /\ \A v \in Users \ {u} : balance'[v] = balance[v]
  BY WalletsMove
<1>2. /\ \A v : /\ HeldRial(v)' = HeldRial(v)
                /\ SumAmount(Completed(v))' = SumAmount(Completed(v))
      /\ SumAmount(Paid)' = SumAmount(Paid) /\ Fees' = Fees
  BY QuietSums DEF Fees
<1>3. /\ moved'[u][k] = moved[u][k] + m
      /\ \A j \in Kinds \ {k} : moved'[u][j] = moved[u][j]
      /\ \A v \in Users \ {u} : moved'[v] = moved[v]
  BY DEF IndInv, TypeOK, Add
<1>4. \A v \in Users : \A j \in Kinds : moved[v][j] \in Nat /\ moved'[v][j] \in Nat
  BY NumbersHold, NumbersHoldNext DEF Numbers
<1>5. /\ Others(u)' = Others(u) + a
      /\ \A v \in Users \ {u} : Others(v)' = Others(v)
  <2>1. \A v \in Users \ {u} : Others(v)' = Others(v)
    BY <1>3 DEF Others
  <2>2. \A j \in Kinds : moved'[u][j] = moved[u][j] + IF j = k THEN m ELSE 0
    BY <1>3, <1>4
  <2> DEFINE f == [j \in Kinds |-> IF j = k THEN m ELSE 0]
  <2>3. /\ \A j \in Kinds : f[j] \in Nat /\ moved'[u][j] = moved[u][j] + f[j]
        /\ f["REFUND"] = 0
        /\ f["ADDED"] + f["SELL_GOLD"] - f["DEDUCTED"] - f["BUY_GOLD"]
             - f["SHOP_PURCHASE"] = a
    <3>1. k = "ADDED" \/ k = "DEDUCTED" \/ k = "BUY_GOLD" \/ k = "SELL_GOLD"
               \/ k = "SHOP_PURCHASE"
      BY DEF Kinds
    <3> QED BY <2>2, <3>1 DEF Kinds
  <2> HIDE DEF f
  <2>4. {"REFUND", "ADDED", "SELL_GOLD", "DEDUCTED", "BUY_GOLD", "SHOP_PURCHASE"}
          \subseteq Kinds
    BY DEF Kinds
  <2>5. Others(u)' = Others(u) + a
    BY <1>4, <2>3, <2>4 DEF Others
  <2> QED BY <2>1, <2>5
<1>6. Adjusted' = Adjusted + IF k \in ByAdmin THEN a ELSE 0
  <2>1. Adjusted' = Adjusted + (moved'[u]["ADDED"] - moved'[u]["DEDUCTED"])
                             - (moved[u]["ADDED"] - moved[u]["DEDUCTED"])
    BY <1>3, AdjustedMove
  <2>2. /\ moved[u]["ADDED"] \in Nat /\ moved[u]["DEDUCTED"] \in Nat
        /\ Adjusted \in Int
    BY NumbersHold DEF Numbers, Kinds
  <2> QED BY <1>3, <2>1, <2>2 DEF Kinds
<1>7. ASSUME NEW v \in Users PROVE Explained(v)' /\ Covered(v)'
  <2>0. Explained(v) /\ Covered(v)
    BY <1>0
  <2>1. /\ HeldRial(v) \in Nat /\ SumAmount(Completed(v)) \in Nat
        /\ balance[v] \in Nat /\ Others(v) \in Int /\ Opening \in Int
    BY NumbersHold, WalletAssumption DEF Numbers
  <2>2. Explained(v)'
    BY <1>1, <1>2, <1>5, <2>0, <2>1 DEF Explained
  <2>3. CASE v # u
    BY <1>1, <1>2, <1>3, <2>0, <2>2, <2>3 DEF Covered
  <2>4. CASE v = u
    <3>1. HeldRial(u) - balance[u]
            <= moved[u]["DEDUCTED"] + moved[u]["SHOP_PURCHASE"]
      BY <2>0, <2>4 DEF Covered
    <3>2. HeldRial(u) - balance'[u]
            <= moved'[u]["DEDUCTED"] + moved'[u]["SHOP_PURCHASE"]
      BY <1>1, <1>3, <1>4, <2>1, <2>4, <3>1 DEF Kinds
    <3> QED BY <1>2, <2>2, <2>4, <3>2 DEF Covered
  <2> QED BY <2>3, <2>4
<1>8. Booked'
  <2> DEFINE o == Opening * Cardinality(Users)
  <2>1. /\ Wallets \in Int /\ Fees \in Int /\ SumAmount(Paid) \in Int
        /\ Adjusted \in Int /\ o \in Int
    BY NumbersHold, OpeningInt DEF Numbers
  <2>2. ledger["2010"] = Wallets /\ ledger["4090"] = Fees
        /\ ledger["1010"] = SumAmount(Paid) - Fees - Adjusted - o
    BY <1>0 DEF Booked
  <2> HIDE DEF o
  <2>3. /\ ledger'["2010"] = Wallets' /\ ledger'["4090"] = Fees'
        /\ ledger'["1010"] = SumAmount(Paid)' - Fees' - Adjusted' - o
    BY <1>1, <1>2, <1>6, <2>1, <2>2 DEF o
  <2> QED BY <2>3 DEF Booked, o
<1> QED BY <1>7, <1>8, MoneyIsNext

\* What a journal entry of two lines does to the three accounts
LEMMA LinesPosted ==
  ASSUME IndInv, NEW d \in Accounts, NEW c \in Accounts, d # c, NEW a \in Int,
         Post(Lines(d, c, a)), NEW x \in Accounts
  PROVE  ledger'[x] = ledger[x] + (IF x = c THEN a ELSE 0) - IF x = d THEN a ELSE 0
<1>1. ledger[x] \in Int /\ ledger'[x] = ledger[x] + Lines(d, c, a)[x]
  BY DEF IndInv, TypeOK, Post
<1>2. Lines(d, c, a)[x] = (IF x = c THEN a ELSE 0) - IF x = d THEN a ELSE 0
  BY DEF Lines
<1> QED BY <1>1, <1>2

LEMMA AdjustMoney ==
  ASSUME IndInv, IndInv', Money, NEW s \in Sessions, AdjustCommit(s)
  PROVE  Money'
<1>1. PICK u \in Users, a \in Int : u = tx[s].user /\ a = tx[s].amount
  BY DEF IndInv, TypeOK, SessionInv, Session, AdjustCommit
<1>2. /\ Quiet /\ Move(u, a) /\ Post(Lines("1010", "2010", a))
      /\ IF a > 0 THEN Add(u, "ADDED", a) ELSE Add(u, "DEDUCTED", -a)
  BY <1>1 DEF AdjustCommit, docs, Quiet
<1>3. /\ ledger'["2010"] = ledger["2010"] + a /\ ledger'["4090"] = ledger["4090"]
      /\ ledger'["1010"] = ledger["1010"] - a
  <2>1. \A x \in Accounts : ledger[x] \in Int /\ ledger'[x] = ledger[x]
           + (IF x = "2010" THEN a ELSE 0) - IF x = "1010" THEN a ELSE 0
    BY <1>2, LinesPosted DEF Accounts, IndInv, TypeOK
  <2> QED BY <2>1 DEF Accounts
<1>4. CASE a > 0
  <2>1. a \in Nat /\ "ADDED" \in Kinds \ {"REFUND"} /\ "ADDED" \in Incoming \cap ByAdmin
    BY <1>4 DEF Kinds, Incoming, ByAdmin
  <2> QED BY <1>2, <1>3, <1>4, <2>1, WriterMoney
<1>5. CASE ~(a > 0)
  <2>1. PICK m \in Nat : m = -a
    BY <1>5
  <2>2. /\ a = -m /\ "DEDUCTED" \in Kinds \ {"REFUND"}
        /\ "DEDUCTED" \in ByAdmin \ Incoming
    BY <2>1 DEF Kinds, Incoming, ByAdmin
  <2>3. Add(u, "DEDUCTED", m)
    BY <1>2, <1>5, <2>1
  <2> QED BY <1>2, <1>3, <2>2, <2>3, WriterMoney
<1> QED BY <1>4, <1>5

LEMMA LegMoney ==
  ASSUME IndInv, IndInv', Money, NEW u \in Users, NEW a \in Moves,
         BuyGold(u, a) \/ SellGold(u, a) \/ ShopCapture(u, a)
  PROVE  Money'
<1>1. a \in Nat /\ a \in Int /\ -a \in Int
  BY WalletAssumption
<1>2. {"2010", "1010", "4090", "trade", "sales"} = Accounts
  BY DEF Accounts
<1>3. \A x \in Accounts : ledger[x] \in Int
  BY DEF IndInv, TypeOK
<1>4. CASE BuyGold(u, a)
  <2>1. /\ Quiet /\ Move(u, -a) /\ Add(u, "BUY_GOLD", a)
        /\ Post(Lines("2010", "trade", a)) /\ balance[u] - HeldRial(u) >= a
    BY <1>4 DEF BuyGold, docs, Quiet
  <2>2. \A x \in Accounts : ledger'[x] = ledger[x]
           + (IF x = "trade" THEN a ELSE 0) - IF x = "2010" THEN a ELSE 0
    BY <1>1, <1>2, <2>1, LinesPosted
  <2>3. /\ ledger'["2010"] = ledger["2010"] + (-a)
        /\ ledger'["4090"] = ledger["4090"] /\ ledger'["1010"] = ledger["1010"] - 0
    BY <1>1, <1>2, <1>3, <2>2
  <2>4. /\ "BUY_GOLD" \in Kinds \ {"REFUND"}
        /\ "BUY_GOLD" \notin Incoming /\ "BUY_GOLD" \notin ByAdmin
    BY DEF Kinds, Incoming, ByAdmin
  <2> QED BY <1>1, <2>1, <2>3, <2>4, WriterMoney
<1>5. CASE SellGold(u, a)
  <2>1. /\ Quiet /\ Move(u, a) /\ Add(u, "SELL_GOLD", a)
        /\ Post(Lines("trade", "2010", a))
    BY <1>5 DEF SellGold, docs, Quiet
  <2>2. \A x \in Accounts : ledger'[x] = ledger[x]
           + (IF x = "2010" THEN a ELSE 0) - IF x = "trade" THEN a ELSE 0
    BY <1>1, <1>2, <2>1, LinesPosted
  <2>3. /\ ledger'["2010"] = ledger["2010"] + a
        /\ ledger'["4090"] = ledger["4090"] /\ ledger'["1010"] = ledger["1010"] - 0
    BY <1>1, <1>2, <1>3, <2>2
  <2>4. /\ "SELL_GOLD" \in Kinds \ {"REFUND"}
        /\ "SELL_GOLD" \in Incoming /\ "SELL_GOLD" \notin ByAdmin
    BY DEF Kinds, Incoming, ByAdmin
  <2> QED BY <1>1, <2>1, <2>3, <2>4, WriterMoney
<1>6. CASE ShopCapture(u, a)
  <2>1. /\ Quiet /\ Move(u, -a) /\ Add(u, "SHOP_PURCHASE", a)
        /\ Post(Lines("2010", "sales", a))
    BY <1>6 DEF ShopCapture, docs, Quiet
  <2>2. \A x \in Accounts : ledger'[x] = ledger[x]
           + (IF x = "sales" THEN a ELSE 0) - IF x = "2010" THEN a ELSE 0
    BY <1>1, <1>2, <2>1, LinesPosted
  <2>3. /\ ledger'["2010"] = ledger["2010"] + (-a)
        /\ ledger'["4090"] = ledger["4090"] /\ ledger'["1010"] = ledger["1010"] - 0
    BY <1>1, <1>2, <1>3, <2>2
  <2>4. /\ "SHOP_PURCHASE" \in Kinds \ {"REFUND"}
        /\ "SHOP_PURCHASE" \notin Incoming /\ "SHOP_PURCHASE" \notin ByAdmin
    BY DEF Kinds, Incoming, ByAdmin
  <2> QED BY <1>1, <2>1, <2>3, <2>4, WriterMoney
<1> QED BY <1>4, <1>5, <1>6

LEMMA InitMoney == Init => Money /\ LimitsInv /\ LimitsHold
<1> SUFFICES ASSUME Init PROVE Money /\ LimitsInv /\ LimitsHold
  OBVIOUS
<1>0. IndInv
  BY InitInv
<1>1. /\ held = {} /\ day = 1 /\ 1 \in Days /\ DailyLimit \in Nat /\ MonthlyLimit \in Nat
      /\ \A w \in Withdrawals : txn[w] = "none" /\ req[w].status = "none"
      /\ \A u \in Users : balance[u] = Opening
      /\ \A u \in Users, k \in Kinds : moved[u][k] = 0
      /\ \A s \in Sessions : tx[s].step = "idle"
  BY WalletAssumption DEF Init, NoRow, Idle, OnRequest
<1>2. /\ Paid = {}
      /\ \A u : Completed(u) = {} /\ Counted(u) = {} /\ Own(u) \cap held = {}
      /\ \A u, d : {w \in Counted(u) : req[w].day = d} = {}
  BY <1>1 DEF Paid, Completed, Counted, Own
<1>3. /\ SumAmount(Paid) = 0 /\ Fees = 0
      /\ \A u : /\ HeldRial(u) = 0 /\ SumAmount(Completed(u)) = 0
                /\ SumAmount(Counted(u)) = 0
      /\ \A u, d : UsedOn(u, d) = 0
  BY <1>2, SumEmpty DEF SumAmount, Fees, HeldRial, UsedOn
<1>4. LimitsInv /\ LimitsHold
  BY <1>1, <1>3 DEF LimitsInv, LimitsHold
<1>5. ASSUME NEW u \in Users PROVE Explained(u) /\ Covered(u)
  <2>1. {"REFUND", "ADDED", "DEDUCTED", "SELL_GOLD", "BUY_GOLD", "SHOP_PURCHASE"} = Kinds
    BY DEF Kinds
  <2>2. Others(u) = 0 /\ balance[u] = Opening /\ Opening \in Nat
    BY <1>1, <2>1, WalletAssumption DEF Others
  <2> QED BY <1>1, <1>3, <2>1, <2>2 DEF Explained, Covered
<1>6. Booked
  <2> DEFINE o == Opening * Cardinality(Users)
             z == 0 * Cardinality(Users)
  <2>1. Wallets = o
    <3>1. \A u \in Users : balance[u] = Opening
      BY <1>1
    <3> QED BY <3>1, WalletAssumption, SumUniform DEF Wallets
  <2>2. Adjusted = 0
    <3>1. \A u \in Users : ByHand[u] = 0
      <4>1. {"ADDED", "DEDUCTED"} \subseteq Kinds
        BY DEF Kinds
      <4>2. \A u \in Users : moved[u]["ADDED"] - moved[u]["DEDUCTED"] = 0
        BY <1>1, <4>1
      <4> QED BY <4>2 DEF ByHand
    <3>2. Adjusted = z
      BY <3>1, WalletAssumption, SumUniform DEF Adjusted
    <3>3. Cardinality(Users) \in Nat
      BY WalletAssumption, FS_CardinalityType
    <3> QED BY <3>2, <3>3
  <2>3. o \in Int
    BY OpeningInt
  <2>4. ledger["2010"] = o /\ ledger["1010"] = -o /\ ledger["4090"] = 0
    BY DEF Init, Accounts
  <2> HIDE DEF o
  <2>5. ledger["1010"] = SumAmount(Paid) - Fees - Adjusted - o
    BY <1>3, <2>2, <2>3, <2>4
  <2> QED BY <1>3, <2>1, <2>4, <2>5 DEF Booked, o
<1> QED BY <1>0, <1>4, <1>5, <1>6, MoneyIs

LEMMA MoneyStep == IndInv /\ IndInv' /\ Money /\ [Next]_vars => Money'
<1> SUFFICES ASSUME IndInv, IndInv', Money, [Next]_vars PROVE Money'
  OBVIOUS
<1>1. ASSUME NEW s \in Sessions, NEW u \in Users, NEW a \in Amounts,
             RequestBegin(s, u, a)
      PROVE  Money'
  BY <1>1, StillMoney DEF RequestBegin, docs, Quiet
<1>2. ASSUME NEW s \in Sessions, NEW w \in Withdrawals, RequestCommit(s, w)
      PROVE  Money'
  BY <1>2, RequestMoney
<1>3. ASSUME NEW w \in Withdrawals, Cancel(w) \/ \E p \in Admins : Reject(w, p)
      PROVE  Money'
  <2>1. UNCHANGED <<balance, ledger, moved>>
    BY <1>3 DEF Cancel, Reject
  <2>2. /\ RowStep(w) /\ SameRequest(w) /\ w \notin held'
        /\ txn[w] = "PENDING" /\ txn'[w] = "FAILED"
        /\ req[w].status \in {"PENDING", "APPROVED"}
        /\ req'[w].status \in {"CANCELLED", "REJECTED"}
    BY <1>3, CloseRow DEF Open
  <2> QED BY <2>1, <2>2, DecisionMoney
<1>4. ASSUME NEW w \in Withdrawals, NEW p \in Admins, Approve(w, p)
      PROVE  Money'
  <2>1. UNCHANGED <<balance, ledger, moved>>
    BY <1>4 DEF Approve
  <2> QED BY <1>4, <2>1, ApproveRow, DecisionMoney
<1>5. ASSUME NEW s \in Sessions, PayCommit(s) PROVE Money'
  BY <1>5, PayMoney
<1>6. ASSUME NEW s \in Sessions, ReturnCommit(s) PROVE Money'
  BY <1>6, ReturnMoney
<1>7. ASSUME NEW s \in Sessions, NEW w \in Withdrawals, NEW p \in Admins,
             PayBegin(s, w, p)
      PROVE  Money'
  BY <1>7, StillMoney DEF PayBegin, docs, Quiet
<1>8. ASSUME NEW s \in Sessions, NEW w \in Withdrawals, ReturnBegin(s, w)
      PROVE  Money'
  BY <1>8, StillMoney DEF ReturnBegin, docs, Quiet
<1>9. ASSUME NEW s \in Sessions, NEW u \in Users, NEW a, AdjustBegin(s, u, a)
      PROVE  Money'
  BY <1>9, StillMoney DEF AdjustBegin, docs, Quiet
<1>10. ASSUME NEW s \in Sessions, AdjustCommit(s) PROVE Money'
  BY <1>10, AdjustMoney
<1>11. ASSUME NEW s \in Sessions, Abort(s) PROVE Money'
  BY <1>11, StillMoney DEF Abort, docs, Quiet
<1>12. ASSUME NEW u \in Users, NEW a \in Moves,
              BuyGold(u, a) \/ SellGold(u, a) \/ ShopCapture(u, a)
       PROVE  Money'
  BY <1>12, LegMoney
<1>13. CASE Midnight
  BY <1>13, StillMoney DEF Midnight, docs, Quiet
<1>14. CASE UNCHANGED vars
  BY <1>14, StillMoney DEF vars, Quiet
<1> QED
  BY <1>1, <1>2, <1>3, <1>4, <1>5, <1>6, <1>7, <1>8, <1>9, <1>10, <1>11, <1>12,
     <1>13, <1>14 DEF Next

-----------------------------------------------------------------------------
(* What follows for every reachable state.                                   *)

\* A wallet's limits, balance, books and holds, together with the tables of
\* the requests: what the results below are parts of.
THEOREM MoneyInvariance == Spec => [](IndInv /\ LimitsInv /\ LimitsHold /\ Money)
<1>1. Spec => []IndInv
  BY WalletInvariance
<1> QED BY <1>1, InitMoney, LimitsStep, MoneyStep, PTL DEF Spec

\* No user's withdrawals of a day, or of the month, exceed the limits: the
\* wallet is locked before they are added up, so two calls never both count
\* the same room, and a call that runs across midnight finds the new day
\* as empty as it needs.
THEOREM LimitsAlwaysHold == Spec => []LimitsHold
BY MoneyInvariance, PTL

\* The balance of a wallet is always what its history adds up to: payments,
\* returns and adjustments reach it once each, in whatever order.
THEOREM WalletAlwaysExplained == Spec => []WalletExplained
<1>1. Money => WalletExplained
  BY DEF Money
<1> QED BY <1>1, MoneyInvariance, PTL

\* Account 2010 is always what the wallets hold, the fee account what the
\* standing payments charged, and the bank account what left and was added.
THEOREM BooksAlwaysExplained == Spec => []BooksExplained
<1>1. Money => BooksExplained
  BY DEF Money
<1> QED BY <1>1, MoneyInvariance, PTL

\* A hold is never missing from the wallet by more than what admins deducted
\* and shop orders took, the two writers that do not look at holds.
THEOREM HoldsAlwaysCoveredButForced == Spec => []HoldsCoveredButForced
<1>1. Money => HoldsCoveredButForced
  BY DEF Money
<1> QED BY <1>1, MoneyInvariance, PTL

=============================================================================
