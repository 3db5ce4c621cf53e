---------------------------- MODULE FundsProofs ----------------------------
(***************************************************************************)
(* Proofs about the two components that take deposits.                      *)
(*                                                                          *)
(* Deposit, for any users, sessions, amounts, limits and numbers of         *)
(* requests: types, one credit per approved request, one request per        *)
(* idempotency key, papers that follow their request, wallets and books     *)
(* that hold what was approved, and by how much concurrent calls may exceed *)
(* the daily limit.  DepositIndInv adds that a receipt belongs to a request *)
(* that left PENDING_PAYMENT for good, and that a request that was not made *)
(* has no pro-forma.                                                        *)
(*                                                                          *)
(* AgentFunds, for any orders, deposits, withdrawals, calls and amounts:    *)
(* types (the wallet is never overdrawn, and what is reserved is there),    *)
(* what the wallet holds, what is reserved, what is owed, and that a        *)
(* gateway deposit is credited only when its money was taken.  IndInv adds  *)
(* what a call knows between its steps (CallInv) and that one approval at a *)
(* time holds the wallet (OnePays); the sums over deposits, orders and      *)
(* withdrawals (MoneyInv) are followed one row at a time on top of it.      *)
(***************************************************************************)
EXTENDS Deposit, AgentFunds, SumFacts, FiniteSetTheorems, TLAPS

-----------------------------------------------------------------------------
(* DEPOSITS OF USERS                                                         *)


Papers(d) ==
  proforma[d] # "none" =>
     /\ req[d].status = "APPROVED" <=> proforma[d] = "CONSUMED"
     /\ proforma[d] = "EXPIRED" => req[d].status = "EXPIRED"
     /\ proforma[d] = "ISSUED" =>
          /\ req[d].status \notin {"CANCELLED", "EXPIRED"}
          /\ req[d].rejections < MAX_REJECTIONS

RequestInv(d) ==
  /\ credits[d] = IF req[d].status = "APPROVED" THEN 1 ELSE 0
  /\ d \in receipts => req[d].status \notin {"none", "PENDING_PAYMENT", "EXPIRED"}
  /\ req[d].status = "none" => proforma[d] = "none"
  /\ Papers(d)

KeysDiffer ==
  \A d, e \in Requests :
    d # e /\ req[d].key # NoKey => req[d].key # req[e].key

DepositIndInv == DepositTypeOK /\ KeysDiffer /\ \A d \in Requests : RequestInv(d)

-----------------------------------------------------------------------------
(* The state machine of a request.                                           *)

LEMMA RowStatus ==
  ASSUME DepositTypeOK, NEW d \in Requests
  PROVE  req[d] \in Row \cup {NoRequest} /\ req[d].status \in Statuses
BY DEF DepositTypeOK, Row, NoRequest, Statuses

\* From which status each status can be reached.
LEMMA Sources ==
  ASSUME DepositTypeOK, NEW d \in Requests
  PROVE  /\ canTransition(d, "RECEIPT_UPLOADED") =>
              req[d].status \in {"PENDING_PAYMENT", "UNDER_REVIEW", "REJECTED"}
         /\ canTransition(d, "UNDER_REVIEW") => req[d].status = "RECEIPT_UPLOADED"
         /\ canTransition(d, "APPROVED") => req[d].status = "UNDER_REVIEW"
         /\ canTransition(d, "REJECTED") => req[d].status = "UNDER_REVIEW"
         /\ canTransition(d, "CANCELLED") =>
              req[d].status \in {"PENDING_PAYMENT", "RECEIPT_UPLOADED"}
<1>1. req[d].status \in Statuses
  BY RowStatus
<1> DEFINE s == req[d].status
<1> HIDE DEF s
<1>2. ASSUME NEW r \in Statuses
      PROVE  /\ r = "PENDING_PAYMENT" =>
                  TRANSITIONS[r] = {"RECEIPT_UPLOADED", "CANCELLED", "EXPIRED"}
             /\ r = "RECEIPT_UPLOADED" =>
                  TRANSITIONS[r] = {"UNDER_REVIEW", "CANCELLED"}
             /\ r = "UNDER_REVIEW" =>
                  TRANSITIONS[r] = {"APPROVED", "REJECTED", "RECEIPT_UPLOADED"}
             /\ r = "REJECTED" => TRANSITIONS[r] = {"RECEIPT_UPLOADED"}
             /\ r \in {"none", "APPROVED", "CANCELLED", "EXPIRED"} =>
                  TRANSITIONS[r] = {}
  BY DEF TRANSITIONS, Statuses
<1>3. \A t : canTransition(d, t) => t \in TRANSITIONS[req[d].status]
  BY DEF canTransition
<1> QED BY <1>1, <1>2, <1>3 DEF Statuses

\* A request that was made keeps its columns when its status is set.
LEMMA SetRow ==
  ASSUME DepositTypeOK, NEW d \in Requests, req[d].status # "none",
         NEW st \in Statuses \ {"none"}, Set(d, st)
  PROVE  /\ req' \in [Requests -> Row \cup {NoRequest}]
         /\ overdue' \subseteq Requests
         /\ req'[d] = [req[d] EXCEPT !.status = st]
         /\ req'[d].status = st
         /\ req'[d].key = req[d].key /\ req'[d].rejections = req[d].rejections
         /\ \A e \in Requests \ {d} : req'[e] = req[e]
<1>1. req \in [Requests -> Row \cup {NoRequest}] /\ overdue \subseteq Requests
  BY DEF DepositTypeOK
<1>2. req[d] \in Row
  BY <1>1 DEF NoRequest
<1>3. [req[d] EXCEPT !.status = st] \in Row
  BY <1>2 DEF Row
<1>4. /\ req' = [req EXCEPT ![d] = [req[d] EXCEPT !.status = st]]
      /\ overdue' = overdue \ {d}
  BY DEF Set
<1> QED BY <1>1, <1>2, <1>3, <1>4 DEF Row

LEMMA ProformaClosed ==
  ASSUME DepositTypeOK, NEW d \in Requests,
         NEW st \in {"CONSUMED", "CANCELLED", "EXPIRED"}, CloseProforma(d, st)
  PROVE  /\ proforma' \in [Requests -> {"none", "ISSUED", "CONSUMED",
                                        "CANCELLED", "EXPIRED"}]
         /\ proforma'[d] = IF proforma[d] = "none" THEN "none" ELSE st
         /\ \A e \in Requests \ {d} : proforma'[e] = proforma[e]
BY DEF DepositTypeOK, CloseProforma

-----------------------------------------------------------------------------
(* One lemma per action that touches a request.                              *)

\* The other requests are as they were, and no key changes.
LEMMA Frame ==
  ASSUME DepositIndInv, DepositTypeOK', NEW d \in Requests, RequestInv(d)',
         req'[d].key = req[d].key,
         \A e \in Requests \ {d} : /\ req'[e] = req[e]
                                   /\ proforma'[e] = proforma[e]
                                   /\ credits'[e] = credits[e]
                                   /\ e \in receipts' => e \in receipts
  PROVE  DepositIndInv'
<1>1. ASSUME NEW e \in Requests PROVE RequestInv(e)'
  <2>1. CASE e = d
    BY <2>1
  <2>2. CASE e # d
    BY <2>2 DEF DepositIndInv, RequestInv, Papers
  <2> QED BY <2>1, <2>2
<1>2. KeysDiffer'
  <2>1. \A e \in Requests : req'[e].key = req[e].key
    OBVIOUS
  <2> QED BY <2>1 DEF DepositIndInv, KeysDiffer
<1> QED BY <1>1, <1>2 DEF DepositIndInv

\* Nothing that the invariant speaks of but the types changes.
LEMMA FrameAll ==
  ASSUME DepositIndInv, DepositTypeOK', UNCHANGED <<req, proforma, credits, receipts>>
  PROVE  DepositIndInv'
BY DEF DepositIndInv, KeysDiffer, RequestInv, Papers

LEMMA TxType ==
  ASSUME DepositTypeOK, NEW s \in Sessions, NEW x \in Session, tx' = [tx EXCEPT ![s] = x]
  PROVE  tx' \in [Sessions -> Session]
BY DEF DepositTypeOK

LEMMA DeclareInv ==
  ASSUME DepositIndInv, NEW s \in Sessions, NEW u \in Users, NEW a \in DepositAmounts,
         NEW m \in Methods, NEW k \in Keys \cup {NoKey}, Declare(s, u, a, m, k)
  PROVE  DepositIndInv'
<1>1. [step |-> "create", user |-> u, amount |-> a, method |-> m, key |-> k]
        \in Session
  BY DEF Session
<1>2. tx' \in [Sessions -> Session]
  BY <1>1, TxType DEF Declare, DepositIndInv
<1>3. DepositTypeOK'
  BY <1>2 DEF Declare, DepositIndInv, DepositTypeOK, money
<1> QED BY <1>3, FrameAll DEF Declare, money

LEMMA FinishCreateInv ==
  ASSUME DepositIndInv, NEW s \in Sessions, NEW d \in Requests, FinishCreate(s, d)
  PROVE  DepositIndInv'
<1> DEFINE c == tx[s]
<1>0. DepositTypeOK /\ KeysDiffer /\ RequestInv(d) /\ req[d].status = "none"
  BY DEF DepositIndInv, FinishCreate
<1>1. NoCall \in Session /\ tx' = [tx EXCEPT ![s] = NoCall]
  BY DEF FinishCreate, Session
<1>2. tx' \in [Sessions -> Session]
  BY <1>0, <1>1, TxType
<1>3. UNCHANGED <<receipts, overdue, balance, credits, ledger, batch>>
  BY DEF FinishCreate, money
<1>4. c.user \in Users /\ c.amount \in DepositAmounts /\ c.method \in Methods
      /\ c.key \in Keys \cup {NoKey}
  <2>1. c \in Session /\ c.step = "create"
    BY <1>0 DEF FinishCreate, DepositTypeOK
  <2> HIDE DEF c
  <2> QED BY <2>1 DEF Session, NoCall
<1>5. CASE KeyTaken(c.key)
  <2>1. UNCHANGED <<req, proforma>>
    BY <1>5 DEF FinishCreate, Insert
  <2>2. DepositTypeOK'
    BY <1>0, <1>2, <1>3, <2>1 DEF DepositTypeOK
  <2> QED BY <1>3, <2>1, <2>2, FrameAll
<1>6. CASE ~KeyTaken(c.key)
  <2> DEFINE r == [status |-> "PENDING_PAYMENT", user |-> c.user,
                   amount |-> c.amount, method |-> c.method, key |-> c.key,
                   rejections |-> 0]
  <2>1. /\ req' = [req EXCEPT ![d] = r]
        /\ proforma' = IF c.method = "LARGE_TRANSFER"
                         THEN [proforma EXCEPT ![d] = "ISSUED"] ELSE proforma
    BY <1>6 DEF FinishCreate, Insert
  <2>2. r \in Row
    BY <1>4 DEF Row, Statuses
  <2>3. r.status = "PENDING_PAYMENT" /\ r.key = c.key /\ r.rejections = 0
    OBVIOUS
  <2> HIDE DEF r, c
  <2>4. /\ req'[d] = r
        /\ \A e \in Requests \ {d} : req'[e] = req[e] /\ proforma'[e] = proforma[e]
        /\ req' \in [Requests -> Row \cup {NoRequest}]
        /\ proforma' \in [Requests -> {"none", "ISSUED", "CONSUMED", "CANCELLED",
                                       "EXPIRED"}]
        /\ proforma'[d] \in {"ISSUED", proforma[d]}
    BY <1>0, <2>1, <2>2 DEF DepositTypeOK
  <2>5. DepositTypeOK'
    BY <1>0, <1>2, <1>3, <2>4 DEF DepositTypeOK
  <2>6. RequestInv(d)'
    <3>1. /\ d \notin receipts /\ credits[d] = 0 /\ proforma[d] = "none"
      BY <1>0 DEF RequestInv
    <3>2. proforma'[d] \in {"ISSUED", "none"}
      BY <2>4, <3>1
    <3> QED BY <1>3, <2>3, <2>4, <3>1, <3>2, DepositAssumption DEF RequestInv, Papers
  <2>7. ASSUME NEW e \in Requests PROVE RequestInv(e)'
    <3>1. CASE e = d
      BY <2>6, <3>1
    <3>2. CASE e # d
      BY <1>3, <2>4, <3>2 DEF DepositIndInv, RequestInv, Papers
    <3> QED BY <3>1, <3>2
  <2>8. KeysDiffer'
    <3>1. \A e \in Requests : c.key # NoKey => req[e].key # c.key
      BY <1>6 DEF KeyTaken
    <3> QED BY <1>0, <2>3, <2>4, <3>1 DEF KeysDiffer
  <2> QED BY <2>5, <2>7, <2>8 DEF DepositIndInv
<1> QED BY <1>5, <1>6

LEMMA StartUploadInv ==
  ASSUME DepositIndInv, NEW s \in Sessions, NEW d \in Requests, StartUpload(s, d)
  PROVE  DepositIndInv'
<1>1. [step |-> "upload", id |-> d] \in Session
  BY DEF Session
<1>2. tx' \in [Sessions -> Session]
  BY <1>1, TxType DEF StartUpload, DepositIndInv
<1>3. DepositTypeOK'
  BY <1>2 DEF StartUpload, DepositIndInv, DepositTypeOK, money
<1> QED BY <1>3, FrameAll DEF StartUpload, money

\* A request is set to a status that no paper depends on.
LEMMA PlainMove ==
  ASSUME DepositIndInv, NEW d \in Requests, req[d].status \notin {"none", "APPROVED",
           "EXPIRED", "CANCELLED"},
         NEW st \in {"RECEIPT_UPLOADED", "UNDER_REVIEW"}, Set(d, st),
         UNCHANGED <<proforma, balance, credits, ledger, batch>>,
         tx' \in [Sessions -> Session],
         receipts' \in {receipts, receipts \cup {d}}
  PROVE  DepositIndInv'
<1>0. DepositTypeOK /\ RequestInv(d)
  BY DEF DepositIndInv
<1>1. /\ req' \in [Requests -> Row \cup {NoRequest}] /\ overdue' \subseteq Requests
      /\ req'[d].status = st /\ req'[d].key = req[d].key
      /\ req'[d].rejections = req[d].rejections
      /\ \A e \in Requests \ {d} : req'[e] = req[e]
  <2>1. st \in Statuses \ {"none"}
    BY DEF Statuses
  <2> QED BY <1>0, <2>1, SetRow
<1>2. receipts' \subseteq Requests
  BY <1>0 DEF DepositTypeOK
<1>3. DepositTypeOK'
  BY <1>0, <1>1, <1>2 DEF DepositTypeOK
<1>4. RequestInv(d)'
  BY <1>0, <1>1 DEF RequestInv, Papers
<1>5. \A e \in Requests \ {d} : e \in receipts' => e \in receipts
  OBVIOUS
<1> QED BY <1>1, <1>3, <1>4, <1>5, Frame

LEMMA FinishUploadInv ==
  ASSUME DepositIndInv, NEW s \in Sessions, FinishUpload(s)
  PROVE  DepositIndInv'
<1> DEFINE d == tx[s].id
<1>0. DepositTypeOK
  BY DEF DepositIndInv
<1>1. d \in Requests
  <2>1. tx[s] \in Session /\ tx[s].step = "upload"
    BY <1>0 DEF FinishUpload, DepositTypeOK
  <2> QED BY <2>1 DEF Session, NoCall
<1>2. tx' \in [Sessions -> Session]
  <2>1. NoCall \in Session
    BY DEF Session
  <2> QED BY <1>0, <2>1, TxType DEF FinishUpload
<1>3. UNCHANGED <<proforma, balance, credits, ledger, batch>>
  BY DEF FinishUpload, money
<1>4. CASE canTransition(d, "RECEIPT_UPLOADED")
  <2>1. receipts' = receipts \cup {d} /\ Set(d, "RECEIPT_UPLOADED")
    BY <1>4 DEF FinishUpload
  <2>2. req[d].status \in {"PENDING_PAYMENT", "UNDER_REVIEW", "REJECTED"}
    BY <1>0, <1>1, <1>4, Sources
  <2> HIDE DEF d
  <2> QED BY <1>1, <1>2, <1>3, <2>1, <2>2, PlainMove
<1>5. CASE ~canTransition(d, "RECEIPT_UPLOADED")
  <2>1. UNCHANGED <<receipts, req, overdue>>
    BY <1>5 DEF FinishUpload
  <2>2. DepositTypeOK'
    BY <1>0, <1>2, <1>3, <2>1 DEF DepositTypeOK
  <2> QED BY <1>3, <2>1, <2>2, FrameAll
<1> QED BY <1>4, <1>5

LEMMA ReviewMovesInv ==
  ASSUME DepositIndInv, NEW d \in Requests, startReview(d) \/ requestNewReceipt(d)
  PROVE  DepositIndInv'
<1>1. /\ UNCHANGED <<proforma, balance, credits, ledger, batch, receipts, tx>>
      /\ \/ canTransition(d, "UNDER_REVIEW") /\ Set(d, "UNDER_REVIEW")
         \/ canTransition(d, "RECEIPT_UPLOADED") /\ Set(d, "RECEIPT_UPLOADED")
  BY DEF startReview, requestNewReceipt, money
<1>2. DepositTypeOK /\ tx' \in [Sessions -> Session]
  BY <1>1 DEF DepositIndInv, DepositTypeOK
<1>3. req[d].status \in {"RECEIPT_UPLOADED", "PENDING_PAYMENT", "UNDER_REVIEW",
                         "REJECTED"}
  BY <1>1, <1>2, Sources
<1> QED BY <1>1, <1>2, <1>3, PlainMove

LEMMA cancelInv ==
  ASSUME DepositIndInv, NEW d \in Requests, cancel(d)
  PROVE  DepositIndInv'
<1>0. /\ DepositTypeOK /\ RequestInv(d) /\ canTransition(d, "CANCELLED")
      /\ Set(d, "CANCELLED") /\ CloseProforma(d, "CANCELLED")
      /\ UNCHANGED <<balance, credits, ledger, receipts, batch, tx>>
  BY DEF DepositIndInv, cancel, money
<1>1. req[d].status \in {"PENDING_PAYMENT", "RECEIPT_UPLOADED"}
  BY <1>0, Sources
<1>2. /\ req' \in [Requests -> Row \cup {NoRequest}] /\ overdue' \subseteq Requests
      /\ req'[d].status = "CANCELLED" /\ req'[d].key = req[d].key
      /\ req'[d].rejections = req[d].rejections
      /\ \A e \in Requests \ {d} : req'[e] = req[e]
  <2>1. "CANCELLED" \in Statuses \ {"none"}
    BY DEF Statuses
  <2> QED BY <1>0, <1>1, <2>1, SetRow
<1>3. /\ proforma' \in [Requests -> {"none", "ISSUED", "CONSUMED",
                                     "CANCELLED", "EXPIRED"}]
      /\ proforma'[d] = IF proforma[d] = "none" THEN "none" ELSE "CANCELLED"
      /\ \A e \in Requests \ {d} : proforma'[e] = proforma[e]
  BY <1>0, ProformaClosed
<1>4. DepositTypeOK'
  BY <1>0, <1>2, <1>3 DEF DepositTypeOK
<1>5. RequestInv(d)'
  BY <1>0, <1>1, <1>2, <1>3 DEF RequestInv, Papers
<1> QED BY <1>0, <1>2, <1>3, <1>4, <1>5, Frame

LEMMA approveInv ==
  ASSUME DepositIndInv, NEW d \in Requests, approveRequest(d)
  PROVE  DepositIndInv'
<1>0. /\ DepositTypeOK /\ RequestInv(d) /\ canTransition(d, "APPROVED")
      /\ Set(d, "APPROVED") /\ CloseProforma(d, "CONSUMED")
      /\ UNCHANGED <<receipts, batch, tx>>
      /\ balance' = [balance EXCEPT ![req[d].user] = @ + req[d].amount]
      /\ credits' = [credits EXCEPT ![d] = @ + 1]
      /\ ledger' = [bank |-> ledger.bank + req[d].amount,
                    liability |-> ledger.liability + req[d].amount]
  BY DEF DepositIndInv, approveRequest, MayApprove, Credit
<1>1. req[d].status = "UNDER_REVIEW"
  BY <1>0, Sources
<1>2. /\ req' \in [Requests -> Row \cup {NoRequest}] /\ overdue' \subseteq Requests
      /\ req'[d].status = "APPROVED" /\ req'[d].key = req[d].key
      /\ req'[d].rejections = req[d].rejections
      /\ \A e \in Requests \ {d} : req'[e] = req[e]
  <2>1. "APPROVED" \in Statuses \ {"none"}
    BY DEF Statuses
  <2> QED BY <1>0, <1>1, <2>1, SetRow
<1>3. /\ proforma' \in [Requests -> {"none", "ISSUED", "CONSUMED",
                                     "CANCELLED", "EXPIRED"}]
      /\ proforma'[d] = IF proforma[d] = "none" THEN "none" ELSE "CONSUMED"
      /\ \A e \in Requests \ {d} : proforma'[e] = proforma[e]
  BY <1>0, ProformaClosed
<1>4. req[d].amount \in Nat /\ req[d].user \in Users
  <2>1. req[d] \in Row
    BY <1>0, <1>1, RowStatus DEF NoRequest
  <2> QED BY <2>1, DepositAssumption DEF Row
<1>5. /\ credits'[d] = 1 /\ credits' \in [Requests -> Nat]
      /\ \A e \in Requests \ {d} : credits'[e] = credits[e]
  BY <1>0, <1>1 DEF DepositTypeOK, RequestInv
<1>6. balance' \in [Users -> Nat] /\ ledger' \in [bank: Nat, liability: Nat]
  BY <1>0, <1>4 DEF DepositTypeOK
<1>7. DepositTypeOK'
  BY <1>0, <1>2, <1>3, <1>5, <1>6 DEF DepositTypeOK
<1>8. RequestInv(d)'
  BY <1>0, <1>1, <1>2, <1>3, <1>5 DEF RequestInv, Papers
<1> QED BY <1>0, <1>2, <1>3, <1>5, <1>7, <1>8, Frame

LEMMA rejectInv ==
  ASSUME DepositIndInv, NEW d \in Requests, reject(d)
  PROVE  DepositIndInv'
<1>0. /\ DepositTypeOK /\ RequestInv(d) /\ canTransition(d, "REJECTED")
      /\ UNCHANGED <<balance, credits, ledger, receipts, batch, tx>>
      /\ req' = [req EXCEPT ![d].status = "REJECTED", ![d].rejections = @ + 1]
      /\ overdue' = overdue \ {d}
      /\ IF req[d].rejections + 1 >= MAX_REJECTIONS
           THEN CloseProforma(d, "CANCELLED") ELSE proforma' = proforma
  BY DEF DepositIndInv, reject, money
<1>1. req[d].status = "UNDER_REVIEW"
  BY <1>0, Sources
<1>2. req[d] \in Row
  BY <1>0, <1>1, RowStatus DEF NoRequest
<1>3. /\ req' \in [Requests -> Row \cup {NoRequest}] /\ overdue' \subseteq Requests
      /\ req'[d].status = "REJECTED" /\ req'[d].key = req[d].key
      /\ req'[d].rejections = req[d].rejections + 1
      /\ \A e \in Requests \ {d} : req'[e] = req[e]
  <2> DEFINE r == [req[d] EXCEPT !.status = "REJECTED", !.rejections = @ + 1]
  <2>1. req[d].rejections + 1 \in Nat /\ "REJECTED" \in Statuses \ {"none"}
    BY <1>2 DEF Row, Statuses
  <2>3. r \in Row /\ r.status = "REJECTED" /\ r.key = req[d].key
        /\ r.rejections = req[d].rejections + 1
    <3>1. r \in Row
      BY <1>2, <2>1 DEF Row
    <3>2. r.status = "REJECTED"
      BY <1>2 DEF Row
    <3>3. r.key = req[d].key
      BY <1>2 DEF Row
    <3>4. r.rejections = req[d].rejections + 1
      BY <1>2 DEF Row
    <3> QED BY <3>1, <3>2, <3>3, <3>4
  <2>4. req' = [req EXCEPT ![d] = r]
    BY <1>0
  <2>5. req \in [Requests -> Row \cup {NoRequest}] /\ overdue \subseteq Requests
    BY <1>0 DEF DepositTypeOK
  <2> HIDE DEF r
  <2>6. /\ req' \in [Requests -> Row \cup {NoRequest}] /\ req'[d] = r
        /\ \A e \in Requests \ {d} : req'[e] = req[e]
    BY <2>3, <2>4, <2>5
  <2> QED BY <1>0, <2>3, <2>5, <2>6
<1>4. req[d].rejections \in Nat
  BY <1>2 DEF Row
<1>5. CASE req[d].rejections + 1 >= MAX_REJECTIONS
  <2>1. /\ proforma' \in [Requests -> {"none", "ISSUED", "CONSUMED",
                                       "CANCELLED", "EXPIRED"}]
        /\ proforma'[d] = IF proforma[d] = "none" THEN "none" ELSE "CANCELLED"
        /\ \A e \in Requests \ {d} : proforma'[e] = proforma[e]
    BY <1>0, <1>5, ProformaClosed
  <2>2. DepositTypeOK'
    BY <1>0, <1>3, <2>1 DEF DepositTypeOK
  <2>3. RequestInv(d)'
    BY <1>0, <1>1, <1>3, <1>5, <2>1 DEF RequestInv, Papers
  <2> QED BY <1>0, <1>3, <2>1, <2>2, <2>3, Frame
<1>6. CASE ~(req[d].rejections + 1 >= MAX_REJECTIONS)
  <2>0. proforma' = proforma
    BY <1>0, <1>6
  <2>1. DepositTypeOK'
    <3>1. UNCHANGED <<balance, credits, ledger, receipts, batch, tx, proforma>>
      BY <1>0, <2>0
    <3> QED BY <1>0, <1>3, <3>1 DEF DepositTypeOK
  <2>2. RequestInv(d)'
    <3>1. req[d].rejections + 1 < MAX_REJECTIONS
      BY <1>4, <1>6, DepositAssumption
    <3>2. /\ UNCHANGED <<credits, receipts, proforma>>
          /\ RequestInv(d)
      BY <1>0, <2>0
    <3> QED BY <1>1, <1>3, <1>4, <3>1, <3>2, DepositAssumption
            DEF RequestInv, Papers
  <2>3. /\ \A e \in Requests \ {d} : proforma'[e] = proforma[e]
        /\ UNCHANGED <<credits, receipts>>
    BY <1>0, <2>0
  <2> QED BY <1>3, <2>1, <2>2, <2>3, Frame
<1> QED BY <1>5, <1>6

LEMMA CronCloseInv ==
  ASSUME DepositIndInv, NEW d \in Requests, CronClose(d)
  PROVE  DepositIndInv'
<1>0. /\ DepositTypeOK /\ RequestInv(d) /\ batch' \subseteq Requests
      /\ UNCHANGED <<balance, credits, ledger, receipts, tx>>
  BY DEF DepositIndInv, CronClose, money, DepositTypeOK
<1>1. CASE StillPending(d)
  <2>0. /\ req[d].status = "PENDING_PAYMENT"
        /\ Set(d, "EXPIRED") /\ CloseProforma(d, "EXPIRED")
    BY <1>1 DEF CronClose, StillPending
  <2>1. /\ req' \in [Requests -> Row \cup {NoRequest}] /\ overdue' \subseteq Requests
        /\ req'[d].status = "EXPIRED" /\ req'[d].key = req[d].key
        /\ req'[d].rejections = req[d].rejections
        /\ \A e \in Requests \ {d} : req'[e] = req[e]
    <3>1. "EXPIRED" \in Statuses \ {"none"}
      BY DEF Statuses
    <3> QED BY <1>0, <2>0, <3>1, SetRow
  <2>2. /\ proforma' \in [Requests -> {"none", "ISSUED", "CONSUMED",
                                       "CANCELLED", "EXPIRED"}]
        /\ proforma'[d] = IF proforma[d] = "none" THEN "none" ELSE "EXPIRED"
        /\ \A e \in Requests \ {d} : proforma'[e] = proforma[e]
    BY <1>0, <2>0, ProformaClosed
  <2>3. DepositTypeOK'
    BY <1>0, <2>1, <2>2 DEF DepositTypeOK
  <2>4. RequestInv(d)'
    BY <1>0, <2>0, <2>1, <2>2 DEF RequestInv, Papers
  <2> QED BY <1>0, <2>1, <2>2, <2>3, <2>4, Frame
<1>2. CASE ~StillPending(d)
  <2>1. UNCHANGED <<req, proforma, overdue>>
    BY <1>2 DEF CronClose
  <2>2. DepositTypeOK'
    BY <1>0, <2>1 DEF DepositTypeOK
  <2> QED BY <1>0, <2>1, <2>2, FrameAll
<1> QED BY <1>1, <1>2

\* The document alone: it was not used, and it does not stand any more.
LEMMA cancelInvoiceInv ==
  ASSUME DepositIndInv, NEW d \in Requests, cancelInvoice(d)
  PROVE  DepositIndInv'
<1>0. /\ DepositTypeOK /\ RequestInv(d) /\ proforma[d] \notin {"none", "CONSUMED"}
      /\ proforma' = [proforma EXCEPT ![d] = "CANCELLED"]
      /\ UNCHANGED <<req, receipts, overdue, balance, credits, ledger, batch, tx>>
  BY DEF DepositIndInv, cancelInvoice, money
<1>1. /\ proforma' \in [Requests -> {"none", "ISSUED", "CONSUMED",
                                     "CANCELLED", "EXPIRED"}]
      /\ proforma'[d] = "CANCELLED"
      /\ \A e \in Requests \ {d} : proforma'[e] = proforma[e]
  BY <1>0 DEF DepositTypeOK
<1>2. DepositTypeOK'
  BY <1>0, <1>1 DEF DepositTypeOK
<1>3. RequestInv(d)'
  BY <1>0, <1>1 DEF RequestInv, Papers
<1> QED BY <1>0, <1>1, <1>2, <1>3, Frame

\* Steps that change the job's list, the clock or the calls in flight only
LEMMA RestInv ==
  ASSUME DepositIndInv,
         \/ CronSelect \/ Crash
         \/ \E d \in Requests : DeadlinePasses(d) \/ CronSkip(d)
         \/ \E s \in Sessions : GiveUp(s)
  PROVE  DepositIndInv'
<1>1. UNCHANGED <<req, proforma, receipts, balance, credits, ledger>>
  BY DEF CronSelect, Crash, DeadlinePasses, CronSkip, GiveUp, money
<1>2. DepositTypeOK /\ NoCall \in Session
  BY DEF DepositIndInv, Session
<1>3. overdue' \subseteq Requests /\ batch' \subseteq Requests
  BY <1>2 DEF CronSelect, Crash, DeadlinePasses, CronSkip, GiveUp, DepositTypeOK, Stale
<1>4. tx' \in [Sessions -> Session]
  BY <1>2 DEF CronSelect, Crash, DeadlinePasses, CronSkip, GiveUp, DepositTypeOK
<1>5. DepositTypeOK'
  BY <1>1, <1>2, <1>3, <1>4 DEF DepositTypeOK
<1> QED BY <1>1, <1>5, FrameAll

LEMMA DepositInitInv == DepositInit => DepositIndInv
<1> SUFFICES ASSUME DepositInit PROVE DepositIndInv
  OBVIOUS
<1>1. DepositTypeOK
  <2>1. NoCall \in Session
    BY DEF Session
  <2> QED BY <2>1 DEF DepositInit, DepositTypeOK
<1>2. KeysDiffer
  BY DEF DepositInit, KeysDiffer, NoRequest
<1>3. ASSUME NEW d \in Requests PROVE RequestInv(d)
  BY DEF DepositInit, RequestInv, Papers, NoRequest
<1> QED BY <1>1, <1>2, <1>3 DEF DepositIndInv

LEMMA DepositNextInv == DepositIndInv /\ [DepositNext]_depositVars => DepositIndInv'
<1> SUFFICES ASSUME DepositIndInv, [DepositNext]_depositVars PROVE DepositIndInv'
  OBVIOUS
<1>1. CASE UNCHANGED depositVars
  <2>1. DepositTypeOK'
    BY <1>1 DEF depositVars, DepositIndInv, DepositTypeOK
  <2> QED BY <1>1, <2>1, FrameAll DEF depositVars
<1>2. ASSUME NEW s \in Sessions, NEW u \in Users, NEW a \in DepositAmounts,
             NEW k \in Keys \cup {NoKey}, create(s, u, a, k) \/ createManual(s, u, a, k)
      PROVE  DepositIndInv'
  BY <1>2, DeclareInv DEF create, createManual, Methods
<1>3. ASSUME NEW s \in Sessions, NEW d \in Requests,
             FinishCreate(s, d) \/ StartUpload(s, d)
      PROVE  DepositIndInv'
  BY <1>3, FinishCreateInv, StartUploadInv
<1>4. ASSUME NEW s \in Sessions, FinishUpload(s) \/ GiveUp(s)
      PROVE  DepositIndInv'
  BY <1>4, FinishUploadInv, RestInv
<1>5. ASSUME NEW d \in Requests,
             \/ cancel(d) \/ startReview(d) \/ approveRequest(d) \/ reject(d)
             \/ requestNewReceipt(d) \/ cancelInvoice(d) \/ DeadlinePasses(d)
             \/ CronClose(d) \/ CronSkip(d)
      PROVE  DepositIndInv'
  BY <1>5, ReviewMovesInv, cancelInv, approveInv, rejectInv, cancelInvoiceInv,
     CronCloseInv, RestInv
<1>6. CASE CronSelect \/ Crash
  BY <1>6, RestInv
<1> QED BY <1>1, <1>2, <1>3, <1>4, <1>5, <1>6 DEF DepositNext

-----------------------------------------------------------------------------
(* Sums over requests and over calls in flight.                              *)

RowsAre ==
  /\ \A d \in Requests : RequestAmount[d] \in Nat
  /\ \A S \in SUBSET Requests : SumOf(S) \in Nat
  /\ \A u \in Users, s \in Sessions : InFlight(u)[s] \in Nat
  /\ \A u \in Users : SumFunctionOnSet(InFlight(u), Sessions) \in Nat

LEMMA RequestsFinite == IsFiniteSet(Requests)
BY DepositAssumption, FS_Interval DEF Requests

LEMMA RowsKnown == DepositTypeOK => RowsAre
<1> SUFFICES ASSUME DepositTypeOK PROVE RowsAre
  OBVIOUS
<1>1. \A d \in Requests : RequestAmount[d] \in Nat
  <2> SUFFICES ASSUME NEW d \in Requests PROVE req[d].amount \in Nat
    BY DEF RequestAmount
  <2>1. req[d] \in Row \cup {NoRequest}
    BY DEF DepositTypeOK
  <2>2. CASE req[d] \in Row
    <3>1. req[d].amount \in DepositAmounts
      BY <2>2 DEF Row
    <3> QED BY <3>1, DepositAssumption
  <2>3. CASE req[d] = NoRequest
    BY <2>3 DEF NoRequest
  <2> QED BY <2>1, <2>2, <2>3
<1>2. ASSUME NEW S \in SUBSET Requests PROVE SumOf(S) \in Nat
  BY <1>1, RequestsFinite, FS_Subset, SumType DEF SumOf
<1>3. ASSUME NEW u \in Users, NEW s \in Sessions PROVE InFlight(u)[s] \in Nat
  <2> DEFINE c == tx[s]
  <2>1. c \in Session
    BY DEF DepositTypeOK
  <2>2. InFlight(u)[s] = IF Declares(s, u) THEN c.amount ELSE 0
    BY DEF InFlight
  <2>3. Declares(s, u) => c.step = "create"
    BY DEF Declares
  <2> HIDE DEF c
  <2>4. c.step = "create" => c.amount \in DepositAmounts
    BY <2>1 DEF Session, NoCall
  <2>5. CASE Declares(s, u)
    <3>1. InFlight(u)[s] \in DepositAmounts
      BY <2>2, <2>3, <2>4, <2>5
    <3> QED BY <3>1, DepositAssumption
  <2>6. CASE ~Declares(s, u)
    BY <2>2, <2>6
  <2> QED BY <2>5, <2>6
<1>4. ASSUME NEW u \in Users PROVE SumFunctionOnSet(InFlight(u), Sessions) \in Nat
  BY <1>3, DepositAssumption, SumType
<1> QED BY <1>1, <1>2, <1>3, <1>4 DEF RowsAre

LEMMA RowsKnownNext == DepositTypeOK' => RowsAre'
BY RowsKnown, PTL

\* One request changes.
LEMMA RowSum ==
  ASSUME DepositTypeOK, DepositTypeOK', NEW d \in Requests,
         \A e \in Requests \ {d} : req'[e] = req[e],
         NEW S \in SUBSET Requests, NEW T \in SUBSET Requests, S \ {d} = T \ {d}
  PROVE  SumFunctionOnSet(RequestAmount', T)
           = SumOf(S) + (IF d \in T THEN req'[d].amount ELSE 0)
                      - (IF d \in S THEN req[d].amount ELSE 0)
<1> DEFINE f == RequestAmount
           h == RequestAmount'
<1>1. /\ \A e \in Requests : f[e] \in Int /\ h[e] \in Int
      /\ f[d] = req[d].amount /\ h[d] = req'[d].amount
      /\ \A e \in Requests \ {d} : f[e] = h[e]
  BY RowsKnown, RowsKnownNext DEF RowsAre, RequestAmount
<1>2. IsFiniteSet(S) /\ IsFiniteSet(T)
  BY RequestsFinite, FS_Subset
<1> HIDE DEF f, h
<1>3. /\ \A e \in S : f[e] \in Int
      /\ \A e \in T : h[e] \in Int
      /\ Agree(f, h, S \ {d})
  BY <1>1 DEF Agree
<1>4. SumFunctionOnSet(h, T) = SumFunctionOnSet(f, S)
        + (IF d \in T THEN h[d] ELSE 0) - (IF d \in S THEN f[d] ELSE 0)
  BY <1>2, <1>3, SumStep
<1> QED BY <1>1, <1>4 DEF f, h, SumOf

-----------------------------------------------------------------------------
(* What the wallets hold.                                                    *)

\* A step that approves nothing
ApprovedStay ==
  \A d \in Requests :
    req[d].status = "APPROVED" \/ req'[d].status = "APPROVED" => req'[d] = req[d]

LEMMA StillExplained ==
  ASSUME DepositTypeOK, WalletsExplained, ApprovedStay, UNCHANGED <<balance, ledger>>
  PROVE  WalletsExplained'
<1>1. ASSUME NEW u \in Users PROVE SumOf(ApprovedOf(u))' = SumOf(ApprovedOf(u))
  <2> DEFINE S == ApprovedOf(u)
             f == RequestAmount
             h == RequestAmount'
  <2>1. ApprovedOf(u)' = S /\ S \subseteq Requests
    BY DEF ApprovedOf, Own, ApprovedStay
  <2>2. \A d \in S : f[d] = h[d]
    BY DEF ApprovedStay, ApprovedOf, Own, RequestAmount
  <2> HIDE DEF S, f, h
  <2>3. SumFunctionOnSet(f, S) = SumFunctionOnSet(h, S)
    BY <2>1, <2>2, RequestsFinite, FS_Subset, SumSame
  <2> QED BY <2>1, <2>3 DEF SumOf, S, f, h
<1> QED BY <1>1 DEF WalletsExplained

LEMMA ApproveExplained ==
  ASSUME DepositIndInv, DepositIndInv', WalletsExplained, NEW d \in Requests,
         approveRequest(d)
  PROVE  WalletsExplained'
<1>0. /\ DepositTypeOK /\ DepositTypeOK'
      /\ balance \in [Users -> Nat] /\ balance' \in [Users -> Nat]
      /\ ledger \in [bank: Nat, liability: Nat]
  BY DEF DepositIndInv, DepositTypeOK
<1>1. req[d].status = "UNDER_REVIEW" /\ req[d] \in Row
  <2>1. canTransition(d, "APPROVED")
    BY DEF approveRequest, MayApprove
  <2>2. req[d].status = "UNDER_REVIEW"
    BY <1>0, <2>1, Sources
  <2> QED BY <1>0, <2>2, RowStatus DEF NoRequest
<1>2. PICK x \in Users, a \in Nat : x = req[d].user /\ a = req[d].amount
  BY <1>1, DepositAssumption DEF Row
<1>3. /\ balance' = [balance EXCEPT ![x] = @ + a]
      /\ ledger' = [bank |-> ledger.bank + a, liability |-> ledger.liability + a]
  BY <1>2 DEF approveRequest, Credit
<1>4. /\ req'[d].status = "APPROVED" /\ req'[d].user = x /\ req'[d].amount = a
      /\ \A e \in Requests \ {d} : req'[e] = req[e]
  <2>1. Set(d, "APPROVED") /\ "APPROVED" \in Statuses \ {"none"}
    BY DEF approveRequest, Statuses
  <2>2. /\ req'[d] = [req[d] EXCEPT !.status = "APPROVED"]
        /\ req'[d].status = "APPROVED"
        /\ \A e \in Requests \ {d} : req'[e] = req[e]
    BY <1>0, <1>1, <2>1, SetRow
  <2> QED BY <1>1, <1>2, <2>2 DEF Row
<1>5. ASSUME NEW u \in Users PROVE balance'[u] = SumOf(ApprovedOf(u))'
  <2> DEFINE S == ApprovedOf(u)
             T == ApprovedOf(u)'
  <2>1. /\ S \subseteq Requests /\ T \subseteq Requests /\ S \ {d} = T \ {d}
        /\ d \notin S /\ (d \in T <=> u = x)
    BY <1>1, <1>4 DEF ApprovedOf, Own
  <2>2. SumOf(ApprovedOf(u))' = SumFunctionOnSet(RequestAmount', T)
    BY DEF SumOf
  <2>3. balance[u] = SumOf(S) /\ SumOf(S) \in Nat
    BY <1>0, <2>1, RowsKnown DEF WalletsExplained, RowsAre
  <2> HIDE DEF S, T
  <2>4. SumFunctionOnSet(RequestAmount', T)
          = SumOf(S) + (IF d \in T THEN req'[d].amount ELSE 0)
                     - (IF d \in S THEN req[d].amount ELSE 0)
    BY <1>0, <1>4, <2>1, RowSum
  <2>5. balance'[u] = balance[u] + IF u = x THEN a ELSE 0
    BY <1>0, <1>3
  <2> QED BY <1>4, <2>1, <2>2, <2>3, <2>4, <2>5
<1>6. ledger'.liability = SumFunctionOnSet(balance', Users)
  <2>1. /\ balance'[x] = balance[x] + a
        /\ \A v \in Users \ {x} : balance'[v] = balance[v]
    BY <1>0, <1>3
  <2>2. SumFunctionOnSet(balance', Users)
          = SumFunctionOnSet(balance, Users) + balance'[x] - balance[x]
    BY <1>0, <2>1, DepositAssumption, SumChange
  <2>3. /\ ledger.liability = SumFunctionOnSet(balance, Users)
        /\ ledger.liability \in Nat /\ ledger'.liability = ledger.liability + a
    BY <1>0, <1>3 DEF WalletsExplained
  <2>4. balance[x] \in Nat
    BY <1>0
  <2> QED BY <2>1, <2>2, <2>3, <2>4
<1>7. ledger'.bank = ledger'.liability
  BY <1>0, <1>3 DEF WalletsExplained
<1> QED BY <1>5, <1>6, <1>7 DEF WalletsExplained

-----------------------------------------------------------------------------
(* The daily limit and the calls in flight.                                  *)

\* A request moves on without being approved: it counts no more than before.
RowFades(d) ==
  /\ \A e \in Requests \ {d} : req'[e] = req[e]
  /\ req'[d].user = req[d].user /\ req'[d].method = req[d].method
  /\ req'[d].amount = req[d].amount
  /\ req[d].status # "APPROVED"
  /\ req'[d].status = "REJECTED" => req'[d].rejections > 0
  /\ req'[d].rejections = 0 =>
       req[d].rejections = 0 /\ req[d].status \in CountedStatuses

\* No call starts to declare a deposit with a daily limit.
FlightsEnd ==
  \A s \in Sessions : tx'[s] = tx[s] \/ \A u \in Users : ~Declares(s, u)'

Fading == FlightsEnd /\ (req' = req \/ \E d \in Requests : RowFades(d))

LEMMA FlightsShrink ==
  ASSUME DepositTypeOK, DepositTypeOK', FlightsEnd, NEW u \in Users
  PROVE  /\ \A s \in Sessions : InFlight(u)'[s] <= InFlight(u)[s]
         /\ SumFunctionOnSet(InFlight(u)', Sessions)
              <= SumFunctionOnSet(InFlight(u), Sessions)
<1> DEFINE f == InFlight(u)
           h == InFlight(u)'
<1>1. \A s \in Sessions : f[s] \in Nat /\ h[s] \in Nat
  BY RowsKnown, RowsKnownNext DEF RowsAre
<1>2. ASSUME NEW s \in Sessions PROVE h[s] <= f[s]
  <2>1. h[s] = f[s] \/ h[s] = 0
    <3>1. /\ f[s] = IF Declares(s, u) THEN tx[s].amount ELSE 0
          /\ h[s] = IF Declares(s, u)' THEN tx'[s].amount ELSE 0
      BY DEF InFlight
    <3>2. CASE tx'[s] = tx[s]
      BY <3>1, <3>2 DEF Declares
    <3>3. CASE ~Declares(s, u)'
      BY <3>1, <3>3
    <3> QED BY <3>2, <3>3 DEF FlightsEnd
  <2> HIDE DEF f, h
  <2> QED BY <1>1, <2>1
<1> HIDE DEF f, h
<1>3. SumFunctionOnSet(h, Sessions) <= SumFunctionOnSet(f, Sessions)
  BY <1>1, <1>2, DepositAssumption, SumMonotone
<1> QED BY <1>2, <1>3 DEF f, h

LEMMA RowsFade ==
  ASSUME DepositTypeOK, DepositTypeOK', NEW d \in Requests, RowFades(d),
         NEW u \in Users
  PROVE  SumOf(DeclaredBy(u))' <= SumOf(DeclaredBy(u))
<1> DEFINE S == DeclaredBy(u)
           T == DeclaredBy(u)'
<1>1. S \subseteq Requests /\ T \subseteq Requests
  BY DEF DeclaredBy, Own
<1>2. S \ {d} = T \ {d} /\ (d \in T => d \in S)
  BY DEF DeclaredBy, Own, RowFades
<1>3. SumOf(DeclaredBy(u))' = SumFunctionOnSet(RequestAmount', T)
  BY DEF SumOf
<1> HIDE DEF S, T
<1>4. SumFunctionOnSet(RequestAmount', T)
        = SumOf(S) + (IF d \in T THEN req'[d].amount ELSE 0)
                   - (IF d \in S THEN req[d].amount ELSE 0)
  BY <1>1, <1>2, RowSum DEF RowFades
<1>5. SumOf(S) \in Nat /\ req[d].amount \in Nat /\ req'[d].amount = req[d].amount
  BY <1>1, RowsKnown DEF RowsAre, RequestAmount, RowFades
<1>6. SumFunctionOnSet(RequestAmount', T) <= SumOf(S)
  BY <1>2, <1>4, <1>5
<1> QED BY <1>3, <1>6 DEF S

Cap == CapInv /\ CapOvershootBounded

LEMMA LimitTimes ==
  DailyLimit \in Int /\ DailyLimit * Cardinality(Sessions) \in Int
BY DepositAssumption, ProductInt

LEMMA FadingCap ==
  ASSUME DepositTypeOK, DepositTypeOK', Cap, Fading
  PROVE  Cap'
<1>1. FlightsEnd
  BY DEF Fading
<1>2. ASSUME NEW u \in Users PROVE SumOf(DeclaredBy(u))' <= SumOf(DeclaredBy(u))
  <2>1. CASE req' = req
    <3>1. SumOf(DeclaredBy(u))' = SumOf(DeclaredBy(u))
      BY <2>1 DEF SumOf, RequestAmount, DeclaredBy, Own
    <3>2. SumOf(DeclaredBy(u)) \in Nat
      BY RowsKnown DEF RowsAre, DeclaredBy, Own
    <3> QED BY <3>1, <3>2
  <2>2. CASE \E d \in Requests : RowFades(d)
    BY <2>2, RowsFade
  <2> QED BY <2>1, <2>2 DEF Fading
<1>3. ASSUME DailyLimit > 0, NEW u \in Users
      PROVE  SumOf(DeclaredBy(u))' + SumFunctionOnSet(InFlight(u)', Sessions)
               <= DailyLimit * Cardinality(Sessions)
  <2> DEFINE o == DailyLimit * Cardinality(Sessions)
  <2>1. /\ SumOf(DeclaredBy(u))' \in Nat /\ SumOf(DeclaredBy(u)) \in Nat
        /\ SumFunctionOnSet(InFlight(u), Sessions) \in Nat
        /\ SumFunctionOnSet(InFlight(u)', Sessions) \in Nat
        /\ o \in Int
    BY RowsKnown, RowsKnownNext, LimitTimes DEF RowsAre, DeclaredBy, Own
  <2>2. /\ SumFunctionOnSet(InFlight(u)', Sessions)
             <= SumFunctionOnSet(InFlight(u), Sessions)
        /\ SumOf(DeclaredBy(u)) + SumFunctionOnSet(InFlight(u), Sessions) <= o
    BY <1>1, <1>3, FlightsShrink DEF Cap, CapOvershootBounded
  <2> HIDE DEF o
  <2>3. SumOf(DeclaredBy(u))' + SumFunctionOnSet(InFlight(u)', Sessions) <= o
    BY <1>2, <2>1, <2>2
  <2> QED BY <2>3 DEF o
<1>4. CapOvershootBounded'
  BY <1>3 DEF CapOvershootBounded
<1>5. ASSUME DailyLimit > 0, NEW s \in Sessions, NEW u \in Users PROVE InFlight(u)'[s] <= DailyLimit
  <2>1. /\ InFlight(u)'[s] \in Nat /\ InFlight(u)[s] \in Nat
        /\ InFlight(u)'[s] <= InFlight(u)[s] /\ InFlight(u)[s] <= DailyLimit
    BY <1>1, <1>5, FlightsShrink, RowsKnown, RowsKnownNext DEF RowsAre, Cap, CapInv
  <2> QED BY <2>1, LimitTimes
<1>6. ASSUME NEW e \in Requests, req'[e].status = "REJECTED"
      PROVE  req'[e].rejections > 0
  <2>1. CASE req' = req
    BY <1>6, <2>1 DEF Cap, CapInv
  <2>2. ASSUME NEW d \in Requests, RowFades(d) PROVE req'[e].rejections > 0
    BY <1>6, <2>2 DEF RowFades, Cap, CapInv
  <2> QED BY <2>1, <2>2 DEF Fading
<1> QED BY <1>4, <1>5, <1>6 DEF Cap, CapInv

LEMMA DeclareFacts ==
  ASSUME DepositTypeOK, NEW s \in Sessions, NEW u, NEW a, NEW m, NEW k,
         Declare(s, u, a, m, k)
  PROVE  /\ req' = req /\ UNCHANGED <<balance, ledger>>
         /\ \A r \in Sessions \ {s} : tx'[r] = tx[r]
         /\ \A v : Declares(s, v)' <=> m = "MANUAL" /\ u = v
         /\ \A v : ~Declares(s, v)
         /\ tx'[s].amount = a
BY DEF DepositTypeOK, Declare, Declares, NoCall, money

\* A declaration with a limit: the call found room for its amount.
LEMMA CreateManualCap ==
  ASSUME DepositTypeOK, DepositTypeOK', Cap, NEW s \in Sessions, NEW u \in Users,
         NEW a \in DepositAmounts, NEW k, createManual(s, u, a, k)
  PROVE  Cap'
<1>1. prepareManual(u, a) /\ Declare(s, u, a, "MANUAL", k)
  BY DEF createManual
<1>2. /\ req' = req
      /\ \A r \in Sessions \ {s} : tx'[r] = tx[r]
      /\ \A v : Declares(s, v)' <=> u = v
      /\ \A v : ~Declares(s, v)
      /\ tx'[s].amount = a
  BY <1>1, DeclareFacts
<1>3. a \in Nat
  BY DepositAssumption
<1>4. ASSUME NEW v \in Users
      PROVE  /\ InFlight(v)[s] = 0
             /\ InFlight(v)'[s] = IF v = u THEN a ELSE 0
             /\ \A r \in Sessions \ {s} : InFlight(v)'[r] = InFlight(v)[r]
  BY <1>2 DEF InFlight, Declares
<1>5. ASSUME NEW v \in Users
      PROVE  SumOf(DeclaredBy(v))' = SumOf(DeclaredBy(v)) /\ SumOf(DeclaredBy(v)) \in Nat
  <2>1. SumOf(DeclaredBy(v))' = SumOf(DeclaredBy(v))
    BY <1>2 DEF SumOf, RequestAmount, DeclaredBy, Own
  <2>2. SumOf(DeclaredBy(v)) \in Nat
    BY RowsKnown DEF RowsAre, DeclaredBy, Own
  <2> QED BY <2>1, <2>2
<1>6. ASSUME DailyLimit > 0
      PROVE  SumOf(DeclaredBy(u)) + a <= DailyLimit /\ a <= DailyLimit
  <2> DEFINE S == {d \in Own(u) : /\ req[d].method = "MANUAL"
                                  /\ req[d].status \in CountedStatuses}
             T == DeclaredBy(u)
  <2>1. S \subseteq Requests /\ T \subseteq S
    BY DEF DeclaredBy, Own
  <2>2. IsFiniteSet(S) /\ \A x \in S : RequestAmount[x] \in Nat
    BY <2>1, RequestsFinite, FS_Subset, RowsKnown DEF RowsAre
  <2>3. UsedToday(u) = SumOf(S)
    BY DEF UsedToday
  <2> HIDE DEF S
  <2>4. SumOf(T) <= SumOf(S)
    BY <2>1, <2>2, SumSubset DEF SumOf
  <2>5. SumOf(S) \in Nat
    BY <2>1, RowsKnown DEF RowsAre
  <2> QED BY <1>1, <1>3, <1>5, <1>6, <2>3, <2>4, <2>5, LimitTimes DEF prepareManual
<1>7. ASSUME DailyLimit > 0, NEW v \in Users, NEW r \in Sessions
      PROVE  InFlight(v)'[r] <= DailyLimit
  <2>1. InFlight(v)[r] <= DailyLimit /\ 0 <= DailyLimit
    BY <1>7, DepositAssumption DEF Cap, CapInv
  <2> QED BY <1>4, <1>6, <1>7, <2>1
<1>8. \A e \in Requests : req'[e].status = "REJECTED" => req'[e].rejections > 0
  BY <1>2 DEF Cap, CapInv
<1>9. ASSUME DailyLimit > 0, NEW v \in Users
      PROVE  SumOf(DeclaredBy(v))' + SumFunctionOnSet(InFlight(v)', Sessions)
               <= DailyLimit * Cardinality(Sessions)
  <2> DEFINE o == DailyLimit * Cardinality(Sessions)
             R == Sessions \ {s}
             w == DailyLimit * Cardinality(R)
             f == InFlight(v)
             h == InFlight(v)'
  <2>1. /\ \A r \in Sessions : h[r] \in Int /\ f[r] \in Int
        /\ IsFiniteSet(Sessions) /\ IsFiniteSet(R) /\ DailyLimit \in Int
    BY RowsKnown, RowsKnownNext, DepositAssumption, RemoveOne, LimitTimes DEF RowsAre
  <2>2. w = o - DailyLimit /\ o \in Int
    BY <2>1, RemoveOne, LimitTimes
  <2>3. \A r \in R : h[r] <= DailyLimit
    BY <1>7, <1>9
  <2> HIDE DEF o, f, h
  <2>4. CASE v = u
    <3>1. h[s] = a
      BY <1>4, <2>4 DEF h
    <3>2. SumFunctionOnSet(h, R) <= w
      BY <2>1, <2>3, SumAtMost
    <3>3. SumFunctionOnSet(h, Sessions) = h[s] + SumFunctionOnSet(h, R)
      BY <2>1, SumRemove
    <3>4. SumFunctionOnSet(h, R) \in Int
      BY <2>1, SumType
    <3> HIDE DEF R, w
    <3>5. SumOf(DeclaredBy(v)) + SumFunctionOnSet(h, Sessions) <= o
      BY <1>3, <1>5, <1>6, <1>9, <2>1, <2>2, <2>4, <3>1, <3>2, <3>3, <3>4
    <3> QED BY <1>5, <3>5 DEF o, h
  <2>5. CASE v # u
    <3>1. \A r \in Sessions : h[r] = f[r]
      BY <1>4, <2>5 DEF f, h
    <3>2. SumFunctionOnSet(h, Sessions) = SumFunctionOnSet(f, Sessions)
      BY <2>1, <3>1, SumSame
    <3> QED BY <1>5, <1>9, <3>2 DEF Cap, CapOvershootBounded, f, h, o
  <2> QED BY <2>4, <2>5
<1> QED BY <1>7, <1>8, <1>9 DEF Cap, CapInv, CapOvershootBounded

\* A call that inserts its row hands its amount over from the calls in flight
\* to the requests.
LEMMA InsertCap ==
  ASSUME DepositTypeOK, DepositTypeOK', Cap, NEW s \in Sessions, NEW d \in Requests,
         tx[s].step = "create", req[d].status = "none",
         req'[d].status = "PENDING_PAYMENT", req'[d].rejections = 0,
         req'[d].user = tx[s].user, req'[d].method = tx[s].method,
         req'[d].amount = tx[s].amount,
         \A e \in Requests \ {d} : req'[e] = req[e],
         tx'[s] = NoCall, \A r \in Sessions \ {s} : tx'[r] = tx[r]
  PROVE  Cap'
<1>1. \A v : ~Declares(s, v)'
  BY DEF Declares, NoCall
<1>2. FlightsEnd
  BY <1>1 DEF FlightsEnd
<1>3. ASSUME NEW v \in Users
      PROVE  /\ InFlight(v)'[s] = 0
             /\ InFlight(v)[s] = IF Declares(s, v) THEN tx[s].amount ELSE 0
             /\ \A r \in Sessions \ {s} : InFlight(v)'[r] = InFlight(v)[r]
  BY <1>1 DEF InFlight, Declares
<1>4. ASSUME DailyLimit > 0, NEW v \in Users
      PROVE  SumOf(DeclaredBy(v))' + SumFunctionOnSet(InFlight(v)', Sessions)
               <= DailyLimit * Cardinality(Sessions)
  <2> DEFINE o == DailyLimit * Cardinality(Sessions)
             S == DeclaredBy(v)
             T == DeclaredBy(v)'
             f == InFlight(v)
             h == InFlight(v)'
  <2>1. S \subseteq Requests /\ T \subseteq Requests
    BY DEF DeclaredBy, Own
  <2>2. d \notin S /\ (d \in T <=> Declares(s, v))
    BY DEF DeclaredBy, Own, Declares, CountedStatuses
  <2>3. S \ {d} = T \ {d}
    BY DEF DeclaredBy, Own
  <2>4. SumOf(DeclaredBy(v))' = SumFunctionOnSet(RequestAmount', T)
    BY DEF SumOf
  <2>5. o \in Int
    BY LimitTimes
  <2>6. /\ \A r \in Sessions : f[r] \in Int /\ h[r] \in Int
        /\ f[s] \in Nat /\ SumFunctionOnSet(f, Sessions) \in Nat
        /\ SumOf(S) \in Nat
    BY <2>1, RowsKnown, RowsKnownNext DEF RowsAre
  <2>7. SumOf(S) + SumFunctionOnSet(f, Sessions) <= o
    BY <1>4 DEF Cap, CapOvershootBounded
  <2>8. h[s] = 0 /\ f[s] = (IF Declares(s, v) THEN tx[s].amount ELSE 0)
        /\ \A r \in Sessions \ {s} : f[r] = h[r]
    BY <1>3
  <2> HIDE DEF o, S, T, f, h
  <2>9. SumFunctionOnSet(RequestAmount', T)
          = SumOf(S) + (IF d \in T THEN req'[d].amount ELSE 0)
                     - (IF d \in S THEN req[d].amount ELSE 0)
    BY <2>1, <2>3, RowSum
  <2>10. SumFunctionOnSet(h, Sessions)
           = SumFunctionOnSet(f, Sessions) + h[s] - f[s]
    BY <2>6, <2>8, DepositAssumption, SumChange
  <2>11. SumFunctionOnSet(RequestAmount', T) = SumOf(S) + f[s]
    BY <2>2, <2>6, <2>8, <2>9
  <2>12. SumFunctionOnSet(RequestAmount', T) + SumFunctionOnSet(h, Sessions) <= o
    BY <2>5, <2>6, <2>7, <2>8, <2>10, <2>11
  <2> QED BY <2>4, <2>12 DEF o, T, h
<1>5. ASSUME DailyLimit > 0, NEW r \in Sessions, NEW v \in Users
      PROVE  InFlight(v)'[r] <= DailyLimit
  <2>1. /\ InFlight(v)'[r] \in Nat /\ InFlight(v)[r] \in Nat
        /\ InFlight(v)'[r] <= InFlight(v)[r] /\ InFlight(v)[r] <= DailyLimit
    BY <1>2, <1>5, FlightsShrink, RowsKnown, RowsKnownNext DEF RowsAre, Cap, CapInv
  <2> QED BY <2>1, LimitTimes
<1>6. \A e \in Requests : req'[e].status = "REJECTED" => req'[e].rejections > 0
  BY DEF Cap, CapInv
<1> QED BY <1>4, <1>5, <1>6 DEF Cap, CapInv, CapOvershootBounded

LEMMA FinishCreateCap ==
  ASSUME DepositTypeOK, DepositTypeOK', Cap, WalletsExplained,
         NEW s \in Sessions, NEW d \in Requests, FinishCreate(s, d)
  PROVE  Cap' /\ WalletsExplained'
<1>1. /\ tx[s].step = "create" /\ req[d].status = "none" /\ Insert(s, d)
      /\ UNCHANGED <<balance, ledger>>
      /\ tx'[s] = NoCall /\ \A r \in Sessions \ {s} : tx'[r] = tx[r]
  BY DEF FinishCreate, DepositTypeOK, money
<1>2. FlightsEnd
  BY <1>1 DEF FlightsEnd, Declares, NoCall
<1>3. CASE KeyTaken(tx[s].key)
  <2>1. req' = req
    BY <1>1, <1>3 DEF Insert
  <2>2. Fading /\ ApprovedStay
    BY <1>2, <2>1 DEF Fading, ApprovedStay
  <2> QED BY <1>1, <2>2, FadingCap, StillExplained
<1>4. CASE ~KeyTaken(tx[s].key)
  <2>1. /\ req'[d].status = "PENDING_PAYMENT" /\ req'[d].rejections = 0
        /\ req'[d].user = tx[s].user /\ req'[d].method = tx[s].method
        /\ req'[d].amount = tx[s].amount
        /\ \A e \in Requests \ {d} : req'[e] = req[e]
    BY <1>1, <1>4 DEF Insert, DepositTypeOK
  <2>2. ApprovedStay
    BY <1>1, <2>1 DEF ApprovedStay
  <2> QED BY <1>1, <2>1, <2>2, InsertCap, StillExplained
<1> QED BY <1>3, <1>4

\* A request that counts, or was rejected once, moves on.
LEMMA MoveFades ==
  ASSUME DepositTypeOK, NEW d \in Requests, req[d].status \notin {"none", "APPROVED"},
         req[d].status \in CountedStatuses \/ req[d].rejections > 0,
         NEW st \in Statuses \ {"none", "REJECTED"}, Set(d, st)
  PROVE  /\ \E e \in Requests : RowFades(e)
         /\ st # "APPROVED" => ApprovedStay
<1>1. /\ req'[d] = [req[d] EXCEPT !.status = st]
      /\ req'[d].status = st
      /\ req'[d].rejections = req[d].rejections
      /\ \A e \in Requests \ {d} : req'[e] = req[e]
  BY SetRow
<1>2. req[d] \in Row
  BY RowStatus DEF NoRequest
<1>3. /\ req'[d].user = req[d].user /\ req'[d].method = req[d].method
      /\ req'[d].amount = req[d].amount /\ req[d].rejections \in Nat
  BY <1>1, <1>2 DEF Row
<1>4. RowFades(d)
  BY <1>1, <1>3 DEF RowFades
<1>5. st # "APPROVED" => ApprovedStay
  BY <1>1 DEF ApprovedStay
<1> QED BY <1>4, <1>5

LEMMA RejectFades ==
  ASSUME DepositTypeOK, NEW d \in Requests, reject(d)
  PROVE  (\E e \in Requests : RowFades(e)) /\ ApprovedStay
<1>1. canTransition(d, "REJECTED")
  BY DEF reject
<1>2. req[d].status = "UNDER_REVIEW"
  BY <1>1, Sources
<1>3. req[d] \in Row
  BY <1>2, RowStatus DEF NoRequest
<1> DEFINE r == [req[d] EXCEPT !.status = "REJECTED", !.rejections = @ + 1]
<1>4. req' = [req EXCEPT ![d] = r]
  BY DEF reject, DepositTypeOK
<1>5. req'[d] = r /\ \A e \in Requests \ {d} : req'[e] = req[e]
  BY <1>4 DEF DepositTypeOK
<1>6. /\ r.status = "REJECTED" /\ r.rejections = req[d].rejections + 1
      /\ r.user = req[d].user /\ r.method = req[d].method /\ r.amount = req[d].amount
      /\ req[d].rejections \in Nat
  BY <1>3 DEF Row
<1> HIDE DEF r
<1>7. RowFades(d)
  BY <1>2, <1>5, <1>6 DEF RowFades
<1>8. ApprovedStay
  BY <1>2, <1>5, <1>6 DEF ApprovedStay
<1> QED BY <1>7, <1>8

\* Every step that neither declares, nor inserts, nor approves
LEMMA QuietFades ==
  ASSUME DepositTypeOK, Cap,
         \/ \E s \in Sessions, d \in Requests : StartUpload(s, d)
         \/ \E s \in Sessions : FinishUpload(s) \/ GiveUp(s)
         \/ \E d \in Requests :
              \/ cancel(d) \/ startReview(d) \/ reject(d)
              \/ requestNewReceipt(d) \/ cancelInvoice(d) \/ DeadlinePasses(d)
              \/ CronClose(d) \/ CronSkip(d)
         \/ CronSelect
         \/ Crash
         \/ UNCHANGED depositVars
  PROVE  Fading /\ ApprovedStay /\ UNCHANGED <<balance, ledger>>
<1>1. req' = req => ApprovedStay
  BY DEF ApprovedStay
<1>2. tx' = tx => FlightsEnd
  BY DEF FlightsEnd
<1>3. ASSUME NEW s \in Sessions, NEW d \in Requests, StartUpload(s, d)
      PROVE  Fading /\ ApprovedStay /\ UNCHANGED <<balance, ledger>>
  <2>1. req' = req /\ UNCHANGED <<balance, ledger>>
    BY <1>3 DEF StartUpload, money
  <2>2. FlightsEnd
    BY <1>3 DEF StartUpload, FlightsEnd, Declares, DepositTypeOK
  <2> QED BY <1>1, <2>1, <2>2 DEF Fading
<1>4. ASSUME NEW s \in Sessions, FinishUpload(s) \/ GiveUp(s)
      PROVE  Fading /\ ApprovedStay /\ UNCHANGED <<balance, ledger>>
  <2>1. UNCHANGED <<balance, ledger>> /\ tx' = [tx EXCEPT ![s] = NoCall]
    BY <1>4 DEF FinishUpload, GiveUp, money
  <2>2. FlightsEnd
    BY <2>1 DEF FlightsEnd, Declares, DepositTypeOK, NoCall
  <2>3. CASE req' = req
    BY <1>1, <2>1, <2>2, <2>3 DEF Fading
  <2>4. CASE req' # req
    <3> DEFINE d == tx[s].id
    <3>1. /\ tx[s].step = "upload" /\ canTransition(d, "RECEIPT_UPLOADED")
          /\ Set(d, "RECEIPT_UPLOADED")
      BY <1>4, <2>4 DEF FinishUpload, GiveUp
    <3>2. d \in Requests
      BY <3>1 DEF DepositTypeOK, Session, NoCall
    <3> HIDE DEF d
    <3>3. req[d].status \in {"PENDING_PAYMENT", "UNDER_REVIEW", "REJECTED"}
      BY <3>1, <3>2, Sources
    <3>4. "RECEIPT_UPLOADED" \in Statuses \ {"none", "REJECTED"}
      BY DEF Statuses
    <3>5. /\ req[d].status \notin {"none", "APPROVED"}
          /\ req[d].status \in CountedStatuses \/ req[d].rejections > 0
      BY <3>2, <3>3 DEF CountedStatuses, Cap, CapInv
    <3>6. (\E e \in Requests : RowFades(e)) /\ ApprovedStay
      BY <3>1, <3>2, <3>4, <3>5, MoveFades
    <3> QED BY <2>1, <2>2, <3>6 DEF Fading
  <2> QED BY <2>3, <2>4
<1>5. ASSUME NEW d \in Requests, cancel(d) \/ startReview(d) \/ requestNewReceipt(d)
      PROVE  Fading /\ ApprovedStay /\ UNCHANGED <<balance, ledger>>
  <2>1. UNCHANGED <<balance, ledger>> /\ FlightsEnd
    BY <1>2, <1>5 DEF cancel, startReview, requestNewReceipt, money
  <2>2. PICK st \in {"CANCELLED", "UNDER_REVIEW", "RECEIPT_UPLOADED"} :
             canTransition(d, st) /\ Set(d, st)
    BY <1>5 DEF cancel, startReview, requestNewReceipt
  <2>3. st \in Statuses \ {"none", "REJECTED"}
    BY DEF Statuses
  <2>4. req[d].status \in {"PENDING_PAYMENT", "UNDER_REVIEW", "REJECTED",
                           "RECEIPT_UPLOADED"}
    BY <2>2, Sources
  <2>5. /\ req[d].status \notin {"none", "APPROVED"}
        /\ req[d].status \in CountedStatuses \/ req[d].rejections > 0
    BY <2>4 DEF CountedStatuses, Cap, CapInv
  <2>6. (\E e \in Requests : RowFades(e)) /\ ApprovedStay
    BY <2>2, <2>3, <2>5, MoveFades
  <2> QED BY <2>1, <2>6 DEF Fading
<1>6. ASSUME NEW d \in Requests, reject(d)
      PROVE  Fading /\ ApprovedStay /\ UNCHANGED <<balance, ledger>>
  <2>1. UNCHANGED <<balance, ledger>> /\ FlightsEnd
    BY <1>2, <1>6 DEF reject, money
  <2> QED BY <1>6, <2>1, RejectFades DEF Fading
<1>7. ASSUME NEW d \in Requests, CronClose(d)
      PROVE  Fading /\ ApprovedStay /\ UNCHANGED <<balance, ledger>>
  <2>1. UNCHANGED <<balance, ledger>> /\ FlightsEnd
    BY <1>2, <1>7 DEF CronClose, money
  <2>2. CASE StillPending(d)
    <3>1. Set(d, "EXPIRED")
      BY <1>7, <2>2 DEF CronClose
    <3>2. "EXPIRED" \in Statuses \ {"none", "REJECTED"}
      BY DEF Statuses
    <3>3. /\ req[d].status \notin {"none", "APPROVED"}
          /\ req[d].status \in CountedStatuses
      BY <2>2 DEF StillPending, CountedStatuses
    <3>4. (\E e \in Requests : RowFades(e)) /\ ApprovedStay
      BY <3>1, <3>2, <3>3, MoveFades
    <3> QED BY <2>1, <3>4 DEF Fading
  <2>3. CASE ~StillPending(d)
    BY <1>1, <1>7, <2>1, <2>3 DEF CronClose, Fading
  <2> QED BY <2>2, <2>3
<1>8. ASSUME \/ \E d \in Requests : cancelInvoice(d) \/ DeadlinePasses(d) \/ CronSkip(d)
             \/ CronSelect
             \/ UNCHANGED depositVars
      PROVE  Fading /\ ApprovedStay /\ UNCHANGED <<balance, ledger>>
  <2>1. req' = req /\ tx' = tx /\ UNCHANGED <<balance, ledger>>
    BY <1>8 DEF cancelInvoice, DeadlinePasses, CronSkip, CronSelect, depositVars, money
  <2> QED BY <1>1, <1>2, <2>1 DEF Fading
<1>9. ASSUME Crash PROVE Fading /\ ApprovedStay /\ UNCHANGED <<balance, ledger>>
  BY <1>1, <1>9 DEF Crash, money, Fading, FlightsEnd, Declares, NoCall
<1> QED BY <1>3, <1>4, <1>5, <1>6, <1>7, <1>8, <1>9

LEMMA ApproveFades ==
  ASSUME DepositTypeOK, NEW d \in Requests, approveRequest(d)
  PROVE  Fading
<1>1. canTransition(d, "APPROVED") /\ Set(d, "APPROVED") /\ tx' = tx
  BY DEF approveRequest, MayApprove
<1>2. req[d].status = "UNDER_REVIEW"
  BY <1>1, Sources
<1>3. "APPROVED" \in Statuses \ {"none", "REJECTED"}
  BY DEF Statuses
<1>4. \E e \in Requests : RowFades(e)
  BY <1>1, <1>2, <1>3, MoveFades DEF CountedStatuses
<1> QED BY <1>1, <1>4 DEF Fading, FlightsEnd

\* The two sums, step by step
LEMMA DepositSums ==
  DepositIndInv /\ DepositIndInv' /\ Cap /\ WalletsExplained /\ [DepositNext]_depositVars
    => Cap' /\ WalletsExplained'
<1> SUFFICES ASSUME DepositIndInv, DepositIndInv', Cap, WalletsExplained,
                    [DepositNext]_depositVars
             PROVE  Cap' /\ WalletsExplained'
  OBVIOUS
<1>0. DepositTypeOK /\ DepositTypeOK'
  BY DEF DepositIndInv
<1>1. ASSUME NEW s \in Sessions, NEW u \in Users, NEW a \in DepositAmounts,
             NEW k \in Keys \cup {NoKey}, create(s, u, a, k)
      PROVE  Cap' /\ WalletsExplained'
  <2>1. /\ req' = req /\ UNCHANGED <<balance, ledger>>
        /\ \A r \in Sessions \ {s} : tx'[r] = tx[r]
        /\ \A v : ~Declares(s, v)'
    BY <1>0, <1>1, DeclareFacts DEF create
  <2>2. Fading /\ ApprovedStay
    BY <2>1 DEF Fading, FlightsEnd, ApprovedStay
  <2> QED BY <1>0, <2>1, <2>2, FadingCap, StillExplained
<1>2. ASSUME NEW s \in Sessions, NEW u \in Users, NEW a \in DepositAmounts,
             NEW k \in Keys \cup {NoKey}, createManual(s, u, a, k)
      PROVE  Cap' /\ WalletsExplained'
  <2>1. req' = req /\ UNCHANGED <<balance, ledger>>
    BY <1>0, <1>2, DeclareFacts DEF createManual
  <2>2. ApprovedStay
    BY <2>1 DEF ApprovedStay
  <2> QED BY <1>0, <1>2, <2>1, <2>2, CreateManualCap, StillExplained
<1>3. ASSUME NEW s \in Sessions, NEW d \in Requests, FinishCreate(s, d)
      PROVE  Cap' /\ WalletsExplained'
  BY <1>0, <1>3, FinishCreateCap
<1>4. ASSUME NEW d \in Requests, approveRequest(d) PROVE Cap' /\ WalletsExplained'
  BY <1>0, <1>4, ApproveFades, FadingCap, ApproveExplained
<1>5. ASSUME \/ \E s \in Sessions, d \in Requests : StartUpload(s, d)
             \/ \E s \in Sessions : FinishUpload(s) \/ GiveUp(s)
             \/ \E d \in Requests :
                  \/ cancel(d) \/ startReview(d) \/ reject(d)
                  \/ requestNewReceipt(d) \/ cancelInvoice(d) \/ DeadlinePasses(d)
                  \/ CronClose(d) \/ CronSkip(d)
             \/ CronSelect
             \/ Crash
             \/ UNCHANGED depositVars
      PROVE  Cap' /\ WalletsExplained'
  BY <1>0, <1>5, QuietFades, FadingCap, StillExplained
<1> QED BY <1>1, <1>2, <1>3, <1>4, <1>5 DEF DepositNext

LEMMA DepositInitSums == DepositInit => Cap /\ WalletsExplained
<1> SUFFICES ASSUME DepositInit PROVE Cap /\ WalletsExplained
  OBVIOUS
<1>0. DepositTypeOK
  BY DepositInitInv DEF DepositIndInv
<1>1. ASSUME NEW u \in Users
      PROVE  DeclaredBy(u) = {} /\ ApprovedOf(u) = {}
             /\ \A s \in Sessions : InFlight(u)[s] = 0
  BY DEF DepositInit, DeclaredBy, ApprovedOf, Own, NoRequest, InFlight, Declares,
         NoCall, CountedStatuses
<1>2. SumOf({}) = 0
  BY SumEmpty DEF SumOf
<1>3. ASSUME NEW u \in Users PROVE SumFunctionOnSet(InFlight(u), Sessions) = 0
  <2>1. SumFunctionOnSet(InFlight(u), Sessions) = 0 * Cardinality(Sessions)
    BY <1>1, DepositAssumption, SumUniform
  <2>2. Cardinality(Sessions) \in Nat
    BY DepositAssumption, FS_CardinalityType
  <2> QED BY <2>1, <2>2
<1>4. 0 <= DailyLimit * Cardinality(Sessions)
  <2>1. Cardinality(Sessions) \in Nat /\ DailyLimit \in Nat
    BY DepositAssumption, FS_CardinalityType
  <2> QED BY <2>1
<1>5. CapOvershootBounded
  <2> SUFFICES ASSUME NEW u \in Users
               PROVE  SumOf(DeclaredBy(u)) + SumFunctionOnSet(InFlight(u), Sessions)
                        <= DailyLimit * Cardinality(Sessions)
    BY DEF CapOvershootBounded
  <2> DEFINE o == DailyLimit * Cardinality(Sessions)
  <2> HIDE DEF o
  <2>1. SumOf(DeclaredBy(u)) = 0 /\ SumFunctionOnSet(InFlight(u), Sessions) = 0
    BY <1>1, <1>2, <1>3
  <2> QED BY <1>4, <2>1
<1>6. CapInv
  <2>1. 0 <= DailyLimit
    BY DepositAssumption
  <2>2. \A d \in Requests : req[d].status = "none"
    BY DEF DepositInit, NoRequest
  <2> QED BY <1>1, <2>1, <2>2 DEF CapInv
<1>7. WalletsExplained
  <2>1. \A u \in Users : balance[u] = 0
    BY DEF DepositInit
  <2>2. SumFunctionOnSet(balance, Users) = 0 * Cardinality(Users)
    BY <2>1, DepositAssumption, SumUniform
  <2>3. Cardinality(Users) \in Nat
    BY DepositAssumption, FS_CardinalityType
  <2>4. SumFunctionOnSet(balance, Users) = 0
    BY <2>2, <2>3
  <2>5. ledger.liability = 0 /\ ledger.bank = 0
    BY DEF DepositInit
  <2> QED BY <1>1, <1>2, <2>1, <2>4, <2>5 DEF WalletsExplained
<1> QED BY <1>5, <1>6, <1>7 DEF Cap

-----------------------------------------------------------------------------
(* Theorems.                                                                 *)

\* The inductive invariant of the requests, their papers and their credits
\* holds in every reachable state.
THEOREM DepositInvariance == DepositSpec => []DepositIndInv
<1> QED BY DepositInitInv, DepositNextInv, PTL DEF DepositSpec

\* Type correctness: every row keeps the form of its table.
THEOREM DepositTypes == DepositSpec => []DepositTypeOK
<1>1. DepositIndInv => DepositTypeOK
  BY DEF DepositIndInv
<1> QED BY <1>1, DepositInvariance, PTL

\* approveRequest credits a request exactly once, and a key stands for one request.
THEOREM OneCreditPerRequest == DepositSpec => []CreditedOnce
<1>1. DepositIndInv => CreditedOnce
  BY DEF DepositIndInv, CreditedOnce, KeysDiffer, RequestInv
<1> QED BY <1>1, DepositInvariance, PTL

LEMMA DepositSumsHold == DepositSpec => [](Cap /\ WalletsExplained)
<1>1. DepositIndInv /\ DepositIndInv' /\ (Cap /\ WalletsExplained)
        /\ [DepositNext]_depositVars => (Cap /\ WalletsExplained)'
  BY DepositSums
<1> QED BY <1>1, DepositInitSums, DepositInvariance, PTL DEF DepositSpec

\* A wallet holds what the approved requests of its user add up to, and the
\* bank account and account 2010 hold what all the wallets do.
THEOREM WalletsAlwaysExplained == DepositSpec => []WalletsExplained
<1> QED BY DepositSumsHold, PTL

\* Concurrent calls exceed the daily limit of a user by no more than one limit
\* for each call that was in flight.
THEOREM OvershootIsBounded == DepositSpec => []CapOvershootBounded
<1>1. Cap => CapOvershootBounded
  BY DEF Cap
<1> QED BY <1>1, DepositSumsHold, PTL

\* A request with a receipt never expires; a pro-forma is used exactly when its
\* request is approved, and one that stands belongs to an open request, although
\* an admin may cancel it on its own (InvoiceService.cancel).
THEOREM PapersFollow == DepositSpec => []PaperFollowsRequest
<1>1. DepositIndInv => PaperFollowsRequest
  <2> SUFFICES ASSUME DepositIndInv PROVE PaperFollowsRequest
    OBVIOUS
  <2>1. (\A d \in Requests : RequestInv(d)) /\ receipts \subseteq Requests
    BY DEF DepositIndInv, DepositTypeOK
  <2> QED BY <2>1 DEF PaperFollowsRequest, RequestInv, Papers
<1> QED BY <1>1, DepositInvariance, PTL

-----------------------------------------------------------------------------
(* FUNDS OF AN AGENT                                                         *)


-----------------------------------------------------------------------------
(* The inductive invariant.                                                  *)

CallInv(k) ==
  LET d == call[k].on IN
  /\ call[k].op \in {"pay", "sent"} => d \in Orders
  /\ call[k].op \in {"verified", "refused", "paying"} =>
       d \in Deposits /\ deposit[d].status # "none"
  /\ call[k].op = "verified" => deposit[d].gateway /\ d \in taken
  /\ call[k].op = "paying" =>
       /\ deposit[d].order \in Orders
       /\ Approvable(d)
       /\ Available + deposit[d].amount >= Price
       /\ deposit[d].gateway => d \in taken

OnePays ==
  \A k, q \in Calls : call[k].op = "paying" /\ call[q].op = "paying" => k = q

IndInv == TypeOK /\ OnePays /\ \A k \in Calls : CallInv(k)

-----------------------------------------------------------------------------
(* What the common parts of the actions do.                                  *)

CallRow == [op: {"idle", "pay", "sent", "verified", "refused", "paying", "settle"},
            on: Orders \cup Deposits \cup {NoRow}, amount: Int]

LEMMA PostType ==
  ASSUME TypeOK, NEW c \in Int, NEW d \in Int, NEW x \in Int,
         MayPost(c, d, x), Post(c, d, x)
  PROVE  /\ wallet' \in [balance: Nat, blocked: Nat]
         /\ wallet'.blocked <= wallet'.balance
         /\ wallet'.blocked = wallet.blocked - x
         /\ WalletFree
BY DEF TypeOK, MayPost, Post, Available

LEMMA SetOrderType ==
  ASSUME TypeOK, NEW o \in Orders, NEW st \in OrderStatuses, SetOrder(o, st)
  PROVE  /\ order' \in [Orders -> [status: OrderStatuses, credit: BOOLEAN]]
         /\ locked' \subseteq Orders
         /\ order'[o].status = st /\ order'[o].credit = order[o].credit
         /\ \A q \in Orders \ {o} : order'[q] = order[q]
BY DEF TypeOK, SetOrder

LEMMA SetDepositType ==
  ASSUME TypeOK, NEW d \in Deposits, NEW st \in DepositStatuses, SetDeposit(d, st)
  PROVE  /\ deposit' \in [Deposits -> [status: DepositStatuses, gateway: BOOLEAN,
                                       amount: Nat, order: Orders \cup {NoOrder}]]
         /\ open' \subseteq Deposits
         /\ deposit'[d].status = st /\ deposit'[d].gateway = deposit[d].gateway
         /\ deposit'[d].amount = deposit[d].amount
         /\ deposit'[d].order = deposit[d].order
         /\ \A q \in Deposits \ {d} : deposit'[q] = deposit[q]
BY DEF TypeOK, SetDeposit

LEMMA NewDepositType ==
  ASSUME TypeOK, NEW d \in Deposits, NEW st \in DepositStatuses, NEW g \in BOOLEAN,
         NEW a \in Nat, NEW o \in Orders \cup {NoOrder}, NewDeposit(d, st, g, a, o)
  PROVE  /\ deposit' \in [Deposits -> [status: DepositStatuses, gateway: BOOLEAN,
                                       amount: Nat, order: Orders \cup {NoOrder}]]
         /\ deposit[d].status = "none"
         /\ deposit'[d].status = st
         /\ \A q \in Deposits \ {d} : deposit'[q] = deposit[q]
BY DEF TypeOK, NewDeposit

LEMMA EndType ==
  ASSUME TypeOK, NEW k \in Calls, End(k)
  PROVE  /\ call' \in [Calls -> CallRow]
         /\ call'[k] = Idle /\ \A q \in Calls \ {k} : call'[q] = call[q]
BY DEF TypeOK, End, Idle, CallRow

LEMMA BeginType ==
  ASSUME TypeOK, NEW k \in Calls, NEW x \in CallRow, call' = [call EXCEPT ![k] = x]
  PROVE  /\ call' \in [Calls -> CallRow]
         /\ call'[k] = x /\ \A q \in Calls \ {k} : call'[q] = call[q]
BY DEF TypeOK, CallRow

-----------------------------------------------------------------------------
(* The calls that a step is not about.                                       *)

\* A deposit that was made keeps its columns and is not forgotten.
RowsKept ==
  \A d \in Deposits : deposit[d].status # "none" =>
    /\ deposit'[d].status # "none"
    /\ deposit'[d].gateway = deposit[d].gateway
    /\ deposit'[d].amount = deposit[d].amount
    /\ deposit'[d].order = deposit[d].order

\* A call goes on, and what it holds is left alone.
Quiet(q) ==
  /\ call'[q] = call[q]
  /\ call[q].op = "paying" =>
       /\ wallet' = wallet
       /\ deposit'[call[q].on].status = deposit[call[q].on].status

LEMMA QuietInv ==
  ASSUME IndInv, RowsKept, taken \subseteq taken', NEW q \in Calls, Quiet(q)
  PROVE  CallInv(q)'
<1>1. CallInv(q)
  BY DEF IndInv
<1>2. CASE call[q].op = "paying"
  BY <1>1, <1>2 DEF CallInv, Quiet, RowsKept, Approvable, Available
<1>3. CASE call[q].op # "paying"
  BY <1>1, <1>3 DEF CallInv, Quiet, RowsKept
<1> QED BY <1>2, <1>3

\* A step that begins no call
LEMMA CallsStep ==
  ASSUME IndInv, TypeOK', RowsKept, taken \subseteq taken',
         \A q \in Calls : call'[q] = Idle \/ Quiet(q)
  PROVE  IndInv'
<1>1. ASSUME NEW q \in Calls PROVE CallInv(q)'
  <2>1. CASE call'[q] = Idle
    BY <2>1 DEF CallInv, Idle
  <2> QED BY <2>1, QuietInv
<1>2. OnePays'
  BY DEF IndInv, OnePays, Quiet, Idle
<1> QED BY <1>1, <1>2 DEF IndInv

\* A step that begins, or moves on, the call k
LEMMA CallBegins ==
  ASSUME IndInv, TypeOK', RowsKept, taken \subseteq taken', NEW k \in Calls,
         CallInv(k)', \A q \in Calls \ {k} : Quiet(q),
         call'[k].op = "paying" => WalletFree
  PROVE  IndInv'
<1>1. ASSUME NEW q \in Calls PROVE CallInv(q)'
  BY QuietInv
<1>2. OnePays'
  BY DEF IndInv, OnePays, Quiet, WalletFree
<1> QED BY <1>1, <1>2 DEF IndInv

\* Nothing is held: a step that changes the wallet, but no call.
LEMMA FreeStep ==
  ASSUME IndInv, TypeOK', RowsKept, UNCHANGED <<taken, call>>,
         \/ WalletFree
         \/ /\ wallet' = wallet
            /\ \A k \in Calls : call[k].op = "paying" =>
                 deposit'[call[k].on].status = deposit[call[k].on].status
  PROVE  IndInv'
BY CallsStep DEF Quiet, WalletFree

-----------------------------------------------------------------------------
(* What a step does to the deposits.                                         *)

\* A deposit that becomes approved is no gateway's, or was collected.
FatesKept ==
  \A d \in Deposits :
    /\ deposit[d].status = "APPROVED" => deposit'[d].status = "APPROVED"
    /\ deposit'[d].status = "APPROVED" =>
         /\ deposit[d].status # "none"
         /\ deposit[d].status = "APPROVED" \/ ~deposit[d].gateway \/ d \in taken

Kept == RowsKept /\ FatesKept /\ taken \subseteq taken'

LEMMA SameKept == ASSUME UNCHANGED <<deposit, taken>> PROVE Kept
BY DEF Kept, RowsKept, FatesKept

LEMMA SetKept ==
  ASSUME TypeOK, NEW d \in Deposits, NEW st \in DepositStatuses \ {"none"},
         SetDeposit(d, st), UNCHANGED taken,
         deposit[d].status \notin {"none", "APPROVED"},
         st = "APPROVED" => ~deposit[d].gateway \/ d \in taken
  PROVE  Kept
BY DEF TypeOK, SetDeposit, Kept, RowsKept, FatesKept

LEMMA NewKept ==
  ASSUME TypeOK, NEW d \in Deposits, NEW st \in DepositStatuses \ {"none", "APPROVED"},
         NEW g, NEW a, NEW o, NewDeposit(d, st, g, a, o), UNCHANGED taken
  PROVE  Kept
BY DEF TypeOK, NewDeposit, Kept, RowsKept, FatesKept

-----------------------------------------------------------------------------
(* One lemma per action or group of actions.                                 *)

LEMMA InitInv == Init => IndInv
BY FundsAssumption DEF Init, IndInv, TypeOK, OnePays, CallInv, Idle, OrderStatuses,
   DepositStatuses, WithdrawalStatuses

LEMMA NewOrderType ==
  ASSUME TypeOK, NEW o \in Orders, NEW st \in OrderStatuses, NEW c \in BOOLEAN,
         NewOrder(o, st, c)
  PROVE  order' \in [Orders -> [status: OrderStatuses, credit: BOOLEAN]]
BY DEF TypeOK, NewOrder

LEMMA CreateOrderInv ==
  ASSUME IndInv, NEW o \in Orders,
         createOrderWallet(o) \/ createOrderCredit(o) \/ createOrderUnpaid(o)
  PROVE  IndInv' /\ Kept
<1>0. TypeOK /\ Price \in Int
  BY FundsAssumption DEF IndInv
<1>1. Kept
  BY SameKept DEF createOrderWallet, createOrderCredit, createOrderUnpaid, NewOrder
<1>2. order' \in [Orders -> [status: OrderStatuses, credit: BOOLEAN]]
  BY <1>0, NewOrderType DEF createOrderWallet, createOrderCredit, createOrderUnpaid,
     OrderStatuses
<1>3. CASE createOrderWallet(o)
  <2>1. MayPost(0, Price, 0) /\ Post(0, Price, 0)
    BY <1>3 DEF createOrderWallet
  <2>2. /\ wallet' \in [balance: Nat, blocked: Nat]
        /\ wallet'.blocked <= wallet'.balance /\ WalletFree
    BY <1>0, <2>1, PostType
  <2>3. TypeOK'
    BY <1>0, <1>2, <1>3, <2>2 DEF createOrderWallet, NewOrder, TypeOK
  <2> QED BY <1>1, <1>3, <2>2, <2>3, FreeStep DEF createOrderWallet, NewOrder, Kept
<1>4. CASE createOrderCredit(o) \/ createOrderUnpaid(o)
  <2>1. TypeOK' /\ wallet' = wallet /\ UNCHANGED <<taken, call, deposit>>
    BY <1>0, <1>2, <1>4 DEF createOrderCredit, createOrderUnpaid, NewOrder, TypeOK
  <2> QED BY <1>1, <2>1, FreeStep DEF Kept
<1> QED BY <1>3, <1>4

LEMMA OrderMovesInv ==
  ASSUME IndInv, NEW o \in Orders,
         \/ cancelByAgent(o) \/ approve(o) \/ confirmReceipt(o) \/ expireOverdue(o)
         \/ priceLockPasses(o)
  PROVE  IndInv' /\ Kept
<1>0. TypeOK /\ Price \in Int
  BY FundsAssumption DEF IndInv
<1>1. UNCHANGED <<wallet, active, deposit, open, taken, withdrawal, history, call>>
  BY DEF cancelByAgent, approve, confirmReceipt, expireOverdue, priceLockPasses
<1>2. debt' \in Int
  BY <1>0 DEF TypeOK, cancelByAgent, approve, ApprovedDebt, confirmReceipt,
     expireOverdue, priceLockPasses
<1>3. /\ order' \in [Orders -> [status: OrderStatuses, credit: BOOLEAN]]
      /\ locked' \subseteq Orders
  <2>1. CASE priceLockPasses(o)
    BY <1>0, <2>1 DEF priceLockPasses, TypeOK
  <2>2. CASE ~priceLockPasses(o)
    <3>1. PICK st \in OrderStatuses : SetOrder(o, st)
      BY <2>2 DEF cancelByAgent, approve, confirmReceipt, expireOverdue, OrderStatuses
    <3> QED BY <1>0, <3>1, SetOrderType
  <2> QED BY <2>1, <2>2
<1>4. TypeOK'
  BY <1>0, <1>1, <1>2, <1>3 DEF TypeOK
<1>5. Kept
  BY <1>1, SameKept
<1> QED BY <1>1, <1>4, <1>5, FreeStep DEF Kept

LEMMA AdminCancelInv ==
  ASSUME IndInv, NEW o \in Orders, adminCancel(o)
  PROVE  IndInv' /\ Kept
<1>0. TypeOK /\ Price \in Int
  BY FundsAssumption DEF IndInv
<1>1. Kept
  BY SameKept DEF adminCancel
<1>2. /\ order' \in [Orders -> [status: OrderStatuses, credit: BOOLEAN]]
      /\ locked' \subseteq Orders
  BY <1>0, SetOrderType DEF adminCancel, OrderStatuses
<1>3. /\ wallet' \in [balance: Nat, blocked: Nat]
      /\ wallet'.blocked <= wallet'.balance
      /\ WalletFree \/ wallet' = wallet
  <2>1. CASE Refund(o)
    BY <1>0, <2>1, PostType DEF adminCancel
  <2>2. CASE ~Refund(o)
    BY <1>0, <2>2 DEF adminCancel, TypeOK
  <2> QED BY <2>1, <2>2
<1>4. TypeOK'
  BY <1>0, <1>2, <1>3 DEF adminCancel, TypeOK
<1> QED BY <1>1, <1>3, <1>4, FreeStep DEF adminCancel, Kept

\* A call that only reads
LEMMA ReadsInv ==
  ASSUME IndInv, NEW k \in Calls, NEW x \in CallRow, call[k] = Idle,
         call' = [call EXCEPT ![k] = x], x.op # "paying",
         UNCHANGED <<wallet, debt, active, order, locked, deposit, open, withdrawal,
                     history>>,
         taken' \in SUBSET Deposits, taken \subseteq taken', CallInv(k)'
  PROVE  IndInv' /\ Kept
<1>1. TypeOK
  BY DEF IndInv
<1>2. /\ call' \in [Calls -> CallRow] /\ call'[k] = x
      /\ \A q \in Calls \ {k} : call'[q] = call[q]
  BY <1>1, BeginType
<1>3. TypeOK'
  BY <1>1, <1>2 DEF TypeOK, CallRow
<1>4. RowsKept /\ FatesKept
  BY DEF RowsKept, FatesKept
<1>5. IndInv'
  BY <1>2, <1>3, <1>4, CallBegins DEF Quiet
<1> QED BY <1>4, <1>5 DEF Kept

\* A call that ends and leaves the wallet and the deposits alone
LEMMA EndsInv ==
  ASSUME IndInv, NEW k \in Calls, End(k), TypeOK', UNCHANGED <<deposit, taken>>,
         WalletFree \/ wallet' = wallet
  PROVE  IndInv' /\ Kept
<1>1. \A q \in Calls : call'[q] = Idle \/ call'[q] = call[q]
  BY EndType DEF IndInv
<1>2. Kept
  BY SameKept
<1> QED BY <1>1, <1>2, CallsStep DEF Quiet, WalletFree, Kept

LEMMA ReadersInv ==
  ASSUME IndInv, NEW k \in Calls,
         \/ \E o \in Orders : payOrder(k, o)
         \/ \E d \in Deposits : verified(k, d) \/ refused(k, d)
         \/ \E a \in Amounts : settleDebtFromWallet(k, a)
  PROVE  IndInv' /\ Kept
<1>0. TypeOK
  BY DEF IndInv
<1>1. CASE \E o \in Orders : payOrder(k, o)
  <2>1. PICK o \in Orders : payOrder(k, o)
    BY <1>1
  <2> DEFINE x == [op |-> "pay", on |-> o, amount |-> 0]
  <2>2. x \in CallRow /\ x.op # "paying"
    BY DEF CallRow
  <2>3. call[k] = Idle /\ call' = [call EXCEPT ![k] = x]
    BY <2>1 DEF payOrder, Begin
  <2>4. call'[k] = x
    BY <1>0, <2>3 DEF TypeOK
  <2>5. CallInv(k)'
    BY <2>4 DEF CallInv
  <2>6. taken' \in SUBSET Deposits /\ taken \subseteq taken'
    BY <1>0, <2>1 DEF payOrder, TypeOK
  <2> HIDE DEF x
  <2> QED BY <2>1, <2>2, <2>3, <2>5, <2>6, ReadsInv DEF payOrder
<1>2. CASE \E d \in Deposits : verified(k, d)
  <2>1. PICK d \in Deposits : verified(k, d)
    BY <1>2
  <2> DEFINE x == [op |-> "verified", on |-> d, amount |-> 0]
  <2>2. x \in CallRow /\ x.op # "paying"
    BY DEF CallRow
  <2>3. call[k] = Idle /\ call' = [call EXCEPT ![k] = x]
    BY <2>1 DEF verified, Begin
  <2>4. call'[k] = x
    BY <1>0, <2>3 DEF TypeOK
  <2>6. taken' \in SUBSET Deposits /\ taken \subseteq taken' /\ d \in taken'
    BY <1>0, <2>1 DEF verified, TypeOK
  <2>5. CallInv(k)'
    BY <2>1, <2>4, <2>6 DEF CallInv, verified, AtGateway
  <2> HIDE DEF x
  <2> QED BY <2>1, <2>2, <2>3, <2>5, <2>6, ReadsInv DEF verified
<1>3. CASE \E d \in Deposits : refused(k, d)
  <2>1. PICK d \in Deposits : refused(k, d)
    BY <1>3
  <2> DEFINE x == [op |-> "refused", on |-> d, amount |-> 0]
  <2>2. x \in CallRow /\ x.op # "paying"
    BY DEF CallRow
  <2>3. call[k] = Idle /\ call' = [call EXCEPT ![k] = x]
    BY <2>1 DEF refused, Begin
  <2>4. call'[k] = x
    BY <1>0, <2>3 DEF TypeOK
  <2>5. CallInv(k)'
    BY <2>1, <2>4 DEF CallInv, refused, AtGateway
  <2>6. taken' \in SUBSET Deposits /\ taken \subseteq taken'
    BY <1>0, <2>1 DEF refused, TypeOK
  <2> HIDE DEF x
  <2> QED BY <2>1, <2>2, <2>3, <2>5, <2>6, ReadsInv DEF refused
<1>4. CASE \E a \in Amounts : settleDebtFromWallet(k, a)
  <2>1. PICK a \in Amounts : settleDebtFromWallet(k, a)
    BY <1>4
  <2> DEFINE x == [op |-> "settle", on |-> NoRow, amount |-> Smaller(a, debt)]
  <2>2. x \in CallRow /\ x.op # "paying"
    BY <1>0, FundsAssumption DEF CallRow, Smaller, TypeOK
  <2>3. call[k] = Idle /\ call' = [call EXCEPT ![k] = x]
    BY <2>1 DEF settleDebtFromWallet, Begin
  <2>4. call'[k] = x
    BY <1>0, <2>3 DEF TypeOK
  <2>5. CallInv(k)'
    BY <2>4 DEF CallInv
  <2>6. taken' \in SUBSET Deposits /\ taken \subseteq taken'
    BY <1>0, <2>1 DEF settleDebtFromWallet, TypeOK
  <2> HIDE DEF x
  <2> QED BY <2>1, <2>2, <2>3, <2>5, <2>6, ReadsInv DEF settleDebtFromWallet
<1> QED BY <1>1, <1>2, <1>3, <1>4

LEMMA PayFromWalletInv ==
  ASSUME IndInv, NEW k \in Calls, payFromWallet(k)
  PROVE  IndInv' /\ Kept
<1>0. TypeOK /\ Price \in Int /\ call[k].on \in Orders
  BY FundsAssumption DEF IndInv, CallInv, payFromWallet
<1>1. call' \in [Calls -> CallRow]
  BY <1>0, EndType DEF payFromWallet
<1>2. /\ wallet' \in [balance: Nat, blocked: Nat]
      /\ wallet'.blocked <= wallet'.balance
      /\ order' \in [Orders -> [status: OrderStatuses, credit: BOOLEAN]]
      /\ locked' \subseteq Orders
  <2>1. CASE MayPost(0, Price, 0) /\ Post(0, Price, 0) /\ SetOrder(call[k].on, "PAID")
    <3>1. /\ order' \in [Orders -> [status: OrderStatuses, credit: BOOLEAN]]
          /\ locked' \subseteq Orders
      BY <1>0, <2>1, SetOrderType DEF OrderStatuses
    <3> QED BY <1>0, <2>1, <3>1, PostType
  <2>2. CASE UNCHANGED wallet /\ KeepOrder
    BY <1>0, <2>2 DEF KeepOrder, TypeOK
  <2> QED BY <2>1, <2>2 DEF payFromWallet
<1>3. TypeOK'
  BY <1>0, <1>1, <1>2 DEF payFromWallet, TypeOK, CallRow
<1> QED BY <1>3, EndsInv DEF payFromWallet

LEMMA TransferNotedInv ==
  ASSUME IndInv, NEW k \in Calls, transferNoted(k)
  PROVE  IndInv' /\ Kept
<1>0. TypeOK /\ call[k].on \in Orders
  BY DEF IndInv, CallInv, transferNoted
<1>1. call' \in [Calls -> CallRow]
  BY <1>0, EndType DEF transferNoted
<1>2. /\ order' \in [Orders -> [status: OrderStatuses, credit: BOOLEAN]]
      /\ locked' \subseteq Orders
  <2>1. CASE SetOrder(call[k].on, "PAYMENT_REVIEW")
    BY <1>0, <2>1, SetOrderType DEF OrderStatuses
  <2>2. CASE KeepOrder
    BY <1>0, <2>2 DEF KeepOrder, TypeOK
  <2> QED BY <2>1, <2>2 DEF transferNoted
<1>3. TypeOK'
  BY <1>0, <1>1, <1>2 DEF transferNoted, TypeOK, CallRow
<1> QED BY <1>3, EndsInv DEF transferNoted

LEMMA DebtSettledInv ==
  ASSUME IndInv, NEW k \in Calls, debtSettled(k)
  PROVE  IndInv' /\ Kept
<1>0. TypeOK /\ call[k].amount \in Int
  BY DEF IndInv, TypeOK
<1>1. call' \in [Calls -> CallRow]
  BY <1>0, EndType DEF debtSettled
<1>2. /\ wallet' \in [balance: Nat, blocked: Nat]
      /\ wallet'.blocked <= wallet'.balance
      /\ debt' \in Int /\ history' \in [settled: Int, adjusted: Int]
  <2>1. CASE MayPost(0, call[k].amount, 0)
    <3>1. Post(0, call[k].amount, 0)
      BY <2>1 DEF debtSettled
    <3>2. debt' \in Int /\ history' \in [settled: Int, adjusted: Int]
      BY <1>0, <2>1 DEF debtSettled, TypeOK
    <3> QED BY <1>0, <2>1, <3>1, <3>2, PostType
  <2>2. CASE ~MayPost(0, call[k].amount, 0)
    BY <1>0, <2>2 DEF debtSettled, TypeOK
  <2> QED BY <2>1, <2>2
<1>3. TypeOK'
  BY <1>0, <1>1, <1>2 DEF debtSettled, TypeOK, CallRow
<1> QED BY <1>3, EndsInv DEF debtSettled

LEMMA CallDiesInv ==
  ASSUME IndInv, NEW k \in Calls, callDies(k)
  PROVE  IndInv' /\ Kept
<1>1. TypeOK'
  BY EndType DEF callDies, IndInv, TypeOK, CallRow
<1> QED BY <1>1, EndsInv DEF callDies

\* What a paying call holds is another deposit.
LEMMA NewQuiet ==
  ASSUME IndInv, NEW d \in Deposits, NEW st \in DepositStatuses, NEW g \in BOOLEAN,
         NEW a \in Nat, NEW o \in Orders \cup {NoOrder}, NewDeposit(d, st, g, a, o),
         wallet' = wallet, NEW q \in Calls, call'[q] = call[q]
  PROVE  Quiet(q)
<1>1. TypeOK /\ CallInv(q)
  BY DEF IndInv
<1>2. deposit[d].status = "none" /\ \A e \in Deposits \ {d} : deposit'[e] = deposit[e]
  BY <1>1, NewDepositType
<1> QED BY <1>1, <1>2 DEF Quiet, CallInv

LEMMA SetQuiet ==
  ASSUME IndInv, NEW d \in Deposits, NEW st \in DepositStatuses, SetDeposit(d, st),
         DepositFree(d), wallet' = wallet, NEW q \in Calls, call'[q] = call[q]
  PROVE  Quiet(q)
<1>1. TypeOK /\ CallInv(q)
  BY DEF IndInv
<1>2. \A e \in Deposits \ {d} : deposit'[e] = deposit[e]
  BY <1>1, SetDepositType
<1> QED BY <1>1, <1>2 DEF Quiet, CallInv, DepositFree

LEMMA StartGatewayInv ==
  ASSUME IndInv, NEW k \in Calls, NEW d \in Deposits, NEW answered \in BOOLEAN,
         startGateway(k, d, answered)
  PROVE  IndInv' /\ Kept
<1> DEFINE st == IF answered THEN "PENDING_PAYMENT" ELSE "FAILED"
           a == Price - Available
           o == call[k].on
<1>0. /\ TypeOK /\ a \in Nat /\ o \in Orders
      /\ st \in DepositStatuses \ {"none", "APPROVED"}
  BY FundsAssumption DEF IndInv, TypeOK, CallInv, startGateway, Available,
     DepositStatuses
<1>1. NewDeposit(d, st, TRUE, a, o) /\ UNCHANGED taken
  BY DEF startGateway
<1> HIDE DEF st, a, o
<1>2. /\ deposit' \in [Deposits -> [status: DepositStatuses, gateway: BOOLEAN,
                                    amount: Nat, order: Orders \cup {NoOrder}]]
  BY <1>0, <1>1, NewDepositType
<1>3. Kept
  BY <1>0, <1>1, NewKept
<1>4. /\ call' \in [Calls -> CallRow]
      /\ call'[k] = Idle /\ \A q \in Calls \ {k} : call'[q] = call[q]
  BY <1>0, EndType DEF startGateway
<1>5. TypeOK'
  BY <1>0, <1>2, <1>4 DEF startGateway, TypeOK, CallRow
<1>6. \A q \in Calls : call'[q] = Idle \/ Quiet(q)
  BY <1>0, <1>1, <1>4, NewQuiet DEF startGateway
<1> QED BY <1>3, <1>5, <1>6, CallsStep DEF Kept

LEMMA SubmitTransferInv ==
  ASSUME IndInv, NEW k \in Calls, NEW o \in Orders, NEW d \in Deposits,
         submitTransfer(k, o, d)
  PROVE  IndInv' /\ Kept
<1>0. /\ TypeOK /\ Price \in Nat
      /\ "PENDING_REVIEW" \in DepositStatuses \ {"none", "APPROVED"}
  BY FundsAssumption DEF IndInv, DepositStatuses
<1>1. NewDeposit(d, "PENDING_REVIEW", FALSE, Price, o) /\ UNCHANGED taken
  BY DEF submitTransfer
<1>2. /\ deposit' \in [Deposits -> [status: DepositStatuses, gateway: BOOLEAN,
                                    amount: Nat, order: Orders \cup {NoOrder}]]
  BY <1>0, <1>1, NewDepositType
<1>3. Kept
  BY <1>0, <1>1, NewKept
<1> DEFINE x == [op |-> "sent", on |-> o, amount |-> 0]
<1>4. x \in CallRow /\ call' = [call EXCEPT ![k] = x]
  BY DEF submitTransfer, Begin, CallRow
<1>5. call'[k] = x
  BY <1>0, <1>4 DEF TypeOK
<1>6. CallInv(k)' /\ call'[k].op # "paying"
  BY <1>5 DEF CallInv
<1> HIDE DEF x
<1>7. /\ call' \in [Calls -> CallRow]
      /\ \A q \in Calls \ {k} : call'[q] = call[q]
  BY <1>0, <1>4, BeginType
<1>8. TypeOK'
  BY <1>0, <1>2, <1>7 DEF submitTransfer, TypeOK, CallRow
<1>9. \A q \in Calls \ {k} : Quiet(q)
  BY <1>0, <1>1, <1>7, NewQuiet DEF submitTransfer
<1> QED BY <1>3, <1>6, <1>8, <1>9, CallBegins DEF Kept

LEMMA CreateDepositInv ==
  ASSUME IndInv, NEW d \in Deposits, NEW gateway \in BOOLEAN, NEW answered \in BOOLEAN,
         NEW a \in Amounts, createDeposit(d, gateway, a, answered)
  PROVE  IndInv' /\ Kept
<1> DEFINE st == IF ~gateway THEN "PENDING_REVIEW"
                 ELSE IF answered THEN "PENDING_PAYMENT" ELSE "FAILED"
<1>0. TypeOK /\ a \in Nat /\ st \in DepositStatuses \ {"none", "APPROVED"}
  BY FundsAssumption DEF IndInv, DepositStatuses
<1>1. NewDeposit(d, st, gateway, a, NoOrder) /\ UNCHANGED taken
  BY DEF createDeposit
<1> HIDE DEF st
<1>2. /\ deposit' \in [Deposits -> [status: DepositStatuses, gateway: BOOLEAN,
                                    amount: Nat, order: Orders \cup {NoOrder}]]
  BY <1>0, <1>1, NewDepositType
<1>3. Kept
  BY <1>0, <1>1, NewKept
<1>4. TypeOK'
  BY <1>0, <1>2 DEF createDeposit, TypeOK
<1>5. \A q \in Calls : Quiet(q)
  BY <1>0, <1>1, NewQuiet DEF createDeposit
<1> QED BY <1>3, <1>4, <1>5, CallsStep DEF Kept

LEMMA FailDepositInv ==
  ASSUME IndInv, NEW k \in Calls, failDeposit(k)
  PROVE  IndInv' /\ Kept
<1>0. /\ TypeOK /\ call[k].on \in Deposits
      /\ "FAILED" \in DepositStatuses \ {"none"}
  BY DEF IndInv, CallInv, failDeposit, DepositStatuses
<1> DEFINE d == call[k].on
<1>1. /\ call' \in [Calls -> CallRow]
      /\ call'[k] = Idle /\ \A q \in Calls \ {k} : call'[q] = call[q]
  BY <1>0, EndType DEF failDeposit
<1>2. CASE AtGateway(d)
  <2>1. /\ SetDeposit(d, "FAILED") /\ UNCHANGED taken
        /\ deposit[d].status \notin {"none", "APPROVED"}
    BY <1>2 DEF failDeposit, AtGateway
  <2> HIDE DEF d
  <2>2. /\ deposit' \in [Deposits -> [status: DepositStatuses, gateway: BOOLEAN,
                                      amount: Nat, order: Orders \cup {NoOrder}]]
        /\ open' \subseteq Deposits
    BY <1>0, <2>1, SetDepositType DEF d
  <2>3. Kept
    BY <1>0, <2>1, SetKept DEF d
  <2>4. TypeOK'
    BY <1>0, <1>1, <2>2 DEF failDeposit, TypeOK, CallRow
  <2>5. \A q \in Calls : call'[q] = Idle \/ Quiet(q)
    BY <1>0, <1>1, <2>1, SetQuiet DEF failDeposit, d
  <2> QED BY <2>3, <2>4, <2>5, CallsStep DEF Kept
<1>3. CASE ~AtGateway(d)
  <2>1. UNCHANGED <<deposit, open, taken, wallet>>
    BY <1>3 DEF failDeposit, KeepDeposit
  <2>2. TypeOK'
    BY <1>0, <1>1, <2>1 DEF failDeposit, TypeOK, CallRow
  <2> QED BY <2>1, <2>2, EndsInv DEF failDeposit
<1> QED BY <1>2, <1>3

LEMMA RejectDepositInv ==
  ASSUME IndInv, NEW d \in Deposits, rejectDeposit(d)
  PROVE  IndInv' /\ Kept
<1>0. /\ TypeOK /\ deposit[d].order \in Orders \cup {NoOrder}
      /\ "REJECTED" \in DepositStatuses \ {"none"}
  BY DEF IndInv, TypeOK, DepositStatuses
<1>1. /\ SetDeposit(d, "REJECTED") /\ UNCHANGED taken
      /\ deposit[d].status \notin {"none", "APPROVED"}
  BY DEF rejectDeposit
<1>2. /\ deposit' \in [Deposits -> [status: DepositStatuses, gateway: BOOLEAN,
                                    amount: Nat, order: Orders \cup {NoOrder}]]
      /\ open' \subseteq Deposits
  BY <1>0, <1>1, SetDepositType
<1>3. Kept
  BY <1>0, <1>1, SetKept
<1>4. /\ order' \in [Orders -> [status: OrderStatuses, credit: BOOLEAN]]
      /\ locked' \subseteq Orders
  <2>1. CASE deposit[d].order \in Orders /\ SetOrder(deposit[d].order, "CANCELLED")
    BY <1>0, <2>1, SetOrderType DEF OrderStatuses
  <2>2. CASE KeepOrder
    BY <1>0, <2>2 DEF KeepOrder, TypeOK
  <2> QED BY <1>0, <2>1, <2>2 DEF rejectDeposit
<1>5. TypeOK'
  BY <1>0, <1>2, <1>4 DEF rejectDeposit, TypeOK
<1>6. \A q \in Calls : Quiet(q)
  BY <1>0, <1>1, SetQuiet DEF rejectDeposit
<1> QED BY <1>3, <1>5, <1>6, CallsStep DEF Kept

LEMMA ApproveTxInv ==
  ASSUME IndInv, NEW k \in Calls, NEW d \in Deposits, ApproveTx(k, d),
         deposit[d].status # "none", deposit[d].gateway => d \in taken
  PROVE  IndInv' /\ Kept
<1>0. /\ TypeOK /\ WalletFree
      /\ deposit[d].order \in Orders \cup {NoOrder} /\ deposit[d].amount \in Nat
      /\ UNCHANGED taken
  BY DEF IndInv, ApproveTx, TypeOK
<1>1. CASE Approvable(d) /\ PaysOrder(d)
  <2> DEFINE x == [op |-> "paying", on |-> d, amount |-> 0]
  <2>1. x \in CallRow /\ call' = [call EXCEPT ![k] = x]
    BY <1>1 DEF ApproveTx, CallRow
  <2>2. call'[k] = x
    BY <1>0, <2>1 DEF TypeOK
  <2>3. UNCHANGED <<wallet, deposit, open>>
    BY <1>1 DEF ApproveTx, KeepDeposit
  <2>4. CallInv(k)'
    <3>1. deposit[d].order \in Orders /\ Available + deposit[d].amount >= Price
      BY <1>0, <1>1 DEF PaysOrder
    <3> QED BY <1>0, <1>1, <2>2, <2>3, <3>1 DEF CallInv, Approvable, Available
  <2> HIDE DEF x
  <2>5. /\ call' \in [Calls -> CallRow]
        /\ \A q \in Calls \ {k} : call'[q] = call[q]
    BY <1>0, <2>1, BeginType
  <2>6. TypeOK'
    BY <1>0, <2>3, <2>5 DEF ApproveTx, TypeOK, CallRow
  <2>7. Kept
    BY <1>0, <2>3, SameKept
  <2>8. \A q \in Calls \ {k} : Quiet(q)
    BY <2>3, <2>5 DEF Quiet
  <2> QED BY <1>0, <2>4, <2>6, <2>7, <2>8, CallBegins DEF Kept
<1>2. CASE Approvable(d) /\ ~PaysOrder(d)
  <2>1. /\ Post(deposit[d].amount, 0, 0) /\ SetDeposit(d, "APPROVED") /\ End(k)
    BY <1>2 DEF ApproveTx
  <2>2. MayPost(deposit[d].amount, 0, 0) /\ deposit[d].amount \in Int
    BY <1>0 DEF MayPost, TypeOK, Available
  <2>3. /\ wallet' \in [balance: Nat, blocked: Nat]
        /\ wallet'.blocked <= wallet'.balance
    <3> DEFINE a == deposit[d].amount
    <3>1. a \in Int /\ MayPost(a, 0, 0) /\ Post(a, 0, 0) /\ TypeOK
      BY <1>0, <2>1, <2>2
    <3> HIDE DEF a
    <3> QED BY <3>1, PostType
  <2>4. /\ deposit' \in [Deposits -> [status: DepositStatuses, gateway: BOOLEAN,
                                      amount: Nat, order: Orders \cup {NoOrder}]]
        /\ open' \subseteq Deposits
    BY <1>0, <2>1, SetDepositType DEF DepositStatuses
  <2>5. /\ call' \in [Calls -> CallRow]
        /\ \A q \in Calls : call'[q] = Idle \/ call'[q] = call[q]
    BY <1>0, <2>1, EndType
  <2>6. TypeOK'
    BY <1>0, <2>3, <2>4, <2>5 DEF ApproveTx, TypeOK, CallRow
  <2>7. Kept
    BY <1>0, <1>2, <2>1, SetKept DEF Approvable, DepositStatuses
  <2>8. \A q \in Calls : call'[q] = Idle \/ Quiet(q)
    BY <1>0, <2>5 DEF Quiet, WalletFree
  <2> QED BY <2>6, <2>7, <2>8, CallsStep DEF Kept
<1>3. CASE ~Approvable(d)
  <2>1. UNCHANGED <<wallet, deposit, open>> /\ End(k)
    BY <1>3 DEF ApproveTx, KeepDeposit
  <2>2. call' \in [Calls -> CallRow]
    BY <1>0, <2>1, EndType
  <2>3. TypeOK'
    BY <1>0, <2>1, <2>2 DEF ApproveTx, TypeOK, CallRow
  <2> QED BY <1>0, <2>1, <2>3, EndsInv
<1> QED BY <1>1, <1>2, <1>3

LEMMA ApprovalInv ==
  ASSUME IndInv, NEW k \in Calls,
         handleGatewayCallback(k) \/ \E d \in Deposits : approveDeposit(k, d)
  PROVE  IndInv' /\ Kept
<1>1. CASE handleGatewayCallback(k)
  <2>1. /\ call[k].on \in Deposits /\ call[k].on \in taken
        /\ deposit[call[k].on].status # "none" /\ ApproveTx(k, call[k].on)
    BY <1>1 DEF IndInv, CallInv, handleGatewayCallback
  <2> QED BY <2>1, ApproveTxInv
<1>2. CASE \E d \in Deposits : approveDeposit(k, d)
  <2>1. PICK d \in Deposits : approveDeposit(k, d)
    BY <1>2
  <2>2. ~deposit[d].gateway /\ deposit[d].status # "none" /\ ApproveTx(k, d)
    BY <2>1 DEF approveDeposit, Approvable
  <2> QED BY <2>2, ApproveTxInv
<1> QED BY <1>1, <1>2

LEMMA FinishApprovalInv ==
  ASSUME IndInv, NEW k \in Calls, finishApproval(k)
  PROVE  IndInv' /\ Kept
<1> DEFINE d == call[k].on
           o == deposit[d].order
<1>0. /\ TypeOK /\ Price \in Nat /\ End(k) /\ UNCHANGED taken
      /\ d \in Deposits /\ o \in Orders /\ deposit[d].amount \in Nat
      /\ Approvable(d) /\ Available + deposit[d].amount >= Price
      /\ deposit[d].gateway => d \in taken
  <2>1. CallInv(k) /\ call[k].op = "paying" /\ TypeOK
    BY DEF IndInv, finishApproval
  <2>2. d \in Deposits /\ deposit[d] \in [status: DepositStatuses, gateway: BOOLEAN,
                                          amount: Nat, order: Orders \cup {NoOrder}]
    BY <2>1 DEF CallInv, TypeOK
  <2> QED BY <2>1, <2>2, FundsAssumption DEF CallInv, finishApproval
<1>1. /\ call' \in [Calls -> CallRow]
      /\ call'[k] = Idle /\ \A q \in Calls \ {k} : call'[q] = call[q]
  BY <1>0, EndType
<1>2. CASE Payable(o, ~deposit[d].gateway)
  <2>1. /\ Post(deposit[d].amount, Price, 0) /\ SetDeposit(d, "APPROVED")
        /\ SetOrder(o, "PAID")
    BY <1>2 DEF finishApproval
  <2> HIDE DEF d, o
  <2>2. /\ wallet' \in [balance: Nat, blocked: Nat]
        /\ wallet'.blocked <= wallet'.balance
    BY <1>0, <2>1 DEF Post, TypeOK, Available
  <2>3. /\ deposit' \in [Deposits -> [status: DepositStatuses, gateway: BOOLEAN,
                                      amount: Nat, order: Orders \cup {NoOrder}]]
        /\ open' \subseteq Deposits
    BY <1>0, <2>1, SetDepositType DEF DepositStatuses
  <2>4. /\ order' \in [Orders -> [status: OrderStatuses, credit: BOOLEAN]]
        /\ locked' \subseteq Orders
    BY <1>0, <2>1, SetOrderType DEF OrderStatuses
  <2>5. TypeOK'
    BY <1>0, <1>1, <2>2, <2>3, <2>4 DEF finishApproval, TypeOK, CallRow
  <2>6. Kept
    BY <1>0, <2>1, SetKept DEF Approvable, DepositStatuses
  <2>7. \A q \in Calls \ {k} : call[q].op # "paying"
    BY DEF IndInv, OnePays, finishApproval
  <2>8. \A q \in Calls : call'[q] = Idle \/ Quiet(q)
    BY <1>1, <2>7 DEF Quiet
  <2> QED BY <2>5, <2>6, <2>8, CallsStep DEF Kept
<1>3. CASE ~Payable(o, ~deposit[d].gateway)
  <2>1. UNCHANGED <<wallet, deposit, open, order, locked>>
    BY <1>3 DEF finishApproval, KeepDeposit, KeepOrder
  <2>2. TypeOK'
    BY <1>0, <1>1, <2>1 DEF finishApproval, TypeOK, CallRow
  <2> QED BY <1>0, <2>1, <2>2, EndsInv
<1> QED BY <1>2, <1>3

LEMMA DepositTimesInv ==
  ASSUME IndInv, (\E d \in Deposits : depositTimePasses(d)) \/ expireGatewayDeposits
  PROVE  IndInv' /\ Kept
<1>0. TypeOK
  BY DEF IndInv
<1>1. CASE \E d \in Deposits : depositTimePasses(d)
  <2>1. TypeOK' /\ UNCHANGED <<wallet, deposit, taken, call>>
    BY <1>0, <1>1 DEF depositTimePasses, TypeOK
  <2> QED BY <2>1, SameKept, FreeStep DEF Kept
<1>2. CASE expireGatewayDeposits
  <2>1. /\ deposit' = [d \in Deposits |->
             IF d \in Abandoned THEN [deposit[d] EXCEPT !.status = "EXPIRED"]
             ELSE deposit[d]]
        /\ UNCHANGED <<wallet, taken, call>>
    BY <1>2 DEF expireGatewayDeposits
  <2>2. TypeOK'
    <3>1. \A d \in Deposits : deposit'[d] \in
             [status: DepositStatuses, gateway: BOOLEAN, amount: Nat,
              order: Orders \cup {NoOrder}]
      BY <1>0, <2>1 DEF TypeOK, DepositStatuses
    <3>2. deposit' \in [Deposits -> [status: DepositStatuses, gateway: BOOLEAN,
                                    amount: Nat, order: Orders \cup {NoOrder}]]
      BY <2>1, <3>1
    <3> QED BY <1>0, <1>2, <3>2 DEF expireGatewayDeposits, TypeOK
  <2>3. \A d \in Deposits : d \in Abandoned => deposit[d].status = "PENDING_PAYMENT"
    BY DEF Abandoned, AtGateway
  <2>4. Kept
    BY <1>0, <2>1, <2>3 DEF Kept, RowsKept, FatesKept, TypeOK
  <2>5. \A q \in Calls : Quiet(q)
    <3>1. \A d \in Abandoned : DepositFree(d)
      BY <1>2 DEF expireGatewayDeposits
    <3> QED BY <1>0, <2>1, <3>1 DEF Quiet, DepositFree, IndInv, CallInv
  <2> QED BY <2>2, <2>4, <2>5, CallsStep DEF Kept
<1> QED BY <1>1, <1>2

LEMMA WithdrawalInv ==
  ASSUME IndInv, NEW w \in Withdrawals,
         \/ createWithdrawal(w) \/ cancelWithdrawal(w) \/ approveWithdrawal(w)
         \/ rejectWithdrawal(w) \/ payWithdrawal(w)
  PROVE  IndInv' /\ Kept
<1>0. TypeOK /\ WithdrawalAmount \in Nat
  BY FundsAssumption DEF IndInv
<1>1. UNCHANGED <<debt, active, order, locked, deposit, open, taken, history, call>>
  BY DEF createWithdrawal, cancelWithdrawal, approveWithdrawal, rejectWithdrawal,
     payWithdrawal
<1>2. withdrawal' \in [Withdrawals -> WithdrawalStatuses]
  BY <1>0 DEF createWithdrawal, cancelWithdrawal, approveWithdrawal, rejectWithdrawal,
     payWithdrawal, SetWithdrawal, TypeOK, WithdrawalStatuses
<1>3. /\ wallet' \in [balance: Nat, blocked: Nat]
      /\ wallet'.blocked <= wallet'.balance
      /\ WalletFree \/ wallet' = wallet
  <2>1. CASE createWithdrawal(w)
    BY <1>0, <2>1 DEF createWithdrawal, Block, Available, TypeOK
  <2>2. CASE cancelWithdrawal(w) \/ rejectWithdrawal(w)
    BY <1>0, <2>2 DEF cancelWithdrawal, rejectWithdrawal, Release, NotBelowZero, TypeOK
  <2>3. CASE approveWithdrawal(w)
    BY <1>0, <2>3 DEF approveWithdrawal, TypeOK
  <2>4. CASE payWithdrawal(w)
    BY <1>0, <2>4, PostType DEF payWithdrawal
  <2> QED BY <2>1, <2>2, <2>3, <2>4
<1>4. TypeOK'
  BY <1>0, <1>1, <1>2, <1>3 DEF TypeOK
<1> QED BY <1>1, <1>3, <1>4, SameKept, FreeStep DEF Kept

LEMMA AdjustInv ==
  ASSUME IndInv, adjustWallet(1, 0) \/ adjustWallet(0, 1) \/ changeStatus
  PROVE  IndInv' /\ Kept
<1>0. TypeOK
  BY DEF IndInv
<1>1. ASSUME NEW c \in Int, NEW d \in Int, adjustWallet(c, d) PROVE IndInv' /\ Kept
  <2>1. UNCHANGED <<deposit, taken, call>>
    BY <1>1 DEF adjustWallet
  <2>2. /\ wallet' \in [balance: Nat, blocked: Nat]
        /\ wallet'.blocked <= wallet'.balance /\ WalletFree
    BY <1>0, <1>1, PostType DEF adjustWallet
  <2>3. TypeOK'
    BY <1>0, <1>1, <2>2 DEF adjustWallet, TypeOK
  <2> QED BY <2>1, <2>2, <2>3, SameKept, FreeStep DEF Kept
<1>2. CASE changeStatus
  <2>1. TypeOK' /\ UNCHANGED <<wallet, deposit, taken, call>>
    BY <1>0, <1>2 DEF changeStatus, TypeOK
  <2> QED BY <2>1, SameKept, FreeStep DEF Kept
<1> QED BY <1>1, <1>2

LEMMA NextInv == IndInv /\ [Next]_vars => IndInv' /\ Kept
<1> SUFFICES ASSUME IndInv, [Next]_vars PROVE IndInv' /\ Kept
  OBVIOUS
<1>1. CASE UNCHANGED vars
  <2>1. TypeOK' /\ UNCHANGED <<wallet, deposit, taken, call>>
    BY <1>1 DEF vars, IndInv, TypeOK
  <2> QED BY <2>1, SameKept, FreeStep DEF Kept
<1>2. CASE OrderNext
  <2>1. ASSUME NEW o \in Orders,
               \/ createOrderWallet(o) \/ createOrderCredit(o) \/ createOrderUnpaid(o)
               \/ cancelByAgent(o) \/ approve(o) \/ confirmReceipt(o)
               \/ adminCancel(o) \/ expireOverdue(o) \/ priceLockPasses(o)
        PROVE  IndInv' /\ Kept
    BY <2>1, CreateOrderInv, OrderMovesInv, AdminCancelInv
  <2>2. ASSUME NEW k \in Calls, NEW o \in Orders,
               payOrder(k, o) \/ \E d \in Deposits : submitTransfer(k, o, d)
        PROVE  IndInv' /\ Kept
    BY <2>2, ReadersInv, SubmitTransferInv
  <2>3. ASSUME NEW k \in Calls, payFromWallet(k) \/ transferNoted(k)
        PROVE  IndInv' /\ Kept
    BY <2>3, PayFromWalletInv, TransferNotedInv
  <2> QED BY <1>2, <2>1, <2>2, <2>3, StartGatewayInv DEF OrderNext
<1>3. CASE FundingNext
  <2>1. ASSUME NEW k \in Calls, NEW d \in Deposits,
               verified(k, d) \/ refused(k, d) \/ approveDeposit(k, d)
        PROVE  IndInv' /\ Kept
    BY <2>1, ReadersInv, ApprovalInv
  <2>2. ASSUME NEW k \in Calls,
               failDeposit(k) \/ handleGatewayCallback(k) \/ finishApproval(k)
        PROVE  IndInv' /\ Kept
    BY <2>2, FailDepositInv, ApprovalInv, FinishApprovalInv
  <2> QED BY <1>3, <2>1, <2>2, CreateDepositInv, RejectDepositInv, DepositTimesInv
        DEF FundingNext
<1>4. CASE OtherNext
  <2>1. ASSUME NEW k \in Calls, debtSettled(k) \/ callDies(k)
        PROVE  IndInv' /\ Kept
    BY <2>1, DebtSettledInv, CallDiesInv
  <2> QED BY <1>4, <2>1, WithdrawalInv, ReadersInv, AdjustInv DEF OtherNext
<1> QED BY <1>1, <1>2, <1>3, <1>4 DEF Next

-----------------------------------------------------------------------------
(* What is reserved.                                                         *)

OpenRequests == WithStatus({"PENDING", "APPROVED"})

BlockedInv ==
  IsFiniteSet(OpenRequests) /\ wallet.blocked = WithdrawalAmount * Cardinality(OpenRequests)

LEMMA InitBlocked == Init => BlockedInv
<1> SUFFICES ASSUME Init PROVE BlockedInv
  OBVIOUS
<1>1. OpenRequests = {}
  BY DEF Init, OpenRequests, WithStatus
<1> QED BY <1>1, FS_EmptySet, FundsAssumption DEF Init, BlockedInv

LEMMA RequestStep ==
  ASSUME TypeOK, BlockedInv, NEW w \in Withdrawals,
         \/ createWithdrawal(w) \/ cancelWithdrawal(w) \/ approveWithdrawal(w)
         \/ rejectWithdrawal(w) \/ payWithdrawal(w)
  PROVE  BlockedInv'
<1>0. /\ WithdrawalAmount \in Nat /\ wallet.blocked \in Nat /\ w \in Withdrawals
      /\ withdrawal \in [Withdrawals -> WithdrawalStatuses]
  BY FundsAssumption DEF TypeOK
<1>1. CASE createWithdrawal(w)
  <2>1. w \notin OpenRequests /\ OpenRequests' = OpenRequests \cup {w}
    BY <1>0, <1>1 DEF createWithdrawal, SetWithdrawal, OpenRequests, WithStatus
  <2>2. wallet'.blocked = wallet.blocked + WithdrawalAmount
    BY <1>1 DEF createWithdrawal, Block, TypeOK
  <2>3. /\ IsFiniteSet(OpenRequests')
        /\ WithdrawalAmount * Cardinality(OpenRequests')
             = wallet.blocked + WithdrawalAmount
    BY <1>0, <2>1, AddOne DEF BlockedInv
  <2> QED BY <2>2, <2>3 DEF BlockedInv
<1>2. CASE cancelWithdrawal(w) \/ rejectWithdrawal(w) \/ payWithdrawal(w)
  <2>1. w \in OpenRequests /\ OpenRequests' = OpenRequests \ {w}
    BY <1>0, <1>2 DEF cancelWithdrawal, rejectWithdrawal, payWithdrawal, SetWithdrawal,
       OpenRequests, WithStatus
  <2>2. /\ IsFiniteSet(OpenRequests')
        /\ WithdrawalAmount * Cardinality(OpenRequests')
             = wallet.blocked - WithdrawalAmount
        /\ wallet.blocked - WithdrawalAmount \in Nat
    <3>1. IsFiniteSet(OpenRequests) /\ WithdrawalAmount \in Int
      BY <1>0 DEF BlockedInv
    <3>2. /\ IsFiniteSet(OpenRequests \ {w})
          /\ WithdrawalAmount * Cardinality(OpenRequests \ {w})
               = WithdrawalAmount * Cardinality(OpenRequests) - WithdrawalAmount
          /\ WithdrawalAmount * Cardinality(OpenRequests \ {w}) \in Nat
      BY <1>0, <2>1, <3>1, RemoveOne
    <3> QED BY <2>1, <3>2 DEF BlockedInv
  <2>3. wallet'.blocked = wallet.blocked - WithdrawalAmount
    BY <1>0, <1>2, <2>2 DEF cancelWithdrawal, rejectWithdrawal, payWithdrawal, Release,
       NotBelowZero, Post, TypeOK
  <2> QED BY <2>2, <2>3 DEF BlockedInv
<1>3. CASE approveWithdrawal(w)
  <2>1. OpenRequests' = OpenRequests /\ wallet' = wallet
    BY <1>0, <1>3 DEF approveWithdrawal, SetWithdrawal, OpenRequests, WithStatus
  <2> QED BY <2>1 DEF BlockedInv
<1> QED BY <1>1, <1>2, <1>3

\* No other step reserves or releases anything.
LEMMA NothingReserved ==
  ASSUME TypeOK, BlockedInv, UNCHANGED withdrawal,
         wallet' = wallet \/ \E c, d : Post(c, d, 0)
  PROVE  BlockedInv'
<1>1. wallet'.blocked = wallet.blocked
  BY DEF TypeOK, Post
<1> QED BY <1>1 DEF BlockedInv, OpenRequests, WithStatus

LEMMA NextBlocked == IndInv /\ BlockedInv /\ [Next]_vars => BlockedInv'
<1> SUFFICES ASSUME IndInv, BlockedInv, [Next]_vars PROVE BlockedInv'
  OBVIOUS
<1>0. TypeOK
  BY DEF IndInv
<1> DEFINE Still == UNCHANGED withdrawal /\ (wallet' = wallet \/ \E c, d : Post(c, d, 0))
<1>1. CASE UNCHANGED vars
  <2>1. Still
    BY <1>1 DEF vars
  <2> QED BY <1>0, <2>1, NothingReserved
<1>2. CASE OrderNext
  <2>1. ASSUME NEW o \in Orders,
               \/ createOrderWallet(o) \/ createOrderCredit(o) \/ createOrderUnpaid(o)
               \/ cancelByAgent(o) \/ approve(o) \/ confirmReceipt(o)
               \/ adminCancel(o) \/ expireOverdue(o) \/ priceLockPasses(o)
        PROVE  Still
    BY <2>1 DEF createOrderWallet, createOrderCredit, createOrderUnpaid, NewOrder,
       cancelByAgent, approve, confirmReceipt, adminCancel, expireOverdue,
       priceLockPasses
  <2>2. ASSUME NEW k \in Calls, NEW o \in Orders,
               payOrder(k, o) \/ \E d \in Deposits : submitTransfer(k, o, d)
        PROVE  Still
    BY <2>2 DEF payOrder, submitTransfer
  <2>3. ASSUME NEW k \in Calls, payFromWallet(k) \/ transferNoted(k)
        PROVE  Still
    BY <2>3 DEF payFromWallet, transferNoted
  <2>4. ASSUME NEW k \in Calls, NEW d \in Deposits, NEW answered \in BOOLEAN,
               startGateway(k, d, answered)
        PROVE  Still
    BY <2>4 DEF startGateway
  <2>5. Still
    BY <1>2, <2>1, <2>2, <2>3, <2>4 DEF OrderNext
  <2> QED BY <1>0, <2>5, NothingReserved
<1>3. CASE FundingNext
  <2>1. ASSUME NEW k \in Calls, NEW d \in Deposits,
               verified(k, d) \/ refused(k, d) \/ approveDeposit(k, d)
        PROVE  Still
    BY <2>1 DEF verified, refused, approveDeposit, ApproveTx
  <2>2. ASSUME NEW k \in Calls,
               failDeposit(k) \/ handleGatewayCallback(k) \/ finishApproval(k)
        PROVE  Still
    BY <2>2 DEF failDeposit, handleGatewayCallback, ApproveTx, finishApproval
  <2>3. ASSUME NEW d \in Deposits, NEW gateway \in BOOLEAN, NEW answered \in BOOLEAN,
               NEW a \in Amounts, createDeposit(d, gateway, a, answered)
        PROVE  Still
    BY <2>3 DEF createDeposit
  <2>4. ASSUME NEW d \in Deposits, rejectDeposit(d) \/ depositTimePasses(d)
        PROVE  Still
    BY <2>4 DEF rejectDeposit, depositTimePasses
  <2>5. expireGatewayDeposits => Still
    BY DEF expireGatewayDeposits
  <2>6. Still
    BY <1>3, <2>1, <2>2, <2>3, <2>4, <2>5 DEF FundingNext
  <2> QED BY <1>0, <2>6, NothingReserved
<1>4. CASE OtherNext
  <2>1. ASSUME NEW k \in Calls, NEW a \in Amounts, settleDebtFromWallet(k, a)
        PROVE  Still
    BY <2>1 DEF settleDebtFromWallet
  <2>2. ASSUME NEW k \in Calls, debtSettled(k) \/ callDies(k)
        PROVE  Still
    BY <2>2 DEF debtSettled, callDies
  <2>3. adjustWallet(1, 0) \/ adjustWallet(0, 1) \/ changeStatus => Still
    BY DEF adjustWallet, changeStatus
  <2>4. ASSUME NEW w \in Withdrawals,
               \/ createWithdrawal(w) \/ cancelWithdrawal(w) \/ approveWithdrawal(w)
               \/ rejectWithdrawal(w) \/ payWithdrawal(w)
        PROVE  BlockedInv'
    BY <1>0, <2>4, RequestStep
  <2>5. Still => BlockedInv'
    BY <1>0, NothingReserved
  <2> QED BY <1>4, <2>1, <2>2, <2>3, <2>4, <2>5 DEF OtherNext
<1> QED BY <1>1, <1>2, <1>3, <1>4 DEF Next

-----------------------------------------------------------------------------
(* What is owed.                                                             *)

OnCredit ==
  {o \in Orders : order[o].credit /\ order[o].status \in {"APPROVED", "DELIVERED"}}

DebtInv ==
  /\ IsFiniteSet(OnCredit)
  /\ debt = Price * Cardinality(OnCredit) - history.settled

LEMMA InitDebt == Init => DebtInv
<1> SUFFICES ASSUME Init PROVE DebtInv
  OBVIOUS
<1>1. OnCredit = {}
  BY DEF Init, OnCredit
<1> QED BY <1>1, FS_EmptySet, FundsAssumption DEF Init, DebtInv

\* An order that is paid, cancelled or reviewed was not approved before.
SameDebt ==
  /\ UNCHANGED debt /\ history'.settled = history.settled
  /\ \/ UNCHANGED order
     \/ \E o \in Orders : /\ order[o].status \notin {"APPROVED", "DELIVERED"}
                          /\ \A q \in Orders \ {o} : order'[q] = order[q]
                          /\ order'[o].status \notin {"APPROVED", "DELIVERED"}

LEMMA DebtFrame == ASSUME DebtInv, SameDebt PROVE DebtInv'
<1>1. OnCredit' = OnCredit
  BY DEF OnCredit, SameDebt
<1> QED BY <1>1 DEF DebtInv, SameDebt

LEMMA SetOrderDebt ==
  ASSUME TypeOK, NEW o \in Orders,
         NEW st \in OrderStatuses \ {"APPROVED", "DELIVERED"}, SetOrder(o, st),
         order[o].status \notin {"APPROVED", "DELIVERED"}, UNCHANGED <<debt, history>>
  PROVE  SameDebt
BY SetOrderType DEF SameDebt

LEMMA NewOrderDebt ==
  ASSUME TypeOK, NEW o \in Orders, NEW c \in BOOLEAN,
         NEW st \in OrderStatuses \ {"APPROVED", "DELIVERED"}, NewOrder(o, st, c)
  PROVE  SameDebt
BY DEF SameDebt, NewOrder, TypeOK

LEMMA ApproveDebt ==
  ASSUME TypeOK, DebtInv, NEW o \in Orders, approve(o) \/ confirmReceipt(o)
  PROVE  DebtInv'
<1>0. /\ Price \in Int /\ history.settled \in Int /\ debt \in Int
      /\ order \in [Orders -> [status: OrderStatuses, credit: BOOLEAN]]
  BY FundsAssumption DEF TypeOK
<1>1. CASE approve(o) /\ order[o].credit
  <2>1. o \notin OnCredit /\ OnCredit' = OnCredit \cup {o}
    BY <1>0, <1>1 DEF approve, SetOrder, OnCredit
  <2>2. debt' = debt + Price /\ history' = history
    BY <1>1 DEF approve, ApprovedDebt
  <2>3. /\ IsFiniteSet(OnCredit')
        /\ Price * Cardinality(OnCredit') = Price * Cardinality(OnCredit) + Price
    BY <1>0, <2>1, AddOne DEF DebtInv
  <2>4. Price * Cardinality(OnCredit) \in Int
    BY <1>0, ProductInt DEF DebtInv
  <2> QED BY <1>0, <2>2, <2>3, <2>4 DEF DebtInv
<1>2. CASE (approve(o) /\ ~order[o].credit) \/ confirmReceipt(o)
  <2>1. OnCredit' = OnCredit
    BY <1>0, <1>2 DEF approve, confirmReceipt, SetOrder, OnCredit
  <2>2. UNCHANGED <<debt, history>>
    BY <1>2 DEF approve, ApprovedDebt, confirmReceipt
  <2> QED BY <2>1, <2>2 DEF DebtInv
<1> QED BY <1>1, <1>2

LEMMA DebtSettledDebt ==
  ASSUME TypeOK, DebtInv, NEW k \in Calls, debtSettled(k)
  PROVE  DebtInv'
<1>1. OnCredit' = OnCredit
  BY DEF debtSettled, OnCredit
<1>2. \/ UNCHANGED <<debt, history>>
      \/ /\ debt' = debt - call[k].amount
         /\ history'.settled = history.settled + call[k].amount
  BY DEF debtSettled, TypeOK
<1>3. /\ debt \in Int /\ history.settled \in Int /\ call[k].amount \in Int
      /\ Price * Cardinality(OnCredit) \in Int
  BY ProductInt, FundsAssumption DEF DebtInv, TypeOK
<1> QED BY <1>1, <1>2, <1>3 DEF DebtInv

LEMMA OrderNextDebt == ASSUME IndInv, DebtInv, OrderNext PROVE DebtInv'
<1>0. /\ TypeOK
      /\ {"PAID", "PENDING_PAYMENT", "PAYMENT_REVIEW", "CANCELLED", "EXPIRED"}
           \subseteq OrderStatuses \ {"APPROVED", "DELIVERED"}
  BY DEF IndInv, OrderStatuses
<1>1. ASSUME NEW o \in Orders,
             createOrderWallet(o) \/ createOrderCredit(o) \/ createOrderUnpaid(o)
      PROVE  SameDebt
  BY <1>0, <1>1, NewOrderDebt DEF createOrderWallet, createOrderCredit,
     createOrderUnpaid
<1>2. ASSUME NEW o \in Orders, cancelByAgent(o) \/ adminCancel(o) \/ expireOverdue(o)
      PROVE  SameDebt
  <2>1. /\ SetOrder(o, "CANCELLED") \/ SetOrder(o, "EXPIRED")
        /\ order[o].status \notin {"APPROVED", "DELIVERED"}
        /\ UNCHANGED <<debt, history>>
    BY <1>2 DEF cancelByAgent, adminCancel, Cancellable, expireOverdue
  <2> QED BY <1>0, <2>1, SetOrderDebt
<1>3. ASSUME NEW o \in Orders, approve(o) \/ confirmReceipt(o) PROVE DebtInv'
  BY <1>0, <1>3, ApproveDebt
<1>4. ASSUME NEW k \in Calls, payFromWallet(k) \/ transferNoted(k) PROVE SameDebt
  <2>1. call[k].on \in Orders
    BY <1>4 DEF IndInv, CallInv, payFromWallet, transferNoted
  <2>2. \/ UNCHANGED order
        \/ /\ SetOrder(call[k].on, "PAID") \/ SetOrder(call[k].on, "PAYMENT_REVIEW")
           /\ order[call[k].on].status \notin {"APPROVED", "DELIVERED"}
    BY <1>4 DEF payFromWallet, transferNoted, KeepOrder, Payable, CanPayNow
  <2>3. UNCHANGED <<debt, history>>
    BY <1>4 DEF payFromWallet, transferNoted
  <2> QED BY <1>0, <2>1, <2>2, <2>3, SetOrderDebt DEF SameDebt
<1>5. ASSUME \/ \E o \in Orders : priceLockPasses(o)
             \/ \E k \in Calls, o \in Orders :
                  \/ payOrder(k, o)
                  \/ \E d \in Deposits : submitTransfer(k, o, d)
             \/ \E k \in Calls, d \in Deposits, answered \in BOOLEAN :
                  startGateway(k, d, answered)
      PROVE  SameDebt
  BY <1>5 DEF priceLockPasses, payOrder, submitTransfer, startGateway, SameDebt
<1> QED BY <1>1, <1>2, <1>3, <1>4, <1>5, DebtFrame DEF OrderNext

LEMMA FundingNextDebt == ASSUME IndInv, DebtInv, FundingNext PROVE DebtInv'
<1>0. /\ TypeOK
      /\ {"PAID", "CANCELLED"} \subseteq OrderStatuses \ {"APPROVED", "DELIVERED"}
  BY DEF IndInv, OrderStatuses
<1>1. ASSUME NEW k \in Calls, finishApproval(k) PROVE SameDebt
  <2> DEFINE o == deposit[call[k].on].order
  <2>1. o \in Orders
    BY <1>1 DEF IndInv, CallInv, finishApproval
  <2>2. \/ UNCHANGED order
        \/ SetOrder(o, "PAID") /\ order[o].status \notin {"APPROVED", "DELIVERED"}
    BY <1>1 DEF finishApproval, KeepOrder, Payable, CanPayNow
  <2>3. UNCHANGED <<debt, history>>
    BY <1>1 DEF finishApproval
  <2> HIDE DEF o
  <2> QED BY <1>0, <2>1, <2>2, <2>3, SetOrderDebt DEF SameDebt
<1>2. ASSUME NEW d \in Deposits, rejectDeposit(d) PROVE SameDebt
  <2> DEFINE o == deposit[d].order
  <2>1. o \in Orders \cup {NoOrder}
    BY <1>0 DEF TypeOK
  <2>2. \/ UNCHANGED order
        \/ /\ o # NoOrder /\ SetOrder(o, "CANCELLED")
           /\ order[o].status \notin {"APPROVED", "DELIVERED"}
    BY <1>2 DEF rejectDeposit, KeepOrder
  <2>3. UNCHANGED <<debt, history>>
    BY <1>2 DEF rejectDeposit
  <2> HIDE DEF o
  <2> QED BY <1>0, <2>1, <2>2, <2>3, SetOrderDebt DEF SameDebt
<1>3. ASSUME \/ \E d \in Deposits, gateway, answered \in BOOLEAN, a \in Amounts :
                  createDeposit(d, gateway, a, answered)
             \/ \E k \in Calls, d \in Deposits :
                  verified(k, d) \/ refused(k, d) \/ approveDeposit(k, d)
             \/ \E k \in Calls : failDeposit(k) \/ handleGatewayCallback(k)
             \/ \E d \in Deposits : depositTimePasses(d)
             \/ expireGatewayDeposits
      PROVE  SameDebt
  BY <1>3 DEF createDeposit, verified, refused, approveDeposit, ApproveTx, failDeposit,
     handleGatewayCallback, depositTimePasses, expireGatewayDeposits, SameDebt
<1> QED BY <1>1, <1>2, <1>3, DebtFrame DEF FundingNext

LEMMA OtherNextDebt == ASSUME IndInv, DebtInv, OtherNext PROVE DebtInv'
<1>0. TypeOK
  BY DEF IndInv
<1>1. ASSUME NEW k \in Calls, debtSettled(k) PROVE DebtInv'
  BY <1>0, <1>1, DebtSettledDebt
<1>2. ASSUME \/ \E w \in Withdrawals :
                  \/ createWithdrawal(w) \/ cancelWithdrawal(w)
                  \/ approveWithdrawal(w) \/ rejectWithdrawal(w) \/ payWithdrawal(w)
             \/ \E k \in Calls, a \in Amounts : settleDebtFromWallet(k, a)
             \/ \E k \in Calls : callDies(k)
             \/ changeStatus
      PROVE  SameDebt
  BY <1>2 DEF createWithdrawal, cancelWithdrawal, approveWithdrawal, rejectWithdrawal,
     payWithdrawal, settleDebtFromWallet, callDies, changeStatus, SameDebt
<1>3. ASSUME NEW c, NEW d, adjustWallet(c, d) PROVE SameDebt
  BY <1>0, <1>3 DEF adjustWallet, SameDebt, TypeOK
<1> QED BY <1>1, <1>2, <1>3, DebtFrame DEF OtherNext

LEMMA NextDebt == IndInv /\ DebtInv /\ [Next]_vars => DebtInv'
<1> SUFFICES ASSUME IndInv, DebtInv, [Next]_vars PROVE DebtInv'
  OBVIOUS
<1>1. CASE UNCHANGED vars
  BY <1>1, DebtFrame DEF vars, SameDebt
<1> QED BY <1>1, OrderNextDebt, FundingNextDebt, OtherNextDebt DEF Next

-----------------------------------------------------------------------------
(* What the wallet of the agent holds.                                       *)

PaidRequests == WithStatus({"PAID"})
Deposited    == SumFunctionOnSet(DepositAmount, Credited)
Spent        == Price * Cardinality(Bought)
PaidOut      == WithdrawalAmount * Cardinality(PaidRequests)

Books ==
  wallet.balance = Deposited - Spent - PaidOut - history.settled + history.adjusted

\* An order that is still to be paid was not made on credit.
UnpaidCash ==
  \A o \in Orders :
    order[o].status \in {"PENDING_PAYMENT", "PAYMENT_REVIEW"} => ~order[o].credit

MoneyInv == Books /\ UnpaidCash

BooksKnown ==
  /\ \A d \in Deposits : DepositAmount[d] \in Nat
  /\ Deposited \in Int /\ Spent \in Int /\ PaidOut \in Int
  /\ wallet.balance \in Nat /\ history.settled \in Int /\ history.adjusted \in Int

LEMMA BooksType == TypeOK => BooksKnown
<1> SUFFICES ASSUME TypeOK PROVE BooksKnown
  OBVIOUS
<1>1. \A d \in Deposits : DepositAmount[d] \in Nat
  BY DEF TypeOK, DepositAmount
<1>2. Deposited \in Int
  <2>1. Credited \subseteq Deposits
    BY DEF Credited
  <2>2. IsFiniteSet(Credited) /\ \A d \in Credited : DepositAmount[d] \in Int
    BY <1>1, <2>1, FundsAssumption, FS_Subset
  <2> QED BY <2>2, SumType DEF Deposited
<1>3. Spent \in Int
  <2>1. IsFiniteSet(Bought)
    BY FundsAssumption, FS_Subset DEF Bought
  <2> QED BY <2>1, FundsAssumption, ProductInt DEF Spent
<1>4. PaidOut \in Int
  <2>1. IsFiniteSet(PaidRequests)
    BY FundsAssumption, FS_Subset DEF PaidRequests, WithStatus
  <2> QED BY <2>1, FundsAssumption, ProductInt DEF PaidOut
<1>5. wallet.balance \in Nat /\ history.settled \in Int /\ history.adjusted \in Int
  BY DEF TypeOK
<1> QED BY <1>1, <1>2, <1>3, <1>4, <1>5 DEF BooksKnown

LEMMA BooksTypeNext == TypeOK' => BooksKnown'
BY BooksType, PTL

\* A step that approves no deposit
DepositsStay ==
  \A d \in Deposits :
    deposit[d].status = "APPROVED" \/ deposit'[d].status = "APPROVED"
      => deposit'[d] = deposit[d]

LEMMA DepositsSame ==
  ASSUME DepositsStay PROVE Deposited' = Deposited
<1> DEFINE S == Credited
           f == DepositAmount
           h == DepositAmount'
<1>1. Credited' = S /\ S \subseteq Deposits
  BY DEF Credited, DepositsStay
<1>2. \A d \in S : f[d] = h[d]
  BY DEF DepositsStay, Credited, DepositAmount
<1> HIDE DEF S, f, h
<1>3. SumFunctionOnSet(f, S) = SumFunctionOnSet(h, S)
  BY <1>1, <1>2, FundsAssumption, FS_Subset, SumSame
<1> QED BY <1>1, <1>3 DEF Deposited, S, f, h

LEMMA DepositApproved ==
  ASSUME TypeOK, TypeOK', NEW d \in Deposits, deposit[d].status # "APPROVED",
         SetDeposit(d, "APPROVED")
  PROVE  Deposited' = Deposited + deposit[d].amount
<1> DEFINE S == Credited
           T == Credited'
           f == DepositAmount
           h == DepositAmount'
<1>1. /\ deposit'[d].status = "APPROVED" /\ deposit'[d].amount = deposit[d].amount
      /\ \A q \in Deposits \ {d} : deposit'[q] = deposit[q]
  <2>1. "APPROVED" \in DepositStatuses
    BY DEF DepositStatuses
  <2> QED BY <2>1, SetDepositType
<1>2. /\ S \subseteq Deposits /\ T \subseteq Deposits /\ S \ {d} = T \ {d}
      /\ d \notin S /\ d \in T
  BY <1>1 DEF Credited
<1>3. /\ f[d] = deposit[d].amount /\ h[d] = deposit[d].amount
      /\ \A q \in Deposits \ {d} : f[q] = h[q]
  BY <1>1 DEF DepositAmount
<1>4. \A q \in Deposits : f[q] \in Int /\ h[q] \in Int
  BY BooksType, BooksTypeNext DEF BooksKnown
<1>5. Deposited = SumFunctionOnSet(f, S) /\ Deposited' = SumFunctionOnSet(h, T)
      /\ Deposited \in Int
  BY BooksType DEF BooksKnown, Deposited
<1> HIDE DEF S, T, f, h
<1>6. /\ IsFiniteSet(S) /\ IsFiniteSet(T)
      /\ \A q \in S : f[q] \in Int
      /\ \A q \in T : h[q] \in Int
      /\ Agree(f, h, S \ {d})
  BY <1>2, <1>3, <1>4, FundsAssumption, FS_Subset DEF Agree
<1>7. SumFunctionOnSet(h, T) = SumFunctionOnSet(f, S)
        + (IF d \in T THEN h[d] ELSE 0) - (IF d \in S THEN f[d] ELSE 0)
  BY <1>2, <1>6, SumStep
<1> QED BY <1>2, <1>3, <1>4, <1>5, <1>7

\* Which deposits are not approved by a step
LEMMA SetStays ==
  ASSUME TypeOK, NEW d \in Deposits, NEW st \in DepositStatuses \ {"APPROVED"},
         deposit[d].status # "APPROVED", SetDeposit(d, st)
  PROVE  DepositsStay
BY SetDepositType DEF DepositsStay

LEMMA NewStays ==
  ASSUME TypeOK, NEW d \in Deposits, NEW st \in DepositStatuses \ {"APPROVED"},
         NEW g, NEW a, NEW o, NewDeposit(d, st, g, a, o)
  PROVE  DepositsStay
BY DEF TypeOK, NewDeposit, DepositsStay

\* Orders that are set, and orders that are new
LEMMA SetOrderBuys ==
  ASSUME TypeOK, UnpaidCash, NEW o \in Orders,
         NEW st \in OrderStatuses \ {"PENDING_PAYMENT"}, SetOrder(o, st),
         st = "PAYMENT_REVIEW" => order[o].status = "PENDING_PAYMENT"
  PROVE  /\ UnpaidCash'
         /\ Bought' = IF st \in PaidStatuses /\ ~order[o].credit
                      THEN Bought \cup {o} ELSE Bought \ {o}
<1>1. /\ order'[o].status = st /\ order'[o].credit = order[o].credit
      /\ \A q \in Orders \ {o} : order'[q] = order[q]
  BY SetOrderType
<1>2. UnpaidCash'
  BY <1>1 DEF UnpaidCash
<1> QED BY <1>1, <1>2 DEF Bought

LEMMA NewOrderBuys ==
  ASSUME TypeOK, UnpaidCash, NEW o \in Orders, NEW st \in OrderStatuses,
         NEW c \in BOOLEAN, c => st = "PAID", NewOrder(o, st, c)
  PROVE  /\ UnpaidCash'
         /\ o \notin Bought
         /\ Bought' = IF st \in PaidStatuses /\ ~c THEN Bought \cup {o} ELSE Bought
<1>1. /\ order[o].status = "none"
      /\ order'[o].status = st /\ order'[o].credit = c
      /\ \A q \in Orders \ {o} : order'[q] = order[q]
  BY DEF TypeOK, NewOrder
<1>2. UnpaidCash'
  BY <1>1 DEF UnpaidCash
<1>3. o \notin Bought
  BY <1>1 DEF Bought, PaidStatuses
<1> QED BY <1>1, <1>2, <1>3 DEF Bought

\* A step that moves no money
LEMMA BooksSame ==
  ASSUME TypeOK, TypeOK', MoneyInv, UnpaidCash', DepositsStay, Bought' = Bought,
         PaidRequests' = PaidRequests, wallet'.balance = wallet.balance,
         history' = history
  PROVE  MoneyInv'
<1>1. Deposited' = Deposited
  BY DepositsSame
<1>2. Spent' = Spent /\ PaidOut' = PaidOut
  BY DEF Spent, PaidOut
<1> QED BY <1>1, <1>2 DEF MoneyInv, Books

\* A step that pays an order, from a deposit that it approves or without one
LEMMA BooksBuy ==
  ASSUME TypeOK, TypeOK', MoneyInv, UnpaidCash', NEW o \in Orders, o \notin Bought,
         Bought' = Bought \cup {o}, PaidRequests' = PaidRequests, history' = history,
         wallet'.balance = wallet.balance + (Deposited' - Deposited) - Price
  PROVE  MoneyInv'
<1>1. Price \in Int /\ IsFiniteSet(Bought)
  BY FundsAssumption, FS_Subset DEF Bought
<1>2. Spent' = Spent + Price
  BY <1>1, AddOne DEF Spent
<1>3. PaidOut' = PaidOut
  BY DEF PaidOut
<1>4. BooksKnown /\ BooksKnown' /\ Books
  BY BooksType, BooksTypeNext DEF MoneyInv
<1>5. Books'
  BY <1>1, <1>2, <1>3, <1>4 DEF Books, BooksKnown
<1> QED BY <1>5 DEF MoneyInv

\* What Post does to the balance
LEMMA PostBalance ==
  ASSUME TypeOK, NEW c \in Int, NEW d \in Int, NEW x, Post(c, d, x)
  PROVE  wallet'.balance = wallet.balance + c - d
BY DEF TypeOK, Post

LEMMA CreateOrderMoney ==
  ASSUME TypeOK, TypeOK', MoneyInv, NEW o \in Orders,
         createOrderWallet(o) \/ createOrderCredit(o) \/ createOrderUnpaid(o)
  PROVE  MoneyInv'
<1>0. /\ {"PAID", "PENDING_PAYMENT"} \subseteq OrderStatuses /\ UnpaidCash
      /\ "PAID" \in PaidStatuses /\ "PENDING_PAYMENT" \notin PaidStatuses
      /\ Price \in Int
  BY FundsAssumption DEF OrderStatuses, PaidStatuses, MoneyInv
<1>1. DepositsStay /\ PaidRequests' = PaidRequests /\ history' = history
  BY DEF createOrderWallet, createOrderCredit, createOrderUnpaid, NewOrder,
     DepositsStay, PaidRequests, WithStatus
<1>2. CASE createOrderWallet(o)
  <2>1. /\ UnpaidCash' /\ o \notin Bought /\ Bought' = Bought \cup {o}
    BY <1>0, <1>2, NewOrderBuys DEF createOrderWallet
  <2>2. wallet'.balance = wallet.balance - Price
    BY <1>0, <1>2, PostBalance DEF createOrderWallet, TypeOK
  <2>3. Deposited' = Deposited /\ Deposited \in Int /\ wallet.balance \in Int
    BY <1>1, DepositsSame, BooksType DEF BooksKnown
  <2>4. wallet'.balance = wallet.balance + (Deposited' - Deposited) - Price
    BY <1>0, <2>2, <2>3
  <2> QED BY <1>1, <2>1, <2>4, BooksBuy
<1>3. CASE createOrderCredit(o)
  <2>1. UnpaidCash' /\ Bought' = Bought
    BY <1>0, <1>3, NewOrderBuys DEF createOrderCredit
  <2> QED BY <1>1, <1>3, <2>1, BooksSame DEF createOrderCredit
<1>4. CASE createOrderUnpaid(o)
  <2>1. UnpaidCash' /\ Bought' = Bought
    BY <1>0, <1>4, NewOrderBuys DEF createOrderUnpaid
  <2> QED BY <1>1, <1>4, <2>1, BooksSame DEF createOrderUnpaid
<1> QED BY <1>2, <1>3, <1>4

\* The order moves on, and what is bought stays bought.
LEMMA OrderMovesMoney ==
  ASSUME TypeOK, TypeOK', MoneyInv, NEW o \in Orders,
         \/ cancelByAgent(o) \/ approve(o) \/ confirmReceipt(o) \/ expireOverdue(o)
         \/ priceLockPasses(o)
  PROVE  MoneyInv'
<1>0. /\ {"CANCELLED", "APPROVED", "DELIVERED", "EXPIRED"}
           \subseteq OrderStatuses \ {"PENDING_PAYMENT", "PAYMENT_REVIEW"}
      /\ UnpaidCash
  BY DEF OrderStatuses, MoneyInv
<1>1. /\ DepositsStay /\ PaidRequests' = PaidRequests /\ history' = history
      /\ wallet' = wallet
  BY DEF cancelByAgent, approve, confirmReceipt, expireOverdue, priceLockPasses,
     DepositsStay, PaidRequests, WithStatus
<1>2. CASE cancelByAgent(o) \/ expireOverdue(o)
  <2>1. /\ order[o].status = "PENDING_PAYMENT"
        /\ SetOrder(o, "CANCELLED") \/ SetOrder(o, "EXPIRED")
    BY <1>2 DEF cancelByAgent, expireOverdue
  <2>2. UnpaidCash' /\ Bought' = Bought \ {o}
    BY <1>0, <2>1, SetOrderBuys DEF PaidStatuses
  <2>3. o \notin Bought
    BY <2>1 DEF Bought, PaidStatuses
  <2> QED BY <1>1, <2>2, <2>3, BooksSame
<1>3. CASE approve(o) \/ confirmReceipt(o)
  <2>1. /\ order[o].status \in PaidStatuses
        /\ SetOrder(o, "APPROVED") \/ SetOrder(o, "DELIVERED")
    BY <1>3 DEF approve, confirmReceipt, PaidStatuses
  <2>2. /\ UnpaidCash'
        /\ Bought' = IF ~order[o].credit THEN Bought \cup {o} ELSE Bought \ {o}
    BY <1>0, <2>1, SetOrderBuys DEF PaidStatuses
  <2>3. o \in Bought <=> ~order[o].credit
    BY <2>1 DEF Bought
  <2> QED BY <1>1, <2>2, <2>3, BooksSame
<1>4. CASE priceLockPasses(o)
  BY <1>0, <1>1, <1>4, BooksSame DEF priceLockPasses, UnpaidCash, Bought
<1> QED BY <1>2, <1>3, <1>4

LEMMA AdminCancelMoney ==
  ASSUME TypeOK, TypeOK', MoneyInv, NEW o \in Orders, adminCancel(o)
  PROVE  MoneyInv'
<1>1. /\ DepositsStay /\ PaidRequests' = PaidRequests /\ history' = history
      /\ Cancellable(o) /\ SetOrder(o, "CANCELLED")
  BY DEF adminCancel, DepositsStay, PaidRequests, WithStatus
<1>2. UnpaidCash' /\ Bought' = Bought \ {o}
  <2>1. "CANCELLED" \in OrderStatuses \ {"PENDING_PAYMENT"} /\ "CANCELLED" \notin PaidStatuses
        /\ UnpaidCash
    BY DEF OrderStatuses, PaidStatuses, MoneyInv
  <2> QED BY <1>1, <2>1, SetOrderBuys
<1>3. o \in Bought <=> Refund(o)
  BY <1>1 DEF Cancellable, Refund, Bought, PaidStatuses
<1>4. CASE Refund(o)
  <2>1. Price \in Int /\ IsFiniteSet(Bought)
    BY FundsAssumption, FS_Subset DEF Bought
  <2>2. Spent' = Spent - Price
    BY <1>2, <1>3, <1>4, <2>1, RemoveOne DEF Spent
  <2>3. wallet'.balance = wallet.balance + Price
    BY <1>4, <2>1, PostBalance DEF adminCancel, TypeOK
  <2>4. Deposited' = Deposited /\ PaidOut' = PaidOut
    BY <1>1, DepositsSame DEF PaidOut
  <2>5. BooksKnown /\ BooksKnown' /\ Books
    BY BooksType, BooksTypeNext DEF MoneyInv
  <2>6. Books'
    BY <1>1, <2>1, <2>2, <2>3, <2>4, <2>5 DEF Books, BooksKnown
  <2> QED BY <1>2, <2>6 DEF MoneyInv
<1>5. CASE ~Refund(o)
  <2>1. wallet' = wallet
    BY <1>5 DEF adminCancel
  <2> QED BY <1>1, <1>2, <1>3, <1>5, <2>1, BooksSame
<1> QED BY <1>4, <1>5

LEMMA PayFromWalletMoney ==
  ASSUME TypeOK, TypeOK', MoneyInv, NEW k \in Calls, CallInv(k), payFromWallet(k)
  PROVE  MoneyInv'
<1> DEFINE o == call[k].on
<1>1. /\ DepositsStay /\ PaidRequests' = PaidRequests /\ history' = history
      /\ o \in Orders /\ UnpaidCash
  BY DEF payFromWallet, DepositsStay, PaidRequests, WithStatus, CallInv, MoneyInv
<1>2. \/ Payable(o, FALSE) /\ Post(0, Price, 0) /\ SetOrder(o, "PAID")
      \/ UNCHANGED wallet /\ KeepOrder
  BY DEF payFromWallet
<1> HIDE DEF o
<1>3. CASE Payable(o, FALSE) /\ Post(0, Price, 0) /\ SetOrder(o, "PAID")
  <2>1. order[o].status \in {"PENDING_PAYMENT", "PAYMENT_REVIEW"} /\ ~order[o].credit
    BY <1>1, <1>3 DEF Payable, CanPayNow, UnpaidCash
  <2>2. "PAID" \in OrderStatuses \ {"PENDING_PAYMENT"} /\ "PAID" \in PaidStatuses
    BY DEF OrderStatuses, PaidStatuses
  <2>3. UnpaidCash' /\ Bought' = Bought \cup {o}
    BY <1>1, <1>3, <2>1, <2>2, SetOrderBuys
  <2>4. o \notin Bought
    BY <2>1 DEF Bought, PaidStatuses
  <2>5. Deposited' = Deposited /\ Deposited \in Int /\ wallet.balance \in Int
        /\ Price \in Int
    BY <1>1, DepositsSame, BooksType, FundsAssumption DEF BooksKnown
  <2>6. wallet'.balance = wallet.balance + 0 - Price
    BY <1>3, <2>5, PostBalance
  <2>7. wallet'.balance = wallet.balance + (Deposited' - Deposited) - Price
    BY <2>5, <2>6
  <2> QED BY <1>1, <2>3, <2>4, <2>7, BooksBuy
<1>4. CASE UNCHANGED wallet /\ KeepOrder
  <2>1. UnpaidCash' /\ Bought' = Bought
    BY <1>1, <1>4 DEF KeepOrder, UnpaidCash, Bought
  <2> QED BY <1>1, <1>4, <2>1, BooksSame
<1> QED BY <1>2, <1>3, <1>4

LEMMA TransferNotedMoney ==
  ASSUME TypeOK, TypeOK', MoneyInv, NEW k \in Calls, CallInv(k), transferNoted(k)
  PROVE  MoneyInv'
<1> DEFINE o == call[k].on
<1>1. /\ DepositsStay /\ PaidRequests' = PaidRequests /\ history' = history
      /\ wallet' = wallet /\ o \in Orders /\ UnpaidCash
  BY DEF transferNoted, DepositsStay, PaidRequests, WithStatus, CallInv, MoneyInv
<1>2. \/ order[o].status = "PENDING_PAYMENT" /\ SetOrder(o, "PAYMENT_REVIEW")
      \/ KeepOrder
  BY DEF transferNoted
<1> HIDE DEF o
<1>3. CASE order[o].status = "PENDING_PAYMENT" /\ SetOrder(o, "PAYMENT_REVIEW")
  <2>1. /\ "PAYMENT_REVIEW" \in OrderStatuses \ {"PENDING_PAYMENT"}
        /\ "PAYMENT_REVIEW" \notin PaidStatuses /\ o \notin Bought
    BY <1>3 DEF OrderStatuses, PaidStatuses, Bought
  <2>2. UnpaidCash' /\ Bought' = Bought \ {o}
    BY <1>1, <1>3, <2>1, SetOrderBuys
  <2> QED BY <1>1, <2>1, <2>2, BooksSame
<1>4. CASE KeepOrder
  <2>1. UnpaidCash' /\ Bought' = Bought
    BY <1>1, <1>4 DEF KeepOrder, UnpaidCash, Bought
  <2> QED BY <1>1, <2>1, BooksSame
<1> QED BY <1>2, <1>3, <1>4

\* A step that only changes calls, time and deposits that are not approved
LEMMA StillMoney ==
  ASSUME TypeOK, TypeOK', MoneyInv, DepositsStay,
         UNCHANGED <<wallet, order, withdrawal, history>>
  PROVE  MoneyInv'
<1>1. UnpaidCash' /\ Bought' = Bought /\ PaidRequests' = PaidRequests
  BY DEF MoneyInv, UnpaidCash, Bought, PaidRequests, WithStatus
<1> QED BY <1>1, BooksSame

LEMMA OrderNextMoney ==
  ASSUME IndInv, IndInv', MoneyInv, OrderNext PROVE MoneyInv'
<1>0. TypeOK /\ TypeOK' /\ \A k \in Calls : CallInv(k)
  BY DEF IndInv
<1>1. ASSUME NEW o \in Orders,
             \/ createOrderWallet(o) \/ createOrderCredit(o) \/ createOrderUnpaid(o)
             \/ cancelByAgent(o) \/ approve(o) \/ confirmReceipt(o)
             \/ adminCancel(o) \/ expireOverdue(o) \/ priceLockPasses(o)
      PROVE  MoneyInv'
  BY <1>0, <1>1, CreateOrderMoney, OrderMovesMoney, AdminCancelMoney
<1>2. ASSUME NEW k \in Calls, NEW o \in Orders,
             payOrder(k, o) \/ \E d \in Deposits : submitTransfer(k, o, d)
      PROVE  MoneyInv'
  <2>1. DepositsStay
    <3>1. CASE payOrder(k, o)
      BY <3>1 DEF payOrder, DepositsStay
    <3>2. ASSUME NEW d \in Deposits, submitTransfer(k, o, d) PROVE DepositsStay
      <4>1. "PENDING_REVIEW" \in DepositStatuses \ {"APPROVED"}
        BY DEF DepositStatuses
      <4> QED BY <1>0, <3>2, <4>1, NewStays DEF submitTransfer
    <3> QED BY <1>2, <3>1, <3>2
  <2> QED BY <1>0, <1>2, <2>1, StillMoney DEF payOrder, submitTransfer
<1>3. ASSUME NEW k \in Calls, payFromWallet(k) \/ transferNoted(k)
      PROVE  MoneyInv'
  BY <1>0, <1>3, PayFromWalletMoney, TransferNotedMoney
<1>4. ASSUME NEW k \in Calls, NEW d \in Deposits, NEW answered \in BOOLEAN,
             startGateway(k, d, answered)
      PROVE  MoneyInv'
  <2>1. {"PENDING_PAYMENT", "FAILED"} \subseteq DepositStatuses \ {"APPROVED"}
    BY DEF DepositStatuses
  <2>2. DepositsStay
    BY <1>0, <1>4, <2>1, NewStays DEF startGateway
  <2> QED BY <1>0, <1>4, <2>2, StillMoney DEF startGateway
<1> QED BY <1>1, <1>2, <1>3, <1>4 DEF OrderNext

\* ApproveTx and finishApproval: the deposit comes in, and may pay its order.
LEMMA ApproveTxMoney ==
  ASSUME TypeOK, TypeOK', MoneyInv, NEW k \in Calls, NEW d \in Deposits, ApproveTx(k, d)
  PROVE  MoneyInv'
<1>1. /\ PaidRequests' = PaidRequests /\ history' = history /\ Bought' = Bought
      /\ UnpaidCash' /\ order' = order
  BY DEF ApproveTx, PaidRequests, WithStatus, Bought, UnpaidCash, MoneyInv
<1>2. \/ UNCHANGED wallet /\ KeepDeposit
      \/ Approvable(d) /\ Post(deposit[d].amount, 0, 0) /\ SetDeposit(d, "APPROVED")
  BY DEF ApproveTx
<1>3. CASE UNCHANGED wallet /\ KeepDeposit
  <2>1. DepositsStay
    BY <1>3 DEF KeepDeposit, DepositsStay
  <2> QED BY <1>1, <1>3, <2>1, BooksSame
<1>4. CASE Approvable(d) /\ Post(deposit[d].amount, 0, 0) /\ SetDeposit(d, "APPROVED")
  <2>1. deposit[d].status # "APPROVED"
    BY <1>4 DEF Approvable
  <2>2. Deposited' = Deposited + deposit[d].amount
    BY <1>4, <2>1, DepositApproved
  <2>3. deposit[d].amount \in Int
    BY DEF TypeOK
  <2>4. wallet'.balance = wallet.balance + deposit[d].amount
    BY <1>4, <2>3, PostBalance DEF TypeOK
  <2>5. Spent' = Spent /\ PaidOut' = PaidOut
    BY <1>1 DEF Spent, PaidOut
  <2>6. BooksKnown /\ BooksKnown' /\ Books
    BY BooksType, BooksTypeNext DEF MoneyInv
  <2>7. Books'
    BY <1>1, <2>2, <2>3, <2>4, <2>5, <2>6 DEF Books, BooksKnown
  <2> QED BY <1>1, <2>7 DEF MoneyInv
<1> QED BY <1>2, <1>3, <1>4

LEMMA FinishApprovalMoney ==
  ASSUME TypeOK, TypeOK', MoneyInv, NEW k \in Calls, CallInv(k), finishApproval(k)
  PROVE  MoneyInv'
<1> DEFINE d == call[k].on
           o == deposit[d].order
<1>1. /\ PaidRequests' = PaidRequests /\ history' = history /\ UnpaidCash
      /\ d \in Deposits /\ o \in Orders /\ Approvable(d)
  BY DEF finishApproval, PaidRequests, WithStatus, CallInv, MoneyInv
<1>2. \/ /\ Payable(o, ~deposit[d].gateway)
         /\ Post(deposit[d].amount, Price, 0)
         /\ SetDeposit(d, "APPROVED") /\ SetOrder(o, "PAID")
      \/ UNCHANGED wallet /\ KeepDeposit /\ KeepOrder
  BY DEF finishApproval
<1> HIDE DEF d, o
<1>3. CASE /\ Payable(o, ~deposit[d].gateway)
           /\ Post(deposit[d].amount, Price, 0)
           /\ SetDeposit(d, "APPROVED") /\ SetOrder(o, "PAID")
  <2>1. order[o].status \in {"PENDING_PAYMENT", "PAYMENT_REVIEW"} /\ ~order[o].credit
    BY <1>1, <1>3 DEF Payable, CanPayNow, UnpaidCash
  <2>2. "PAID" \in OrderStatuses \ {"PENDING_PAYMENT"} /\ "PAID" \in PaidStatuses
    BY DEF OrderStatuses, PaidStatuses
  <2>3. UnpaidCash' /\ Bought' = Bought \cup {o}
    BY <1>1, <1>3, <2>1, <2>2, SetOrderBuys
  <2>4. o \notin Bought
    BY <2>1 DEF Bought, PaidStatuses
  <2>5. deposit[d].status # "APPROVED" /\ deposit[d].amount \in Int
    BY <1>1 DEF Approvable, TypeOK
  <2>6. Deposited' = Deposited + deposit[d].amount
    BY <1>1, <1>3, <2>5, DepositApproved
  <2>7. Deposited \in Int /\ wallet.balance \in Int /\ Price \in Int
    BY BooksType, FundsAssumption DEF BooksKnown
  <2>8. wallet'.balance = wallet.balance + deposit[d].amount - Price
    BY <1>3, <2>5, <2>7, PostBalance
  <2>9. wallet'.balance = wallet.balance + (Deposited' - Deposited) - Price
    BY <2>5, <2>6, <2>7, <2>8
  <2> QED BY <1>1, <2>3, <2>4, <2>9, BooksBuy
<1>4. CASE UNCHANGED wallet /\ KeepDeposit /\ KeepOrder
  <2>1. DepositsStay /\ UnpaidCash' /\ Bought' = Bought
    BY <1>1, <1>4 DEF KeepDeposit, KeepOrder, DepositsStay, UnpaidCash, Bought
  <2> QED BY <1>1, <1>4, <2>1, BooksSame
<1> QED BY <1>2, <1>3, <1>4

LEMMA RejectDepositMoney ==
  ASSUME TypeOK, TypeOK', MoneyInv, NEW d \in Deposits, rejectDeposit(d)
  PROVE  MoneyInv'
<1> DEFINE o == deposit[d].order
<1>1. /\ PaidRequests' = PaidRequests /\ history' = history /\ wallet' = wallet
      /\ UnpaidCash /\ deposit[d].status = "PENDING_REVIEW" /\ SetDeposit(d, "REJECTED")
      /\ o \in Orders \cup {NoOrder}
  BY DEF rejectDeposit, PaidRequests, WithStatus, MoneyInv, TypeOK
<1>2. \/ o # NoOrder /\ order[o].status = "PAYMENT_REVIEW" /\ SetOrder(o, "CANCELLED")
      \/ KeepOrder
  BY DEF rejectDeposit
<1> HIDE DEF o
<1>3. DepositsStay
  <2>1. "REJECTED" \in DepositStatuses \ {"APPROVED"}
    BY DEF DepositStatuses
  <2> QED BY <1>1, <2>1, SetStays
<1>4. CASE o # NoOrder /\ order[o].status = "PAYMENT_REVIEW" /\ SetOrder(o, "CANCELLED")
  <2>1. /\ "CANCELLED" \in OrderStatuses \ {"PENDING_PAYMENT"}
        /\ "CANCELLED" \notin PaidStatuses /\ o \notin Bought
    BY <1>4 DEF OrderStatuses, PaidStatuses, Bought
  <2>2. UnpaidCash' /\ Bought' = Bought \ {o}
    BY <1>1, <1>4, <2>1, SetOrderBuys
  <2> QED BY <1>1, <1>3, <2>1, <2>2, BooksSame
<1>5. CASE KeepOrder
  <2>1. UnpaidCash' /\ Bought' = Bought
    BY <1>1, <1>5 DEF KeepOrder, UnpaidCash, Bought
  <2> QED BY <1>1, <1>3, <2>1, BooksSame
<1> QED BY <1>2, <1>4, <1>5

LEMMA FundingNextMoney ==
  ASSUME IndInv, IndInv', MoneyInv, FundingNext PROVE MoneyInv'
<1>0. /\ TypeOK /\ TypeOK' /\ \A k \in Calls : CallInv(k)
      /\ {"PENDING_PAYMENT", "PENDING_REVIEW", "FAILED"}
           \subseteq DepositStatuses \ {"APPROVED"}
  BY DEF IndInv, DepositStatuses
<1>1. ASSUME NEW d \in Deposits, NEW gateway \in BOOLEAN, NEW answered \in BOOLEAN,
             NEW a \in Amounts, createDeposit(d, gateway, a, answered)
      PROVE  MoneyInv'
  <2>1. DepositsStay
    BY <1>0, <1>1, NewStays DEF createDeposit
  <2> QED BY <1>0, <1>1, <2>1, StillMoney DEF createDeposit
<1>2. ASSUME NEW k \in Calls, NEW d \in Deposits, verified(k, d) \/ refused(k, d)
      PROVE  MoneyInv'
  <2>1. DepositsStay
    BY <1>2 DEF verified, refused, DepositsStay
  <2> QED BY <1>0, <1>2, <2>1, StillMoney DEF verified, refused
<1>3. ASSUME NEW k \in Calls, NEW d \in Deposits, approveDeposit(k, d)
      PROVE  MoneyInv'
  BY <1>0, <1>3, ApproveTxMoney DEF approveDeposit
<1>4. ASSUME NEW k \in Calls, handleGatewayCallback(k) PROVE MoneyInv'
  <2>1. call[k].on \in Deposits /\ ApproveTx(k, call[k].on)
    BY <1>0, <1>4 DEF handleGatewayCallback, CallInv
  <2> QED BY <1>0, <2>1, ApproveTxMoney
<1>5. ASSUME NEW k \in Calls, finishApproval(k) PROVE MoneyInv'
  BY <1>0, <1>5, FinishApprovalMoney
<1>6. ASSUME NEW k \in Calls, failDeposit(k) PROVE MoneyInv'
  <2> DEFINE d == call[k].on
  <2>1. d \in Deposits
    BY <1>0, <1>6 DEF failDeposit, CallInv
  <2>2. (AtGateway(d) /\ SetDeposit(d, "FAILED")) \/ KeepDeposit
    BY <1>6 DEF failDeposit
  <2>3. DepositsStay
    <3>1. CASE AtGateway(d) /\ SetDeposit(d, "FAILED")
      <4>1. deposit[d].status # "APPROVED"
        BY <3>1 DEF AtGateway
      <4> HIDE DEF d
      <4> QED BY <1>0, <2>1, <3>1, <4>1, SetStays
    <3>2. CASE KeepDeposit
      BY <3>2 DEF KeepDeposit, DepositsStay
    <3> QED BY <2>2, <3>1, <3>2
  <2> QED BY <1>0, <1>6, <2>3, StillMoney DEF failDeposit
<1>7. ASSUME NEW d \in Deposits, rejectDeposit(d) PROVE MoneyInv'
  BY <1>0, <1>7, RejectDepositMoney
<1>8. ASSUME NEW d \in Deposits, depositTimePasses(d) PROVE MoneyInv'
  <2>1. DepositsStay
    BY <1>8 DEF depositTimePasses, DepositsStay
  <2> QED BY <1>0, <1>8, <2>1, StillMoney DEF depositTimePasses
<1>9. ASSUME expireGatewayDeposits PROVE MoneyInv'
  <2>1. DepositsStay
    BY <1>0, <1>9 DEF expireGatewayDeposits, Abandoned, AtGateway, DepositsStay, TypeOK
  <2> QED BY <1>0, <1>9, <2>1, StillMoney DEF expireGatewayDeposits
<1> QED BY <1>1, <1>2, <1>3, <1>4, <1>5, <1>6, <1>7, <1>8, <1>9 DEF FundingNext

\* payWithdrawal spends what was blocked; the other moves pay nothing out.
LEMMA WithdrawalMoney ==
  ASSUME TypeOK, TypeOK', MoneyInv, NEW w \in Withdrawals,
         \/ createWithdrawal(w) \/ cancelWithdrawal(w) \/ approveWithdrawal(w)
         \/ rejectWithdrawal(w) \/ payWithdrawal(w)
  PROVE  MoneyInv'
<1>1. /\ DepositsStay /\ UnpaidCash' /\ Bought' = Bought /\ history' = history
      /\ withdrawal \in [Withdrawals -> WithdrawalStatuses]
  BY DEF createWithdrawal, cancelWithdrawal, approveWithdrawal, rejectWithdrawal,
     payWithdrawal, DepositsStay, UnpaidCash, Bought, MoneyInv, TypeOK
<1>2. CASE \/ createWithdrawal(w) \/ cancelWithdrawal(w) \/ approveWithdrawal(w)
           \/ rejectWithdrawal(w)
  <2>1. PaidRequests' = PaidRequests
    BY <1>1, <1>2 DEF createWithdrawal, cancelWithdrawal, approveWithdrawal,
       rejectWithdrawal, SetWithdrawal, PaidRequests, WithStatus
  <2>2. wallet'.balance = wallet.balance
    BY <1>2 DEF createWithdrawal, cancelWithdrawal, approveWithdrawal,
       rejectWithdrawal, Block, Release, TypeOK
  <2> QED BY <1>1, <2>1, <2>2, BooksSame
<1>3. CASE payWithdrawal(w)
  <2>1. w \notin PaidRequests /\ PaidRequests' = PaidRequests \cup {w}
    BY <1>1, <1>3 DEF payWithdrawal, SetWithdrawal, PaidRequests, WithStatus
  <2>2. WithdrawalAmount \in Int /\ IsFiniteSet(PaidRequests)
    BY FundsAssumption, FS_Subset DEF PaidRequests, WithStatus
  <2>3. PaidOut' = PaidOut + WithdrawalAmount
    BY <2>1, <2>2, AddOne DEF PaidOut
  <2>4. wallet'.balance = wallet.balance - WithdrawalAmount
    BY <1>3, <2>2, PostBalance DEF payWithdrawal, TypeOK
  <2>5. Deposited' = Deposited /\ Spent' = Spent
    BY <1>1, DepositsSame DEF Spent
  <2>6. BooksKnown /\ BooksKnown' /\ Books
    BY BooksType, BooksTypeNext DEF MoneyInv
  <2>7. Books'
    BY <1>1, <2>2, <2>3, <2>4, <2>5, <2>6 DEF Books, BooksKnown
  <2> QED BY <1>1, <2>7 DEF MoneyInv
<1> QED BY <1>2, <1>3

\* debtSettled and adjustWallet: history moves with the wallet.
LEMMA HistoryMoney ==
  ASSUME TypeOK, TypeOK', MoneyInv, UNCHANGED <<order, deposit, withdrawal>>,
         wallet'.balance - wallet.balance
           = (history'.adjusted - history.adjusted) - (history'.settled - history.settled)
  PROVE  MoneyInv'
<1>1. /\ UnpaidCash' /\ Deposited' = Deposited /\ Spent' = Spent /\ PaidOut' = PaidOut
  <2>1. DepositsStay
    BY DEF DepositsStay
  <2>2. UnpaidCash' /\ Bought' = Bought /\ PaidRequests' = PaidRequests
    BY DEF MoneyInv, UnpaidCash, Bought, PaidRequests, WithStatus
  <2> QED BY <2>1, <2>2, DepositsSame DEF Spent, PaidOut
<1>2. BooksKnown /\ BooksKnown' /\ Books
  BY BooksType, BooksTypeNext DEF MoneyInv
<1>3. Books'
  BY <1>1, <1>2 DEF Books, BooksKnown
<1> QED BY <1>1, <1>3 DEF MoneyInv

LEMMA OtherNextMoney ==
  ASSUME IndInv, IndInv', MoneyInv, OtherNext PROVE MoneyInv'
<1>0. TypeOK /\ TypeOK'
  BY DEF IndInv
<1>1. ASSUME NEW w \in Withdrawals,
             \/ createWithdrawal(w) \/ cancelWithdrawal(w) \/ approveWithdrawal(w)
             \/ rejectWithdrawal(w) \/ payWithdrawal(w)
      PROVE  MoneyInv'
  BY <1>0, <1>1, WithdrawalMoney
<1>2. ASSUME NEW k \in Calls, debtSettled(k) PROVE MoneyInv'
  <2> DEFINE a == call[k].amount
  <2>1. a \in Int /\ wallet.balance \in Int /\ history \in [settled: Int, adjusted: Int]
    BY <1>0 DEF TypeOK
  <2>2. \/ Post(0, a, 0) /\ history' = [history EXCEPT !.settled = @ + a]
        \/ UNCHANGED <<wallet, history>>
    BY <1>2 DEF debtSettled
  <2> HIDE DEF a
  <2>3. wallet'.balance - wallet.balance
          = (history'.adjusted - history.adjusted) - (history'.settled - history.settled)
    <3>1. CASE Post(0, a, 0) /\ history' = [history EXCEPT !.settled = @ + a]
      <4>1. wallet'.balance = wallet.balance - a
        BY <1>0, <2>1, <3>1, PostBalance
      <4>2. /\ history'.settled = history.settled + a
            /\ history'.adjusted = history.adjusted
            /\ history.settled \in Int /\ history.adjusted \in Int
        BY <2>1, <3>1
      <4> QED BY <2>1, <4>1, <4>2
    <3>2. CASE UNCHANGED <<wallet, history>>
      BY <2>1, <3>2
    <3> QED BY <2>2, <3>1, <3>2
  <2>4. UNCHANGED <<order, deposit, withdrawal>>
    BY <1>2 DEF debtSettled
  <2> QED BY <1>0, <2>3, <2>4, HistoryMoney
<1>3. ASSUME NEW c \in Int, NEW d \in Int, adjustWallet(c, d) PROVE MoneyInv'
  <2>1. wallet.balance \in Int /\ history \in [settled: Int, adjusted: Int]
    BY <1>0 DEF TypeOK
  <2>2. wallet'.balance = wallet.balance + c - d
    BY <1>0, <1>3, PostBalance DEF adjustWallet
  <2>3. /\ history'.settled = history.settled
        /\ history'.adjusted = history.adjusted + c - d
    BY <1>3, <2>1 DEF adjustWallet
  <2>4. wallet'.balance - wallet.balance
          = (history'.adjusted - history.adjusted) - (history'.settled - history.settled)
    BY <2>1, <2>2, <2>3
  <2>5. UNCHANGED <<order, deposit, withdrawal>>
    BY <1>3 DEF adjustWallet
  <2> QED BY <1>0, <2>4, <2>5, HistoryMoney
<1>4. ASSUME \/ \E k \in Calls, a \in Amounts : settleDebtFromWallet(k, a)
             \/ \E k \in Calls : callDies(k)
             \/ changeStatus
      PROVE  MoneyInv'
  <2>1. DepositsStay /\ UNCHANGED <<wallet, order, withdrawal, history>>
    BY <1>4 DEF settleDebtFromWallet, callDies, changeStatus, DepositsStay
  <2> QED BY <1>0, <2>1, StillMoney
<1> QED BY <1>1, <1>2, <1>3, <1>4 DEF OtherNext

LEMMA NextMoney == IndInv /\ IndInv' /\ MoneyInv /\ [Next]_vars => MoneyInv'
<1> SUFFICES ASSUME IndInv, IndInv', MoneyInv, [Next]_vars PROVE MoneyInv'
  OBVIOUS
<1>1. CASE UNCHANGED vars
  <2>1. DepositsStay /\ UNCHANGED <<wallet, order, withdrawal, history>>
    BY <1>1 DEF vars, DepositsStay
  <2> QED BY <2>1, StillMoney DEF IndInv
<1> QED BY <1>1, OrderNextMoney, FundingNextMoney, OtherNextMoney DEF Next

LEMMA InitMoney == Init => MoneyInv
<1> SUFFICES ASSUME Init PROVE MoneyInv
  OBVIOUS
<1>1. Credited = {} /\ Bought = {} /\ PaidRequests = {}
  BY DEF Init, Credited, Bought, PaidRequests, WithStatus, PaidStatuses
<1>2. Deposited = 0
  BY <1>1, SumEmpty DEF Deposited
<1>3. Spent = 0 /\ PaidOut = 0
  <2>1. Cardinality({}) = 0 /\ Price \in Int /\ WithdrawalAmount \in Int
    BY FS_EmptySet, FundsAssumption
  <2> QED BY <1>1, <2>1 DEF Spent, PaidOut
<1>4. Books
  BY <1>2, <1>3 DEF Init, Books
<1>5. UnpaidCash
  BY DEF Init, UnpaidCash
<1> QED BY <1>4, <1>5 DEF MoneyInv

-----------------------------------------------------------------------------
(* The theorems.                                                             *)

\* IndInv is kept by every step of the funds of an agent.
THEOREM FundsInvariance == Spec => []IndInv
BY InitInv, NextInv, PTL DEF Spec

\* Types, and more: the wallet is never overdrawn and what is reserved in it is
\* there, whatever orders, withdrawals and settlements race for it.
THEOREM FundsTypes == Spec => []TypeOK
<1>1. IndInv => TypeOK
  BY DEF IndInv
<1> QED BY <1>1, FundsInvariance, PTL

\* Block and Release: what is reserved is what the open withdrawals ask for.
THEOREM BlockedAlwaysExplained == Spec => []BlockedExplained
<1>1. BlockedInv => BlockedExplained
  BY DEF BlockedInv, OpenRequests, BlockedExplained
<1>2. Spec => []BlockedInv
  BY InitBlocked, NextBlocked, FundsInvariance, PTL DEF Spec
<1> QED BY <1>1, <1>2, PTL

\* approve and settleDebtFromWallet: the debt is the approved credit orders, less
\* what was settled.
THEOREM DebtAlwaysExplained == Spec => []DebtExplained
<1>1. DebtInv => DebtExplained
  BY DEF DebtInv, OnCredit, DebtExplained
<1>2. Spec => []DebtInv
  BY InitDebt, NextDebt, FundsInvariance, PTL DEF Spec
<1> QED BY <1>1, <1>2, PTL

\* Every rial of the agent's wallet, what is reserved in it and what is owed are
\* matched by the rows that explain them, whatever callbacks, approvals,
\* cancellations, withdrawals and settlements interleave.
THEOREM FundsAlwaysExplained == Spec => []FundsExplained
<1>1. MoneyInv => BalanceExplained
  BY DEF MoneyInv, Books, Deposited, Spent, PaidOut, PaidRequests, BalanceExplained
<1>2. Spec => []MoneyInv
  <2>1. IndInv /\ IndInv' /\ MoneyInv /\ [Next]_vars => MoneyInv'
    BY NextMoney
  <2> QED BY <2>1, InitMoney, FundsInvariance, PTL DEF Spec
<1>3. FundsExplained <=> BalanceExplained /\ BlockedExplained /\ DebtExplained
  BY DEF FundsExplained
<1> QED BY <1>1, <1>2, <1>3, BlockedAlwaysExplained, DebtAlwaysExplained, PTL

\* A gateway deposit that is approved has been collected.
ApprovedTaken ==
  \A d \in Deposits :
    deposit[d].gateway /\ deposit[d].status = "APPROVED" => d \in taken

LEMMA NextTaken == ApprovedTaken /\ Kept => ApprovedTaken'
<1> SUFFICES ASSUME ApprovedTaken, Kept, NEW d \in Deposits, deposit'[d].gateway,
                    deposit'[d].status = "APPROVED"
             PROVE  d \in taken'
  BY DEF ApprovedTaken
<1>1. CASE deposit[d].status # "none"
  BY <1>1 DEF ApprovedTaken, Kept, RowsKept, FatesKept
<1>2. CASE deposit[d].status = "none"
  BY <1>2 DEF ApprovedTaken, Kept, RowsKept, FatesKept
<1> QED BY <1>1, <1>2

\* Callbacks, reviews and the expiry job: no gateway deposit is credited whose
\* money was not collected, and a credited one stays credited.
THEOREM NothingCreditedUntaken == Spec => CreditedWasTaken
<1> DEFINE Credits ==
      \A d \in Deposits :
        /\ deposit[d].gateway /\ deposit'[d].status = "APPROVED" => d \in taken
        /\ deposit[d].status = "APPROVED" => deposit'[d].status = "APPROVED"
<1>1. Init => ApprovedTaken
  BY DEF Init, ApprovedTaken
<1>2. IndInv /\ ApprovedTaken /\ [Next]_vars => ApprovedTaken'
  BY NextInv, NextTaken
<1>3. IndInv /\ ApprovedTaken /\ [Next]_vars => [Credits]_vars
  BY NextInv DEF ApprovedTaken, Kept, FatesKept
<1> QED BY <1>1, <1>2, <1>3, FundsInvariance, PTL DEF Spec, CreditedWasTaken

=============================================================================
