------------------------ MODULE ZarPayeshTradeProofs ------------------------
(***************************************************************************)
(* Proofs about ZarPayeshTrade, for every set of requests, locks and        *)
(* admins, with or without crashes.  IndInv is inductive; the type          *)
(* invariant and the three safety invariants follow from it.  On top of it, *)
(* no row or copy claims an approval that was not given (ClaimsTrue), and   *)
(* every step is one of SupervisedOrders or leaves it alone.                *)
(***************************************************************************)
EXTENDS ZarPayeshTrade, TLAPS

USE DEF Actors

-----------------------------------------------------------------------------
(* Every step keeps the types.                                              *)

\* What the updates shared by the actions keep.
LEMMA NoRowType == NoRow \in Row
BY DEF NoRow, Row, Statuses

\* A call moves on.
LEMMA GotoType ==
  ASSUME req \in [Requests -> ReqRec], NEW r \in Requests,
         NEW pc \in {"start"} \cup RunningPc \cup EndPc, Goto(r, pc)
  PROVE  req' \in [Requests -> ReqRec]
<1>1. [req[r] EXCEPT !.pc = pc] \in ReqRec
  BY DEF ReqRec
<1> QED BY <1>1 DEF Goto

\* A row with one column set anew is a row.
LEMMA RowFields ==
  ASSUME NEW row \in Row
  PROVE  /\ \A st \in Statuses : [row EXCEPT !.status = st] \in Row
         /\ \A b \in BOOLEAN : [row EXCEPT !.code = b] \in Row
         /\ \A b \in BOOLEAN : [row EXCEPT !.dated = b] \in Row
         /\ \A b \in BOOLEAN : [row EXCEPT !.order = b] \in Row
         /\ \A v \in {"no", "needed", "done"} : [row EXCEPT !.review = v] \in Row
<1>1. ASSUME NEW st \in Statuses PROVE [row EXCEPT !.status = st] \in Row
  BY DEF Row
<1>2. ASSUME NEW b \in BOOLEAN PROVE [row EXCEPT !.code = b] \in Row
  BY DEF Row
<1>3. ASSUME NEW b \in BOOLEAN PROVE [row EXCEPT !.dated = b] \in Row
  BY DEF Row
<1>4. ASSUME NEW b \in BOOLEAN PROVE [row EXCEPT !.order = b] \in Row
  BY DEF Row
<1>5. ASSUME NEW v \in {"no", "needed", "done"} PROVE [row EXCEPT !.review = v] \in Row
  BY DEF Row
<1> QED BY <1>1, <1>2, <1>3, <1>4, <1>5

\* What the answer to a reservation does to the row.
LEMMA ReserveWriteRow ==
  ASSUME trade \in [Requests -> Row], NEW r \in Requests, ReserveWrite(r)
  PROVE  /\ trade' \in [Requests -> Row]
         /\ trade'[r].status \in {"RESERVED", "FAILED", "UNKNOWN"}
         /\ trade'[r].order = trade[r].order /\ trade'[r].review = trade[r].review
         /\ \A q \in Requests \ {r} : trade'[q] = trade[q]
<1>1. trade[r] \in Row
  OBVIOUS
<1>2. CASE req[r].pc = "reserved"
  <2>1. PICK dated \in BOOLEAN :
          trade' = [trade EXCEPT ![r].status = "RESERVED", ![r].code = TRUE,
                                 ![r].dated = dated]
    BY <1>2 DEF ReserveWrite
  <2> DEFINE a == [trade[r] EXCEPT !.status = "RESERVED"]
             b == [a EXCEPT !.code = TRUE]
             c == [b EXCEPT !.dated = dated]
  <2>2. a \in Row /\ a.status = "RESERVED"
        /\ a.order = trade[r].order /\ a.review = trade[r].review
    <3>1. a \in Row
      BY <1>1, RowFields DEF Statuses
    <3> QED BY <1>1, <3>1 DEF Row
  <2>3. b \in Row /\ b.status = a.status /\ b.order = a.order /\ b.review = a.review
    <3> HIDE DEF a
    <3>1. b \in Row
      BY <2>2, RowFields
    <3> QED BY <2>2, <3>1 DEF Row
  <2>4. c \in Row /\ c.status = b.status /\ c.order = b.order /\ c.review = b.review
    <3> HIDE DEF b
    <3>1. c \in Row
      BY <2>3, RowFields
    <3> QED BY <2>3, <3>1 DEF Row
  <2>5. trade' = [trade EXCEPT ![r] = c]
    BY <2>1
  <2> HIDE DEF a, b, c
  <2> QED BY <2>2, <2>3, <2>4, <2>5
<1>3. CASE req[r].pc # "reserved"
  <2>1. PICK st \in {"FAILED", "UNKNOWN"} : trade' = [trade EXCEPT ![r].status = st]
    BY <1>3 DEF ReserveWrite
  <2>2. [trade[r] EXCEPT !.status = st] \in Row
    BY <1>1, RowFields DEF Statuses
  <2> QED BY <1>1, <2>1, <2>2 DEF Row
<1> QED BY <1>2, <1>3

\* Leaving a handler.
LEMMA EndJobType ==
  ASSUME job \in [Actors -> JobRec], NEW a \in Actors, EndJob(a)
  PROVE  job' \in [Actors -> JobRec]
<1>1. NoJob \in JobRec
  BY NoRowType DEF NoJob, JobRec, Steps, Answers
<1> QED BY <1>1 DEF EndJob

\* Entering a handler with a copy of the row.
LEMMA BeginType ==
  ASSUME job \in [Actors -> JobRec], NEW a \in Actors, NEW step \in Steps,
         NEW r \in Requests, NEW row \in Row, Begin(a, step, r, row)
  PROVE  job' \in [Actors -> JobRec]
BY DEF Begin, JobRec, Answers

\* A remote call of a handler has answered.
LEMMA AnsweredType ==
  ASSUME job \in [Actors -> JobRec], NEW a \in Actors, NEW step \in Steps,
         NEW ans \in Answers, Answered(a, step, ans)
  PROVE  job' \in [Actors -> JobRec]
BY DEF Answered, JobRec

\* The row of a trade that the supervisor reports approved.
LEMMA RemoteApprovedType ==
  ASSUME trade \in [Requests -> Row], NEW r \in Requests, NEW snap
  PROVE  /\ RemoteApproved(r, snap) \in [Requests -> Row]
         /\ [RemoteApproved(r, snap) EXCEPT ![r].code = TRUE] \in [Requests -> Row]
<1> DEFINE consistent == r \in TestRequests \/ (snap.order /\ r \in orders)
           v   == IF consistent THEN trade[r].review ELSE "needed"
           row == [trade[r] EXCEPT !.status = "APPROVED", !.review = v]
<1>1. trade[r] \in Row /\ v \in {"no", "needed", "done"}
  BY DEF Row
<1>2. RemoteApproved(r, snap) = [trade EXCEPT ![r] = row]
  BY DEF RemoteApproved
<1> HIDE DEF v
<1>3. row \in Row /\ [row EXCEPT !.code = TRUE] \in Row
  BY <1>1 DEF Row, Statuses
<1> HIDE DEF row
<1>4. [RemoteApproved(r, snap) EXCEPT ![r].code = TRUE]
        = [trade EXCEPT ![r] = [row EXCEPT !.code = TRUE]]
  BY <1>2
<1> QED BY <1>2, <1>3, <1>4

\* The steps of a request keep the types.
LEMMA RequestType ==
  ASSUME TypeOK, NEW r \in Requests, RequestInv(r), RequestStep(r)
  PROVE  TypeOK'
<1>q. req \in [Requests -> ReqRec]
  BY DEF TypeOK
<1>t. trade \in [Requests -> Row]
  BY DEF TypeOK
<1>j. job \in [Actors -> JobRec]
  BY DEF TypeOK
<1>m. remote \in [Requests -> RemoteStatuses]
  BY DEF TypeOK
<1>1. ASSUME NEW l \in Locks, ReplayCompleted(r, l)
      PROVE  TypeOK'
  <2>1. req' \in [Requests -> ReqRec]
    <3> DEFINE q == [req[r] EXCEPT !.pc = "done", !.lock = l]
    <3>1. req' = [req EXCEPT ![r] = q]
      BY <1>1 DEF ReplayCompleted
    <3>2. q \in ReqRec
      BY <1>q DEF ReqRec, RunningPc, EndPc
    <3> HIDE DEF q
    <3> QED BY <1>q, <3>1, <3>2
  <2> QED BY <2>1, <1>1 DEF TypeOK, ReplayCompleted
<1>2. ASSUME NEW l \in Locks, StartUnreported(r, l)
      PROVE  TypeOK'
  <2>1. req' \in [Requests -> ReqRec]
    <3> DEFINE q == [req[r] EXCEPT !.pc = "tx", !.lock = l]
    <3>1. req' = [req EXCEPT ![r] = q]
      BY <1>2 DEF StartUnreported
    <3>2. q \in ReqRec
      BY <1>q DEF ReqRec, RunningPc, EndPc
    <3> HIDE DEF q
    <3> QED BY <1>q, <3>1, <3>2
  <2> QED BY <2>1, <1>2 DEF TypeOK, StartUnreported
<1>3. ASSUME NEW l \in Locks, StartReserve(r, l)
      PROVE  TypeOK'
  <2>1. req' \in [Requests -> ReqRec]
    <3> DEFINE q == [req[r] EXCEPT !.pc = "reserve", !.lock = l]
    <3>1. req' = [req EXCEPT ![r] = q]
      BY <1>3 DEF StartReserve
    <3>2. q \in ReqRec
      BY <1>q DEF ReqRec, RunningPc, EndPc
    <3> HIDE DEF q
    <3> QED BY <1>q, <3>1, <3>2
  <2>2. trade' \in [Requests -> Row]
    BY <1>t, <1>3 DEF StartReserve, Row, Statuses
  <2> QED BY <2>1, <2>2, <1>3 DEF TypeOK, StartReserve
<1>4. CASE StartTest(r)
  <2>1. req' \in [Requests -> ReqRec]
    BY <1>q, <1>4 DEF StartTest, Goto, ReqRec, RunningPc, EndPc
  <2>2. trade' \in [Requests -> Row]
    BY <1>t, <1>4 DEF StartTest, Goto, Row, Statuses
  <2> QED BY <2>1, <2>2, <1>4 DEF TypeOK, StartTest, Goto
<1>5. CASE ReserveCall(r)
  <2>1. req' \in [Requests -> ReqRec]
    BY <1>q, <1>5 DEF ReserveCall, Goto, ReqRec, RunningPc, EndPc
  <2>2. remote' \in [Requests -> RemoteStatuses]
    BY <1>m, <1>5 DEF ReserveCall, Goto, RemoteStatuses
  <2> QED BY <2>1, <2>2, <1>5 DEF TypeOK, ReserveCall, Goto
<1>6. CASE ReserveWrite(r)
  <2>1. req' \in [Requests -> ReqRec]
    <3>1. \E pc \in {"done", "tx"} : Goto(r, pc)
      BY <1>6 DEF ReserveWrite
    <3> QED BY <1>q, <3>1, GotoType DEF RunningPc, EndPc
  <2>2. trade' \in [Requests -> Row]
    BY <1>t, <1>6, ReserveWriteRow
  <2> QED BY <2>1, <2>2, <1>6 DEF TypeOK, ReserveWrite, Goto
<1>7. CASE TxBegin(r)
  <2>1. req' \in [Requests -> ReqRec]
    BY <1>q, <1>7 DEF TxBegin, Goto, OrderOnLock, ReqRec, RunningPc, EndPc
  <2> QED BY <2>1, <1>7 DEF TypeOK, TxBegin, Goto, OrderOnLock
<1>8. CASE LinkOrder(r)
  <2>1. req' \in [Requests -> ReqRec]
    BY <1>q, <1>8 DEF LinkOrder, Goto, ReqRec, RunningPc, EndPc
  <2>2. trade' \in [Requests -> Row]
    <3>1. [trade[r] EXCEPT !.order = TRUE] \in Row
      BY <1>t, RowFields
    <3> QED BY <1>t, <1>8, <3>1 DEF LinkOrder
  <2>3. job' \in [Actors -> JobRec]
    BY <1>j, NoRowType, BeginType, <1>8 DEF LinkOrder, Goto, Steps
  <2> QED BY <2>1, <2>2, <2>3, <1>8 DEF TypeOK, LinkOrder, Goto
<1>9. CASE Commit(r)
  <2>1. req' \in [Requests -> ReqRec]
    BY <1>q, <1>9 DEF Commit, Goto, Unlock, HoldsLock, ReqRec, RunningPc,
       EndPc
  <2>2. rowLock' \in [Locks -> Requests \cup {NoRequest}]
    BY <1>9 DEF Commit, Goto, Unlock, HoldsLock, TypeOK
  <2>3. req[r].lock \in Locks
    BY <1>9 DEF RequestInv, Commit
  <2> QED BY <2>1, <2>2, <2>3, <1>9 DEF TypeOK, Commit
<1>10. CASE SettleApproved(r)
  <2>1. req' \in [Requests -> ReqRec]
    BY <1>q, <1>10 DEF SettleApproved, Goto, ReqRec, RunningPc, EndPc
  <2>2. trade' \in [Requests -> Row]
    <3> DEFINE a == [trade[r] EXCEPT !.order = FALSE]
               b == [a EXCEPT !.review = "needed"]
    <3>1. a \in Row
      BY <1>t, RowFields
    <3>2. b \in Row
      BY <3>1, RowFields
    <3>3. trade' = trade \/ trade' = [trade EXCEPT ![r] = b]
      BY <1>t, <1>10 DEF SettleApproved
    <3> HIDE DEF b
    <3> QED BY <1>t, <3>2, <3>3
  <2> QED BY <2>1, <2>2, <1>10 DEF TypeOK, SettleApproved, Goto
<1>11. CASE SettleUnapproved(r)
  <2>0. [trade[r] EXCEPT !.order = FALSE] \in Row
    BY <1>t DEF Row
  <2>1. req' \in [Requests -> ReqRec]
    BY <1>q, <1>11 DEF SettleUnapproved, Goto, ReqRec, RunningPc, EndPc
  <2>2. trade' \in [Requests -> Row]
    BY <1>t, <1>11 DEF SettleUnapproved, Goto, Row, Statuses
  <2>3. job' \in [Actors -> JobRec]
    BY <1>j, <2>0, BeginType, <1>11 DEF SettleUnapproved, Goto, Steps
  <2> QED BY <2>1, <2>2, <2>3, <1>11 DEF TypeOK, SettleUnapproved, Goto
<1> QED BY <1>1, <1>2, <1>3, <1>4, <1>5, <1>6, <1>7, <1>8, <1>9, <1>10, <1>11
        DEF RequestStep

\* What followup writes over a row: a status, and that the code is known.
LEMMA FollowupType ==
  ASSUME trade \in [Requests -> Row], NEW r, NEW st \in Statuses
  PROVE  [trade EXCEPT ![r].status = st, ![r].code = TRUE]
           \in [Requests -> Row]
<1>1. ASSUME NEW f \in [Requests -> Row]
      PROVE  [f EXCEPT ![r].code = TRUE] \in [Requests -> Row]
  BY DEF Row
<1>2. [trade EXCEPT ![r].status = st] \in [Requests -> Row]
  BY DEF Row
<1> QED BY <1>1, <1>2

\* The steps of a supervisor handler keep the types.
LEMMA JobType ==
  ASSUME TypeOK, NEW a \in Actors, JobInv(a), JobStep(a)
  PROVE  TypeOK'
<1>q. req \in [Requests -> ReqRec]
  BY DEF TypeOK
<1>t. trade \in [Requests -> Row]
  BY DEF TypeOK
<1>j. job \in [Actors -> JobRec]
  BY DEF TypeOK
<1>m. remote \in [Requests -> RemoteStatuses]
  BY DEF TypeOK
<1>a. job[a].step # "idle" => job[a].trade \in Requests
  BY DEF JobInv
<1>1. CASE ApproveCall(a)
  <2>1. job' \in [Actors -> JobRec]
    BY <1>j, AnsweredType, <1>a, <1>1 DEF ApproveCall, Steps, Answers
  <2>2. remote' \in [Requests -> RemoteStatuses]
    BY <1>m, <1>a, <1>1 DEF ApproveCall, RemoteStatuses
  <2>3. net' \subseteq {"Reserve", "Approve", "Cancel"} \X Requests
    BY <1>a, <1>1 DEF TypeOK, ApproveCall
  <2> QED BY <2>1, <2>2, <2>3, <1>1 DEF TypeOK, ApproveCall
<1>2. CASE ApproveAns(a)
  <2>1. req' \in [Requests -> ReqRec]
    BY <1>q, <1>a, <1>2 DEF ApproveAns, MarkApproved, ApproveThrows, Rollback,
       Goto, Unlock, ReqRec, RunningPc, EndPc
  <2>2. trade' \in [Requests -> Row]
    BY <1>t, <1>a, <1>2 DEF ApproveAns, MarkApproved, ApproveThrows, Rollback,
       Goto, Unlock, Row, Statuses
  <2>3. job' \in [Actors -> JobRec]
    BY <1>j, EndJobType, AnsweredType, <1>a, <1>2 DEF ApproveAns,
       MarkApproved, ApproveThrows, Rollback, Goto, Unlock, Steps, Answers
  <2>4. rowLock' \in [Locks -> Requests \cup {NoRequest}]
    BY <1>a, <1>2 DEF ApproveAns, MarkApproved, ApproveThrows, Rollback, Goto,
       Unlock, TypeOK
  <2> QED BY <2>1, <2>2, <2>3, <2>4, <1>2 DEF TypeOK, ApproveAns,
         MarkApproved, ApproveThrows, Rollback, Goto, Unlock
<1>3. CASE VerifyCall(a)
  <2>1. job' \in [Actors -> JobRec]
    BY <1>j, <1>m, AnsweredType, <1>a, <1>3 DEF VerifyCall, AskStatus, Steps,
       Answers
  <2> QED BY <2>1, <1>3 DEF TypeOK, VerifyCall, AskStatus
<1>4. CASE VerifyAns(a)
  <2>1. req' \in [Requests -> ReqRec]
    BY <1>q, <1>a, <1>4 DEF VerifyAns, MarkApproved, ApproveThrows, Rollback,
       Goto, Unlock, ReqRec, RunningPc, EndPc
  <2>2. trade' \in [Requests -> Row]
    BY <1>t, <1>a, <1>4 DEF VerifyAns, MarkApproved, ApproveThrows, Rollback,
       Goto, Unlock, Row, Statuses
  <2>3. job' \in [Actors -> JobRec]
    BY <1>j, EndJobType, <1>a, <1>4 DEF VerifyAns, MarkApproved,
       ApproveThrows, Rollback, Goto, Unlock
  <2>4. rowLock' \in [Locks -> Requests \cup {NoRequest}]
    BY <1>a, <1>4 DEF VerifyAns, MarkApproved, ApproveThrows, Rollback, Goto,
       Unlock, TypeOK
  <2> QED BY <2>1, <2>2, <2>3, <2>4, <1>4 DEF TypeOK, VerifyAns, MarkApproved,
         ApproveThrows, Rollback, Goto, Unlock
<1>5. CASE CancelCall(a)
  <2>1. job' \in [Actors -> JobRec]
    <3>1. \E ans \in Answers : Answered(a, "cancelAns", ans)
      BY <1>5 DEF CancelCall, Answers, RemoteStatuses
    <3> QED BY <1>j, <3>1, AnsweredType DEF Steps
  <2>2. remote' \in [Requests -> RemoteStatuses]
    BY <1>m, <1>a, <1>5 DEF CancelCall, RemoteStatuses
  <2>3. net' \subseteq {"Reserve", "Approve", "Cancel"} \X Requests
    BY <1>a, <1>5 DEF TypeOK, CancelCall
  <2> QED BY <2>1, <2>2, <2>3, <1>5 DEF TypeOK, CancelCall
<1>6. CASE CancelAns(a)
  <2>1. req' \in [Requests -> ReqRec]
    BY <1>q, <1>a, <1>6 DEF CancelAns, RemoteApproved, EndHandler, ReqRec,
       RunningPc, EndPc
  <2>2. trade' \in [Requests -> Row]
    <3>0. job[a].trade \in Requests
      BY <1>a, <1>6 DEF CancelAns
    <3>1. RemoteApproved(job[a].trade, job[a].snap) \in [Requests -> Row]
      BY <1>t, <3>0, RemoteApprovedType
    <3>2. job[a].snap.status \in Statuses
      BY <1>a, <1>6, <1>j DEF CancelAns, JobRec, Row
    <3>3. ASSUME NEW st \in Statuses
          PROVE  [trade EXCEPT ![job[a].trade].status = st]
                   \in [Requests -> Row]
      BY <1>t DEF Row
    <3> QED BY <1>6, <3>1, <3>2, <3>3 DEF CancelAns, Statuses
  <2>3. job' \in [Actors -> JobRec]
    BY <1>j, EndJobType, <1>a, <1>6 DEF CancelAns, RemoteApproved, EndHandler
  <2> QED BY <2>1, <2>2, <2>3, <1>6 DEF TypeOK, CancelAns, RemoteApproved,
         EndHandler
<1>7. CASE FollowupCall(a)
  <2>1. job' \in [Actors -> JobRec]
    BY <1>j, <1>m, AnsweredType, <1>a, <1>7 DEF FollowupCall, AskStatus,
       Steps, Answers
  <2> QED BY <2>1, <1>7 DEF TypeOK, FollowupCall, AskStatus
<1>8. CASE FollowupAns(a)
  <2>1. trade' \in [Requests -> Row]
    <3> DEFINE t == job[a].trade
    <3>1. \/ trade' = trade
          \/ trade' = [trade EXCEPT ![t].status = "FAILED"]
          \/ trade' = [trade EXCEPT ![t].status = "CANCELLED", ![t].code = TRUE]
          \/ trade' = [trade EXCEPT ![t].status = "RESERVED", ![t].code = TRUE]
          \/ trade' = [RemoteApproved(t, job[a].snap) EXCEPT ![t].code = TRUE]
      BY <1>8 DEF FollowupAns
    <3>2. job[a].trade \in Requests
      BY <1>a, <1>8 DEF FollowupAns
    <3>3. [RemoteApproved(t, job[a].snap) EXCEPT ![t].code = TRUE]
            \in [Requests -> Row]
      BY <1>t, <3>2, RemoteApprovedType
    <3>4. [trade EXCEPT ![t].status = "FAILED"] \in [Requests -> Row]
      BY <1>t DEF Row, Statuses
    <3>5. [trade EXCEPT ![t].status = "CANCELLED", ![t].code = TRUE]
            \in [Requests -> Row]
      BY <1>t, FollowupType DEF Statuses
    <3>6. [trade EXCEPT ![t].status = "RESERVED", ![t].code = TRUE]
            \in [Requests -> Row]
      BY <1>t, FollowupType DEF Statuses
    <3> HIDE DEF t
    <3> QED BY ONLY <1>t, <3>1, <3>3, <3>4, <3>5, <3>6, Zenon
  <2>2. job' \in [Actors -> JobRec]
    <3>1. EndJob(a) \/ job' = [job EXCEPT ![a].step = "fresh"]
      BY <1>8 DEF FollowupAns, EndJob
    <3>2. job' = [job EXCEPT ![a].step = "fresh"]
            => job' \in [Actors -> JobRec]
      BY <1>j DEF JobRec, Steps
    <3> QED BY <1>j, <3>1, <3>2, EndJobType
  <2>3. UNCHANGED <<req, remote, net, orders, used, lapsed, rowLock, age>>
    BY <1>8 DEF FollowupAns
  <2> QED BY <2>1, <2>2, <2>3 DEF TypeOK
<1> QED BY <1>1, <1>2, <1>3, <1>4, <1>5, <1>6, <1>7, <1>8 DEF JobStep

\* The steps of the cron job and of the admin panel keep the types.
LEMMA PanelType ==
  ASSUME TypeOK, \A c \in Crons : JobInv(c),
         (\E c \in Crons : CronStep(c)) \/ (\E a \in Admins : AdminStep(a))
  PROVE  TypeOK'
<1>q. req \in [Requests -> ReqRec]
  BY DEF TypeOK
<1>t. trade \in [Requests -> Row]
  BY DEF TypeOK
<1>j. job \in [Actors -> JobRec]
  BY DEF TypeOK
<1>m. remote \in [Requests -> RemoteStatuses]
  BY DEF TypeOK
<1>a. \A c \in Crons : job[c].step # "idle" => job[c].trade \in Requests
  BY DEF JobInv
<1>1. ASSUME NEW c \in Crons, CronFresh(c)
      PROVE  TypeOK'
  <2>1. trade' \in [Requests -> Row]
    BY <1>t, <1>a, <1>1 DEF CronFresh, Row, Statuses
  <2>2. job' \in [Actors -> JobRec]
    BY <1>j, <1>t, EndJobType, BeginType, <1>a, <1>1 DEF CronFresh, Steps
  <2> QED BY <2>1, <2>2, <1>1 DEF TypeOK, CronFresh
<1>2. ASSUME NEW c \in Crons, NEW r \in Requests, CronFollowup(c, r)
      PROVE  TypeOK'
  <2>1. job' \in [Actors -> JobRec]
    BY <1>j, <1>t, BeginType, <1>a, <1>2 DEF CronFollowup, CronPicks, Steps
  <2> QED BY <2>1, <1>2 DEF TypeOK, CronFollowup, CronPicks
<1>3. ASSUME NEW c \in Crons, NEW r \in Requests, CronGivesUp(c, r)
      PROVE  TypeOK'
  <2>1. trade' \in [Requests -> Row]
    BY <1>t, <1>a, <1>3 DEF CronGivesUp, Row, Statuses
  <2> QED BY <2>1, <1>3 DEF TypeOK, CronGivesUp
<1>4. ASSUME NEW a \in Admins, NEW r \in Requests, ManualFollowup(a, r)
      PROVE  TypeOK'
  <2>1. job' \in [Actors -> JobRec]
    BY <1>j, <1>t, BeginType, <1>a, <1>4 DEF ManualFollowup, Steps
  <2> QED BY <2>1, <1>4 DEF TypeOK, ManualFollowup
<1>5. ASSUME NEW a \in Admins, NEW r \in Requests, ManualCancel(a, r)
      PROVE  TypeOK'
  <2>1. job' \in [Actors -> JobRec]
    BY <1>j, <1>t, BeginType, <1>a, <1>5 DEF ManualCancel, Steps
  <2> QED BY <2>1, <1>5 DEF TypeOK, ManualCancel
<1>6. ASSUME NEW a \in Admins, NEW r \in Requests, ManualApprove(a, r)
      PROVE  TypeOK'
  <2>1. job' \in [Actors -> JobRec]
    BY <1>j, <1>t, BeginType, <1>a, <1>6 DEF ManualApprove, Steps
  <2> QED BY <2>1, <1>6 DEF TypeOK, ManualApprove
<1>7. ASSUME NEW r \in Requests, MarkReviewed(r)
      PROVE  TypeOK'
  <2>1. trade' \in [Requests -> Row]
    BY <1>t, <1>a, <1>7 DEF MarkReviewed, Row, Statuses
  <2> QED BY <2>1, <1>7 DEF TypeOK, MarkReviewed
<1> QED BY <1>1, <1>2, <1>3, <1>4, <1>5, <1>6, <1>7 DEF CronStep, AdminStep

\* The supervisor, the clock and failures keep the types.
LEMMA EnvironmentType ==
  ASSUME TypeOK, Environment
  PROVE  TypeOK'
<1>q. req \in [Requests -> ReqRec]
  BY DEF TypeOK
<1>t. trade \in [Requests -> Row]
  BY DEF TypeOK
<1>j. job \in [Actors -> JobRec]
  BY DEF TypeOK
<1>m. remote \in [Requests -> RemoteStatuses]
  BY DEF TypeOK
<1>1. ASSUME NEW m \in net, ExecuteLate(m)
      PROVE  TypeOK'
  <2>1. remote' \in [Requests -> RemoteStatuses]
    BY <1>m, <1>1 DEF ExecuteLate, RemoteStatuses, TypeOK
  <2> QED BY <2>1, <1>1 DEF TypeOK, ExecuteLate
<1>2. ASSUME NEW r \in Requests, RemoteExpires(r)
      PROVE  TypeOK'
  <2>1. remote' \in [Requests -> RemoteStatuses]
    BY <1>m, <1>2 DEF RemoteExpires, RemoteStatuses
  <2> QED BY <2>1, <1>2 DEF TypeOK, RemoteExpires
<1>3. ASSUME NEW r \in Requests, TradeAges(r)
      PROVE  TypeOK'
  BY <1>3 DEF TypeOK, TradeAges
<1>4. ASSUME NEW r \in Requests, TxTimeout(r)
      PROVE  TypeOK'
  BY <1>4 DEF TypeOK, TxTimeout, Unlock
<1>5. ASSUME NEW r \in Requests, Crash(r)
      PROVE  TypeOK'
  <2>1. req' \in [Requests -> ReqRec]
    BY <1>q, <1>5 DEF Crash, Goto, Unlock, ReqRec, RunningPc, EndPc
  <2>2. job' \in [Actors -> JobRec]
    BY <1>j, EndJobType, <1>5 DEF Crash, Goto, Unlock
  <2>3. rowLock' \in [Locks -> Requests \cup {NoRequest}]
    BY <1>5 DEF Crash, Goto, Unlock, TypeOK
  <2> QED BY <2>1, <2>2, <2>3, <1>5 DEF TypeOK, Crash, Goto, Unlock
<1>6. ASSUME NEW l \in Locks, PriceLockLapses(l)
      PROVE  TypeOK'
  BY <1>6 DEF TypeOK, PriceLockLapses
<1>7. ASSUME NEW a \in Actors, JobCrash(a)
      PROVE  TypeOK'
  <2>1. job' \in [Actors -> JobRec]
    BY <1>j, EndJobType, <1>7 DEF JobCrash
  <2> QED BY <2>1, <1>7 DEF TypeOK, JobCrash
<1> QED BY <1>1, <1>2, <1>3, <1>4, <1>5, <1>6, <1>7 DEF Environment

-----------------------------------------------------------------------------
(* What no step takes back, and what only r's own steps change.             *)

\* Approval by the supervisor is final; a lock stays used and lapsed; a row
\* is never un-inserted or un-flagged.
Kept(r) ==
  /\ remote[r] = "approved" => remote'[r] = "approved"
  /\ trade[r].status # "NONE" => trade'[r].status # "NONE"
  /\ trade[r].review # "no" => trade'[r].review # "no"
  /\ used \subseteq used' /\ lapsed \subseteq lapsed'

\* The steps by which request r itself moves.
Own(r) == RequestStep(r) \/ JobStep(r) \/ Crash(r)

\* Nobody else moves r, commits its order, unlinks it or touches its handler.
Still(r) ==
  /\ trade[r].order => trade'[r].order
  /\ req'[r] = req[r] /\ job'[r] = job[r]
  /\ r \in orders' => r \in orders

\* The steps of a request.
LEMMA RequestFrame ==
  ASSUME TypeOK, NEW s \in Requests, RequestStep(s), NEW r \in Requests
  PROVE  Kept(r) /\ (r # s => Still(r))
<1>t. trade \in [Requests -> Row]
  BY DEF TypeOK
<1>m. remote \in [Requests -> RemoteStatuses]
  BY DEF TypeOK
<1>q. req \in [Requests -> ReqRec] /\ job \in [Actors -> JobRec]
  BY DEF TypeOK
<1>1. ASSUME NEW l \in Locks, ReplayCompleted(s, l)
      PROVE  Kept(r) /\ (r # s => Still(r))
  <2>1. Kept(r)
    BY <1>1 DEF ReplayCompleted, Kept
  <2>2. r # s => Still(r)
    BY <1>q, <1>1 DEF ReplayCompleted, Still
  <2> QED BY <2>1, <2>2
<1>2. ASSUME NEW l \in Locks, StartUnreported(s, l)
      PROVE  Kept(r) /\ (r # s => Still(r))
  <2>1. Kept(r)
    BY <1>2 DEF StartUnreported, Kept
  <2>2. r # s => Still(r)
    BY <1>q, <1>2 DEF StartUnreported, Still
  <2> QED BY <2>1, <2>2
<1>3. ASSUME NEW l \in Locks, StartReserve(s, l)
      PROVE  Kept(r) /\ (r # s => Still(r))
  <2>1. Kept(r)
    BY <1>t, <1>3 DEF StartReserve, Kept, Row
  <2>2. r # s => Still(r)
    BY <1>q, <1>t, <1>3 DEF StartReserve, Still, Row
  <2> QED BY <2>1, <2>2
<1>4. CASE StartTest(s)
  <2>1. Kept(r)
    BY <1>t, <1>4 DEF StartTest, Goto, Kept, Row
  <2>2. r # s => Still(r)
    BY <1>q, <1>t, <1>4 DEF StartTest, Goto, Still, Row
  <2> QED BY <2>1, <2>2
<1>5. CASE ReserveCall(s)
  <2>1. Kept(r)
    BY <1>m, <1>5 DEF ReserveCall, Goto, TypeOK, Kept
  <2>2. r # s => Still(r)
    BY <1>q, <1>5 DEF ReserveCall, Goto, TypeOK, Still
  <2> QED BY <2>1, <2>2
<1>6. CASE ReserveWrite(s)
  <2>0. /\ trade'[s].status \in {"RESERVED", "FAILED", "UNKNOWN"}
        /\ trade'[s].review = trade[s].review
        /\ \A q \in Requests \ {s} : trade'[q] = trade[q]
    BY <1>t, <1>6, ReserveWriteRow
  <2>3. UNCHANGED <<remote, orders, used, lapsed, job>>
    BY <1>6 DEF ReserveWrite
  <2>1. Kept(r)
    BY <2>0, <2>3 DEF Kept
  <2>4. \E pc : Goto(s, pc)
    BY <1>6 DEF ReserveWrite
  <2>2. r # s => Still(r)
    BY <1>q, <2>0, <2>3, <2>4 DEF Goto, Still
  <2> QED BY <2>1, <2>2
<1>7. CASE TxBegin(s)
  <2>1. Kept(r)
    BY <1>7 DEF TxBegin, Goto, Kept
  <2>2. r # s => Still(r)
    BY <1>q, <1>7 DEF TxBegin, Goto, Still
  <2> QED BY <2>1, <2>2
<1>8. CASE LinkOrder(s)
  <2>1. Kept(r)
    BY <1>t, <1>8 DEF LinkOrder, Goto, Begin, Kept, Row
  <2>2. r # s => Still(r)
    BY <1>q, <1>t, <1>8 DEF LinkOrder, Goto, Begin, Still, Row
  <2> QED BY <2>1, <2>2
<1>9. CASE Commit(s)
  <2>1. Kept(r)
    BY <1>9 DEF Commit, Goto, Kept
  <2>2. r # s => Still(r)
    BY <1>q, <1>9 DEF Commit, Goto, Still
  <2> QED BY <2>1, <2>2
<1>10. CASE SettleApproved(s)
  <2>1. Kept(r)
    BY <1>t, <1>10 DEF SettleApproved, Goto, Kept, Row
  <2>2. r # s => Still(r)
    BY <1>q, <1>t, <1>10 DEF SettleApproved, Goto, Still, Row
  <2> QED BY <2>1, <2>2
<1>11. CASE SettleUnapproved(s)
  <2>1. Kept(r)
    BY <1>t, <1>11 DEF SettleUnapproved, Goto, Begin, Kept, Row
  <2>2. r # s => Still(r)
    BY <1>q, <1>t, <1>11 DEF SettleUnapproved, Goto, Begin, Still, Row
  <2> QED BY <2>1, <2>2
<1> QED BY <1>1, <1>2, <1>3, <1>4, <1>5, <1>6, <1>7, <1>8, <1>9, <1>10, <1>11
        DEF RequestStep

\* The steps of a handler.
LEMMA JobFrame ==
  ASSUME TypeOK, NEW a \in Actors, JobInv(a), JobStep(a),
         NEW r \in Requests
  PROVE  Kept(r) /\ (r # a => Still(r))
<1>q. req \in [Requests -> ReqRec] /\ job \in [Actors -> JobRec]
  BY DEF TypeOK
<1>t. trade \in [Requests -> Row]
  BY DEF TypeOK
<1>m. remote \in [Requests -> RemoteStatuses]
  BY DEF TypeOK
<1>a. job[a].step # "idle" => job[a].trade \in Requests
  BY DEF JobInv
<1>1. CASE ApproveCall(a)
  <2>1. Kept(r)
    BY <1>m, <1>1 DEF ApproveCall, Answered, Kept
  <2>2. r # a => Still(r)
    BY <1>q, <1>1 DEF ApproveCall, Answered, Still
  <2> QED BY <2>1, <2>2
<1>2. CASE ApproveAns(a)
  <2>1. Kept(r)
    BY <1>t, <1>2 DEF ApproveAns, MarkApproved, ApproveThrows, EndJob,
       Answered, Rollback, Goto, Kept, Row
  <2>2. r # a => Still(r)
    BY <1>q, <1>t, <1>2 DEF ApproveAns, MarkApproved, ApproveThrows, EndJob,
       Answered, Rollback, Goto, Still, Row
  <2> QED BY <2>1, <2>2
<1>3. CASE VerifyCall(a)
  <2>1. Kept(r)
    BY <1>3 DEF VerifyCall, AskStatus, Answered, Kept
  <2>2. r # a => Still(r)
    BY <1>q, <1>3 DEF VerifyCall, AskStatus, Answered, Still
  <2> QED BY <2>1, <2>2
<1>4. CASE VerifyAns(a)
  <2>1. Kept(r)
    BY <1>t, <1>4 DEF VerifyAns, MarkApproved, ApproveThrows, EndJob,
       Rollback, Goto, Kept, Row
  <2>2. r # a => Still(r)
    BY <1>q, <1>t, <1>4 DEF VerifyAns, MarkApproved, ApproveThrows, EndJob,
       Rollback, Goto, Still, Row
  <2> QED BY <2>1, <2>2
<1>5. CASE CancelCall(a)
  <2>1. Kept(r)
    BY <1>m, <1>5 DEF CancelCall, Answered, Kept
  <2>2. r # a => Still(r)
    BY <1>q, <1>5 DEF CancelCall, Answered, Still
  <2> QED BY <2>1, <2>2
<1>6. CASE CancelAns(a)
  <2>1. Kept(r)
    <3>1. job[a].snap.status # "NONE"
      BY <1>6 DEF CancelAns, JobInv
    <3> QED BY <1>t, <1>6, <3>1 DEF CancelAns, RemoteApproved, Kept, Row
  <2>2. r # a => Still(r)
    <3>1. trade[r].order => trade'[r].order
      BY <1>t, <1>6 DEF CancelAns, RemoteApproved, Row
    <3> QED BY <1>q, <1>6, <3>1 DEF CancelAns, EndHandler, EndJob, Still
  <2> QED BY <2>1, <2>2
<1>7. CASE FollowupCall(a)
  <2>1. Kept(r)
    BY <1>7 DEF FollowupCall, AskStatus, Answered, Kept
  <2>2. r # a => Still(r)
    BY <1>q, <1>7 DEF FollowupCall, AskStatus, Answered, Still
  <2> QED BY <2>1, <2>2
<1>8. CASE FollowupAns(a)
  <2> DEFINE t == job[a].trade
  <2>1. \/ trade' = trade
        \/ trade' = [trade EXCEPT ![t].status = "FAILED"]
        \/ trade' = [trade EXCEPT ![t].status = "CANCELLED", ![t].code = TRUE]
        \/ trade' = [trade EXCEPT ![t].status = "RESERVED", ![t].code = TRUE]
        \/ trade' = [RemoteApproved(t, job[a].snap) EXCEPT ![t].code = TRUE]
    BY <1>8 DEF FollowupAns
  <2>2. /\ trade[r].status # "NONE" => trade'[r].status # "NONE"
        /\ trade[r].review # "no" => trade'[r].review # "no"
        /\ trade[r].order => trade'[r].order
    <3>1. CASE trade' = trade
      BY <3>1
    <3>2. CASE trade' = [trade EXCEPT ![t].status = "FAILED"]
      BY <1>t, <3>2 DEF Row
    <3>3. CASE trade' = [trade EXCEPT ![t].status = "CANCELLED",
                                      ![t].code = TRUE]
      BY <1>t, <3>3 DEF Row
    <3>4. CASE trade' = [trade EXCEPT ![t].status = "RESERVED",
                                      ![t].code = TRUE]
      BY <1>t, <3>4 DEF Row
    <3>5. CASE trade' = [RemoteApproved(t, job[a].snap) EXCEPT ![t].code = TRUE]
      BY <1>t, <3>5 DEF RemoteApproved, Row
    <3> QED BY <2>1, <3>1, <3>2, <3>3, <3>4, <3>5
  <2>3. Kept(r)
    BY <1>8, <2>2 DEF FollowupAns, Kept
  <2>4. r # a => Still(r)
    BY <1>q, <1>8, <2>2 DEF FollowupAns, EndJob, Still
  <2> QED BY <2>3, <2>4
<1> QED BY <1>1, <1>2, <1>3, <1>4, <1>5, <1>6, <1>7, <1>8 DEF JobStep

\* The steps of the cron job and of the admin panel.
LEMMA PanelFrame ==
  ASSUME TypeOK, NEW r \in Requests,
         (\E c \in Crons : CronStep(c)) \/ (\E a \in Admins : AdminStep(a))
  PROVE  Kept(r) /\ Still(r)
<1> USE RequestAssumption
<1>q. req \in [Requests -> ReqRec] /\ job \in [Actors -> JobRec]
  BY DEF TypeOK
<1>t. trade \in [Requests -> Row]
  BY DEF TypeOK
<1>1. ASSUME NEW c \in Crons, CronFresh(c) PROVE Kept(r) /\ Still(r)
  <2>1. Kept(r)
    BY <1>t, <1>1 DEF CronFresh, EndJob, Begin, Kept, Row
  <2>2. Still(r)
    BY <1>q, <1>t, <1>1 DEF CronFresh, EndJob, Begin, Still, Row
  <2> QED BY <2>1, <2>2
<1>2. ASSUME NEW c \in Crons, NEW s \in Requests, CronFollowup(c, s)
      PROVE  Kept(r) /\ Still(r)
  <2>1. Kept(r)
    BY <1>2 DEF CronFollowup, Begin, Kept
  <2>2. Still(r)
    BY <1>q, <1>2 DEF CronFollowup, Begin, Still
  <2> QED BY <2>1, <2>2
<1>3. ASSUME NEW c \in Crons, NEW s \in Requests, CronGivesUp(c, s)
      PROVE  Kept(r) /\ Still(r)
  <2>1. Kept(r)
    BY <1>t, <1>3 DEF CronGivesUp, Kept, Row
  <2>2. Still(r)
    BY <1>q, <1>t, <1>3 DEF CronGivesUp, Still, Row
  <2> QED BY <2>1, <2>2
<1>4. ASSUME NEW a \in Admins, NEW s \in Requests, ManualFollowup(a, s)
      PROVE  Kept(r) /\ Still(r)
  <2>1. Kept(r)
    BY <1>4 DEF ManualFollowup, Begin, Kept
  <2>2. Still(r)
    BY <1>q, <1>4 DEF ManualFollowup, Begin, Still
  <2> QED BY <2>1, <2>2
<1>5. ASSUME NEW a \in Admins, NEW s \in Requests, ManualCancel(a, s)
      PROVE  Kept(r) /\ Still(r)
  <2>1. Kept(r)
    BY <1>5 DEF ManualCancel, Begin, Kept
  <2>2. Still(r)
    BY <1>q, <1>5 DEF ManualCancel, Begin, Still
  <2> QED BY <2>1, <2>2
<1>6. ASSUME NEW a \in Admins, NEW s \in Requests, ManualApprove(a, s)
      PROVE  Kept(r) /\ Still(r)
  <2>1. Kept(r)
    BY <1>6 DEF ManualApprove, Begin, Kept
  <2>2. Still(r)
    BY <1>q, <1>6 DEF ManualApprove, Begin, Still
  <2> QED BY <2>1, <2>2
<1>7. ASSUME NEW s \in Requests, MarkReviewed(s) PROVE Kept(r) /\ Still(r)
  <2>1. Kept(r)
    BY <1>t, <1>7 DEF MarkReviewed, Kept, Row
  <2>2. Still(r)
    BY <1>q, <1>t, <1>7 DEF MarkReviewed, Still, Row
  <2> QED BY <2>1, <2>2
<1> QED BY <1>1, <1>2, <1>3, <1>4, <1>5, <1>6, <1>7 DEF CronStep, AdminStep

\* The supervisor, the clock and failures.
LEMMA EnvironmentFrame ==
  ASSUME TypeOK, Environment, NEW r \in Requests
  PROVE  Kept(r) /\ (~Crash(r) => Still(r))
<1>q. req \in [Requests -> ReqRec] /\ job \in [Actors -> JobRec]
  BY DEF TypeOK
<1>m. remote \in [Requests -> RemoteStatuses]
  BY DEF TypeOK
<1>1. ASSUME NEW m \in net, ExecuteLate(m) PROVE Kept(r) /\ Still(r)
  <2>1. Kept(r)
    BY <1>m, <1>1 DEF ExecuteLate, Kept
  <2>2. Still(r)
    BY <1>q, <1>1 DEF ExecuteLate, Still
  <2> QED BY <2>1, <2>2
<1>2. ASSUME NEW s \in Requests, RemoteExpires(s) PROVE Kept(r) /\ Still(r)
  <2>1. Kept(r)
    BY <1>m, <1>2 DEF RemoteExpires, Kept
  <2>2. Still(r)
    BY <1>q, <1>2 DEF RemoteExpires, Still
  <2> QED BY <2>1, <2>2
<1>3. ASSUME NEW s \in Requests, TradeAges(s) PROVE Kept(r) /\ Still(r)
  <2>1. Kept(r)
    BY <1>3 DEF TradeAges, Kept
  <2>2. Still(r)
    BY <1>q, <1>3 DEF TradeAges, Still
  <2> QED BY <2>1, <2>2
<1>4. ASSUME NEW s \in Requests, TxTimeout(s) PROVE Kept(r) /\ Still(r)
  <2>1. Kept(r)
    BY <1>4 DEF TxTimeout, Kept
  <2>2. Still(r)
    BY <1>q, <1>4 DEF TxTimeout, Still
  <2> QED BY <2>1, <2>2
<1>5. ASSUME NEW s \in Requests, Crash(s)
      PROVE  Kept(r) /\ (r # s => Still(r))
  <2>1. Kept(r)
    BY <1>5 DEF Crash, Goto, EndJob, Kept
  <2>2. r # s => Still(r)
    BY <1>q, <1>5 DEF Crash, Goto, EndJob, Still
  <2> QED BY <2>1, <2>2
<1>6. ASSUME NEW l \in Locks, PriceLockLapses(l) PROVE Kept(r) /\ Still(r)
  <2>1. Kept(r)
    BY <1>6 DEF PriceLockLapses, Kept
  <2>2. Still(r)
    BY <1>q, <1>6 DEF PriceLockLapses, Still
  <2> QED BY <2>1, <2>2
<1>7. ASSUME NEW a \in Actors, JobCrash(a) PROVE Kept(r) /\ Still(r)
  <2>1. Kept(r)
    BY <1>7 DEF JobCrash, EndJob, Kept
  <2>2. Still(r)
    BY <1>q, <1>7 DEF JobCrash, EndJob, Still
  <2> QED BY <2>1, <2>2
<1> QED BY <1>1, <1>2, <1>3, <1>4, <1>5, <1>6, <1>7 DEF Environment

-----------------------------------------------------------------------------
(* The invariant of a request: steps of others, then its own.               *)

\* While r does not move, its invariant depends on what nobody takes back.
LEMMA OthersKeepRequest ==
  ASSUME NEW r \in Requests, RequestInv(r), OrderInv(r), Kept(r), Still(r)
  PROVE  RequestInv(r)' /\ OrderInv(r)'
<1>1. RequestInv(r)'
  BY DEF RequestInv, Kept, Still
<1>2. OrderInv(r)'
  BY DEF OrderInv, Kept, Still
<1> QED BY <1>1, <1>2

\* A step of r itself.
LEMMA OwnKeepsRequest ==
  ASSUME TypeOK, NEW r \in Requests, RequestInv(r), OrderInv(r), LockInv,
         Kept(r), RequestStep(r)
  PROVE  RequestInv(r)' /\ OrderInv(r)'
<1>q. req \in [Requests -> ReqRec]
  BY DEF TypeOK
<1>t. trade \in [Requests -> Row]
  BY DEF TypeOK
<1>1. ASSUME NEW l \in Locks, ReplayCompleted(r, l)
      PROVE  RequestInv(r)' /\ OrderInv(r)'
  <2>1. RequestInv(r)'
    BY <1>q, <1>1 DEF ReplayCompleted, RequestInv, ReqRec
  <2>2. OrderInv(r)'
    BY <1>q, <1>1 DEF ReplayCompleted, OrderInv, ReqRec, EndPc
  <2> QED BY <2>1, <2>2
<1>2. ASSUME NEW l \in Locks, StartUnreported(r, l)
      PROVE  RequestInv(r)' /\ OrderInv(r)'
  <2>1. RequestInv(r)'
    BY <1>q, <1>2 DEF StartUnreported, RequestInv, ReqRec
  <2>2. OrderInv(r)'
    BY <1>q, <1>2 DEF StartUnreported, OrderInv, ReqRec, EndPc
  <2> QED BY <2>1, <2>2
<1>3. ASSUME NEW l \in Locks, StartReserve(r, l)
      PROVE  RequestInv(r)' /\ OrderInv(r)'
  <2>1. RequestInv(r)'
    BY <1>q, <1>3 DEF StartReserve, RequestInv, ReqRec
  <2>2. OrderInv(r)'
    BY <1>q, <1>3 DEF StartReserve, OrderInv, ReqRec, EndPc
  <2> QED BY <2>1, <2>2
<1>4. CASE StartTest(r)
  <2>1. RequestInv(r)'
    BY <1>q, <1>4 DEF StartTest, Goto, RequestInv, ReqRec
  <2>2. OrderInv(r)'
    BY <1>q, <1>4 DEF StartTest, Goto, OrderInv, ReqRec, EndPc
  <2> QED BY <2>1, <2>2
<1>5. CASE ReserveCall(r)
  <2>1. RequestInv(r)'
    BY <1>q, <1>5 DEF ReserveCall, Goto, RequestInv, ReqRec, Kept
  <2>2. OrderInv(r)'
    BY <1>q, <1>5 DEF ReserveCall, Goto, OrderInv, ReqRec, EndPc
  <2> QED BY <2>1, <2>2
<1>6. CASE ReserveWrite(r)
  <2>1. RequestInv(r)'
    <3>1. req'[r].pc \in EndPc => RequestInv(r)'
      BY <1>q, <1>6 DEF ReserveWrite, Goto, RequestInv, ReqRec, EndPc
    <3>2. CASE req'[r].pc = "tx"
      <4>1. r \notin TestRequests /\ req[r].pc = "reserved"
        BY <1>q, <1>6, <3>2 DEF ReserveWrite, Goto, ReqRec
      <4>2. trade'[r].status = "RESERVED"
        BY <1>t, <1>6, <4>1 DEF ReserveWrite, Row
      <4> QED BY <1>q, <1>6, <3>2, <4>1, <4>2
              DEF ReserveWrite, Goto, RequestInv, ReqRec
    <3> QED BY <1>q, <1>6, <3>1, <3>2 DEF ReserveWrite, Goto, ReqRec, EndPc
  <2>2. OrderInv(r)'
    BY <1>q, <1>6 DEF ReserveWrite, Goto, OrderInv, ReqRec, EndPc
  <2> QED BY <2>1, <2>2
<1>7. CASE TxBegin(r)
  <2>1. RequestInv(r)'
    BY <1>q, <1>7 DEF TxBegin, Goto, RequestInv, ReqRec
  <2>2. OrderInv(r)'
    BY <1>q, <1>7 DEF TxBegin, Goto, OrderInv, ReqRec, EndPc
  <2> QED BY <2>1, <2>2
<1>8. CASE LinkOrder(r)
  <2>1. RequestInv(r)'
    BY <1>q, <1>t, <1>8 DEF LinkOrder, Goto, RequestInv, ReqRec, Row
  <2>2. OrderInv(r)'
    BY <1>q, <1>8 DEF LinkOrder, Goto, OrderInv, ReqRec, EndPc
  <2> QED BY <2>1, <2>2
<1>9. CASE Commit(r)
  <2>1. RequestInv(r)'
    BY <1>q, <1>9 DEF Commit, Goto, RequestInv, ReqRec
  <2>2. OrderInv(r)'
    BY <1>q, <1>9 DEF Commit, Goto, OrderInv, RequestInv, ReqRec
  <2> QED BY <2>1, <2>2
<1>10. CASE SettleApproved(r)
  <2>1. RequestInv(r)'
    BY <1>q, <1>10 DEF SettleApproved, Goto, RequestInv, ReqRec
  <2>2. OrderInv(r)'
    BY <1>q, <1>t, <1>10 DEF SettleApproved, Goto, OrderInv, ReqRec, Row, EndPc
  <2> QED BY <2>1, <2>2
<1>11. CASE SettleUnapproved(r)
  <2>1. RequestInv(r)'
    BY <1>q, <1>11 DEF SettleUnapproved, Goto, RequestInv, ReqRec
  <2>2. OrderInv(r)'
    BY <1>q, <1>t, <1>11 DEF SettleUnapproved, Goto, OrderInv, ReqRec, Row,
                             EndPc
  <2> QED BY <2>1, <2>2
<1> QED BY <1>1, <1>2, <1>3, <1>4, <1>5, <1>6, <1>7, <1>8, <1>9, <1>10, <1>11
        DEF RequestStep

\* A step of the handler r is inside.
LEMMA HandlerKeepsRequest ==
  ASSUME TypeOK, NEW r \in Requests, RequestInv(r), OrderInv(r), JobInv(r),
         Kept(r), JobStep(r)
  PROVE  RequestInv(r)' /\ OrderInv(r)'
<1>q. req \in [Requests -> ReqRec]
  BY DEF TypeOK
<1>t. trade \in [Requests -> Row]
  BY DEF TypeOK
<1>1. CASE ApproveAns(r) \/ VerifyAns(r)
  <2>1. job[r].trade = r /\ req[r].pc = "approving"
    BY <1>1 DEF ApproveAns, VerifyAns, JobInv
  <2>2. \/ MarkApproved(r) /\ remote[r] = "approved"
        \/ ApproveThrows(r) /\ trade'[r].order = trade[r].order
        \/ req' = req /\ trade'[r].order = trade[r].order
    <3>1. CASE ApproveAns(r)
      BY <2>1, <3>1 DEF ApproveAns, JobInv
    <3>2. CASE VerifyAns(r)
      BY <1>t, <2>1, <3>2 DEF VerifyAns, JobInv, Row
    <3> QED BY <1>1, <3>1, <3>2
  <2>3. remote' = remote /\ used' = used /\ lapsed' = lapsed /\ orders' = orders
    BY <1>1 DEF ApproveAns, VerifyAns
  <2>4. r \notin orders
    BY <2>1 DEF OrderInv, EndPc
  <2>5. RequestInv(r)'
    <3>1. CASE MarkApproved(r) /\ remote[r] = "approved"
      BY <1>q, <1>t, <2>1, <2>3, <3>1 DEF MarkApproved, RequestInv, ReqRec, Row
    <3>2. CASE ApproveThrows(r)
      BY <1>q, <2>1, <2>3, <3>2
         DEF ApproveThrows, Rollback, Goto, RequestInv, ReqRec
    <3>3. CASE req' = req /\ trade'[r].order = trade[r].order
      BY <2>1, <2>3, <3>3 DEF RequestInv, Kept
    <3> QED BY <2>2, <3>1, <3>2, <3>3
  <2> QED BY <2>3, <2>4, <2>5 DEF OrderInv
<1>2. CASE CancelAns(r)
  <2>1. req[r].pc = "cancelling" /\ job[r].trade = r
    BY <1>2 DEF CancelAns, JobInv
  <2>2. trade'[r].order = trade[r].order
    BY <1>t, <1>2, <2>1 DEF CancelAns, RemoteApproved, Row
  <2>3. RequestInv(r)'
    BY <1>q, <1>2, <2>1 DEF CancelAns, EndHandler, RequestInv, ReqRec
  <2>4. OrderInv(r)'
    BY <1>q, <1>2, <2>1, <2>2
       DEF CancelAns, EndHandler, OrderInv, Kept, ReqRec, EndPc
  <2> QED BY <2>3, <2>4
<1>3. CASE ApproveCall(r) \/ VerifyCall(r) \/ CancelCall(r)
  <2>1. req' = req /\ trade' = trade /\ orders' = orders /\ used' = used
        /\ lapsed' = lapsed
    BY <1>3 DEF ApproveCall, VerifyCall, CancelCall, AskStatus
  <2> QED BY <2>1 DEF RequestInv, OrderInv, Kept
<1>4. ~FollowupCall(r) /\ ~FollowupAns(r)
  BY DEF FollowupCall, FollowupAns, JobInv
<1> QED BY <1>1, <1>2, <1>3, <1>4 DEF JobStep

\* The process of r dies.
LEMMA CrashKeepsRequest ==
  ASSUME TypeOK, NEW r \in Requests, RequestInv(r), OrderInv(r), Crash(r)
  PROVE  RequestInv(r)' /\ OrderInv(r)'
<1>q. req \in [Requests -> ReqRec]
  BY DEF TypeOK
<1>1. RequestInv(r)'
  BY <1>q DEF Crash, Goto, RequestInv, ReqRec
<1>2. OrderInv(r)'
  BY <1>q DEF Crash, Goto, OrderInv, ReqRec, EndPc
<1> QED BY <1>1, <1>2

-----------------------------------------------------------------------------
(* The row locks and the orders on them.                                    *)

LEMMA LocksKept ==
  ASSUME TypeOK, NEW r \in Requests, RequestInv(r), LockInv, OneOrderPerLock,
         \A s \in Requests : OrderInv(s), RequestStep(r)
  PROVE  LockInv' /\ OneOrderPerLock'
<1>q. req \in [Requests -> ReqRec]
  BY DEF TypeOK
<1>l. rowLock \in [Locks -> Requests \cup {NoRequest}] /\ orders \subseteq Requests
  BY DEF TypeOK
<1>0. ASSUME UNCHANGED <<rowLock, used, orders>>,
             req[r].pc \notin {"ordered", "approving", "commit"} \/
               req'[r].pc \in {"ordered", "approving", "commit"},
             req'[r].lock = req[r].lock \/ (r \notin orders /\ req[r].pc = "start"),
             \A s \in Requests \ {r} : req'[s] = req[s]
      PROVE  LockInv' /\ OneOrderPerLock'
  <2>1. LockInv'
    BY <1>0, <1>l DEF LockInv
  <2>2. OneOrderPerLock'
    BY <1>0, <1>l DEF OneOrderPerLock
  <2> QED BY <2>1, <2>2
<1>1. ASSUME NEW l \in Locks,
             ReplayCompleted(r, l) \/ StartUnreported(r, l) \/ StartReserve(r, l)
      PROVE  LockInv' /\ OneOrderPerLock'
  <2>1. r \notin orders
    BY <1>1 DEF ReplayCompleted, StartUnreported, StartReserve, OrderInv, EndPc
  <2> QED BY <1>0, <1>1, <1>q, <2>1
          DEF ReplayCompleted, StartUnreported, StartReserve, ReqRec
<1>2. CASE StartTest(r) \/ ReserveCall(r) \/ ReserveWrite(r) \/ LinkOrder(r)
             \/ SettleApproved(r) \/ SettleUnapproved(r)
  <2>1. UNCHANGED <<rowLock, used, orders>>
    BY <1>2 DEF StartTest, ReserveCall, ReserveWrite, LinkOrder,
                SettleApproved, SettleUnapproved
  <2>2. PICK pc : Goto(r, pc) /\ (req[r].pc = "ordered" =>
                                     pc \in {"approving", "commit"})
               /\ req[r].pc \notin {"approving", "commit"}
    BY <1>2 DEF StartTest, ReserveCall, ReserveWrite, LinkOrder,
                SettleApproved, SettleUnapproved
  <2>3. /\ req'[r].pc = pc /\ req'[r].lock = req[r].lock
        /\ \A s \in Requests \ {r} : req'[s] = req[s]
    BY <1>q, <2>2 DEF Goto, ReqRec
  <2>4. req[r].pc \notin {"ordered", "approving", "commit"} \/
          req'[r].pc \in {"ordered", "approving", "commit"}
    BY <2>2, <2>3
  <2> QED BY <1>0, <2>1, <2>3, <2>4
<1>3. CASE TxBegin(r)
  <2>1. req[r].lock \in Locks
    BY <1>3 DEF TxBegin, RequestInv
  <2>2. LockInv'
    BY <1>q, <1>l, <1>3, <2>1 DEF TxBegin, Goto, LockInv, ReqRec
  <2>3. OneOrderPerLock'
    BY <1>q, <1>l, <1>3 DEF TxBegin, Goto, OneOrderPerLock, ReqRec
  <2> QED BY <2>2, <2>3
<1>4. CASE Commit(r)
  <2>1. req[r].lock \in Locks
    BY <1>4 DEF Commit, RequestInv
  <2>2. \A s \in Requests : req'[s].lock = req[s].lock
    BY <1>q, <1>4 DEF Commit, Goto, ReqRec
  <2>3. LockInv'
    <3>1. SUFFICES ASSUME NEW l \in Locks, rowLock'[l] # NoRequest
                   PROVE  /\ req'[rowLock'[l]].lock = l
                          /\ req'[rowLock'[l]].pc
                               \in {"ordered", "approving", "commit"}
                          /\ l \notin used'
      BY DEF LockInv
    <3>2. rowLock[l] \in Requests /\ rowLock'[l] = rowLock[l] /\ rowLock[l] # r
      BY <1>l, <1>4, <3>1 DEF Commit, Unlock
    <3>3. req'[rowLock[l]] = req[rowLock[l]]
      BY <1>q, <1>4, <3>2 DEF Commit, Goto
    <3>4. l \notin used'
      BY <1>4, <2>1, <3>2, RequestAssumption DEF Commit, HoldsLock, LockInv
    <3> QED BY <3>1, <3>2, <3>3, <3>4 DEF LockInv
  <2>4. OneOrderPerLock'
    <3>1. CASE orders' = orders
      BY <1>l, <2>2, <3>1 DEF OneOrderPerLock
    <3>2. CASE HoldsLock(r) /\ orders' = orders \cup {r}
      <4>1. req[r].lock \notin used
        BY <2>1, <3>2, RequestAssumption DEF HoldsLock, LockInv
      <4>2. \A s \in orders : req[s].lock # req[r].lock
        BY <1>l, <4>1 DEF OrderInv
      <4> QED BY <1>l, <2>2, <3>2, <4>2 DEF OneOrderPerLock
    <3> QED BY <1>4, <3>1, <3>2 DEF Commit
  <2> QED BY <2>3, <2>4
<1> QED BY <1>1, <1>2, <1>3, <1>4 DEF RequestStep

\* Any other step: a request keeps its lock, and leaves the transaction only
\* together with its row locks.
LEMMA OtherLocksKept ==
  ASSUME TypeOK, LockInv, OneOrderPerLock, orders' = orders, used' = used,
         \A s \in Requests :
           /\ req'[s].lock = req[s].lock
           /\ \/ req'[s].pc = req[s].pc
              \/ req'[s].pc = "commit"
              \/ \A l \in Locks : rowLock[l] = s => rowLock'[l] = NoRequest,
         \A l \in Locks : rowLock'[l] \in {rowLock[l], NoRequest}
  PROVE  LockInv' /\ OneOrderPerLock'
<1>l. rowLock \in [Locks -> Requests \cup {NoRequest}] /\ orders \subseteq Requests
  BY DEF TypeOK
<1>1. LockInv'
  BY <1>l DEF LockInv
<1>2. OneOrderPerLock'
  BY <1>l DEF OneOrderPerLock
<1> QED BY <1>1, <1>2

-----------------------------------------------------------------------------
(* The handlers.                                                            *)

\* A handler nobody moves, whose request (if it runs in one) does not move.
LEMMA OthersKeepJob ==
  ASSUME NEW a \in Actors, JobInv(a), job'[a] = job[a],
         a \in Requests => req'[a].pc = req[a].pc,
         \A r \in Requests : Kept(r)
  PROVE  JobInv(a)'
BY DEF JobInv, Kept

\* A handler that is left.
LEMMA IdleJob ==
  ASSUME NEW a \in Actors, job'[a].step = "idle"
  PROVE  JobInv(a)'
BY DEF JobInv

\* A step of the request a handler runs in.
LEMMA RequestKeepsJob ==
  ASSUME TypeOK, NEW r \in Requests, JobInv(r), RequestStep(r),
         \A s \in Requests : Kept(s)
  PROVE  JobInv(r)'
<1>q. req \in [Requests -> ReqRec]
  BY DEF TypeOK
<1>t. trade \in [Requests -> Row]
  BY DEF TypeOK
<1>j. job \in [Actors -> JobRec]
  BY DEF TypeOK
<1>1. CASE LinkOrder(r) /\ trade[r].status # "NONE"
  <2>1. /\ job'[r].step = "approve" /\ job'[r].trade = r
        /\ req'[r].pc = "approving"
    BY <1>q, <1>j, <1>1 DEF LinkOrder, Goto, Begin, ReqRec
  <2> QED BY <2>1 DEF JobInv
<1>2. CASE SettleUnapproved(r) /\ trade[r].status = "RESERVED"
  <2>1. /\ job'[r].step = "cancel" /\ job'[r].trade = r
        /\ req'[r].pc = "cancelling" /\ job'[r].snap.status = "RESERVED"
    BY <1>q, <1>t, <1>j, <1>2 DEF SettleUnapproved, Goto, Begin, ReqRec, Row
  <2> QED BY <2>1 DEF JobInv
<1>3. CASE job' = job
  <2>1. job[r].step = "idle"
    BY <1>3 DEF RequestStep, ReplayCompleted, StartUnreported, StartReserve,
                StartTest, ReserveCall, ReserveWrite, TxBegin, LinkOrder,
                Commit, SettleApproved, SettleUnapproved, JobInv
  <2> QED BY <1>3, <2>1, IdleJob
<1>4. \/ job' = job
      \/ LinkOrder(r) /\ trade[r].status # "NONE"
      \/ SettleUnapproved(r) /\ trade[r].status = "RESERVED"
  BY DEF RequestStep, ReplayCompleted, StartUnreported, StartReserve,
         StartTest, ReserveCall, ReserveWrite, TxBegin, LinkOrder,
         Commit, SettleApproved, SettleUnapproved
<1> QED BY <1>1, <1>2, <1>3, <1>4

\* The remote calls and their answers.
LEMMA JobKeepsJob ==
  ASSUME TypeOK, NEW a \in Actors, JobInv(a), JobStep(a),
         \A s \in Requests : Kept(s)
  PROVE  JobInv(a)'
<1>j. job \in [Actors -> JobRec]
  BY DEF TypeOK
<1>m. remote \in [Requests -> RemoteStatuses]
  BY DEF TypeOK
<1>1. ASSUME EndJob(a) PROVE JobInv(a)'
  BY <1>j, <1>1, IdleJob DEF EndJob, NoJob, JobRec
<1>2. ASSUME NEW step, NEW ans, Answered(a, step, ans)
      PROVE  /\ job'[a].step = step /\ job'[a].ans = ans
             /\ job'[a].trade = job[a].trade /\ job'[a].snap = job[a].snap
  BY <1>j, <1>2 DEF Answered, JobRec
<1>3. CASE ApproveCall(a)
  <2>1. PICK ans : Answered(a, "approveAns", ans) /\ req' = req
                   /\ (ans = "ok" => remote'[job[a].trade] = "approved")
    BY <1>m, <1>3 DEF ApproveCall, JobInv
  <2> QED BY <1>2, <1>3, <2>1 DEF ApproveCall, JobInv
<1>4. CASE ApproveAns(a)
  <2>1. CASE Answered(a, "verify", "-") /\ req' = req
    BY <1>2, <1>4, <2>1 DEF ApproveAns, JobInv
  <2> QED BY <1>1, <1>4, <2>1 DEF ApproveAns, MarkApproved, ApproveThrows
<1>5. CASE VerifyCall(a)
  <2>1. PICK ans \in {remote[job[a].trade], "lost"} :
          Answered(a, "verifyAns", ans) /\ req' = req /\ remote' = remote
    BY <1>5 DEF VerifyCall, AskStatus
  <2> QED BY <1>2, <1>5, <2>1 DEF VerifyCall, JobInv
<1>6. CASE VerifyAns(a)
  BY <1>1, <1>6 DEF VerifyAns, MarkApproved, ApproveThrows
<1>7. CASE CancelCall(a)
  <2>1. PICK ans : Answered(a, "cancelAns", ans) /\ req' = req
    BY <1>7 DEF CancelCall
  <2> QED BY <1>2, <1>7, <2>1 DEF CancelCall, JobInv
<1>8. CASE CancelAns(a)
  BY <1>1, <1>8 DEF CancelAns, EndHandler
<1>9. CASE FollowupCall(a)
  <2>1. PICK ans : Answered(a, "followupAns", ans) /\ req' = req
    BY <1>9 DEF FollowupCall, AskStatus
  <2> QED BY <1>2, <1>9, <2>1 DEF FollowupCall, JobInv
<1>10. CASE FollowupAns(a)
  <2>1. CASE job' = [job EXCEPT ![a].step = "fresh"] /\ req' = req
    <3>1. /\ job'[a].step = "fresh" /\ job'[a].trade = job[a].trade
      BY <1>j, <2>1 DEF JobRec
    <3> QED BY <1>10, <2>1, <3>1 DEF FollowupAns, JobInv
  <2> QED BY <1>1, <1>10, <2>1 DEF FollowupAns, EndJob
<1> QED BY <1>3, <1>4, <1>5, <1>6, <1>7, <1>8, <1>9, <1>10 DEF JobStep

\* The cron job and the admin panel enter a handler with a copy of the row.
LEMMA PanelKeepsJob ==
  ASSUME TypeOK, (\E c \in Crons : CronStep(c)) \/ (\E b \in Admins : AdminStep(b)),
         NEW a \in Actors, JobInv(a), \A s \in Requests : Kept(s) /\ Still(s)
  PROVE  JobInv(a)'
<1>j. job \in [Actors -> JobRec]
  BY DEF TypeOK
<1>1. ASSUME NEW b \in Actors \ Requests, NEW step, NEW r \in Requests, NEW row,
             Begin(b, step, r, row), row.status # "NONE",
             step \in {"followup", "cancel", "approve"}
      PROVE  JobInv(a)'
  <2>1. CASE a = b
    <3>1. /\ job'[a].step = step /\ job'[a].trade = r /\ job'[a].snap = row
      BY <1>j, <1>1, <2>1 DEF Begin
    <3> QED BY <1>1, <2>1, <3>1 DEF JobInv
  <2>2. CASE a # b
    <3>1. job'[a] = job[a]
      BY <1>j, <1>1, <2>2 DEF Begin
    <3> QED BY <3>1, OthersKeepJob DEF Still
  <2> QED BY <2>1, <2>2
<1>2. ASSUME job'[a] = job[a] \/ job'[a].step = "idle" PROVE JobInv(a)'
  BY <1>2, OthersKeepJob, IdleJob DEF Still
<1>3. Crons \subseteq Actors \ Requests /\ Admins \subseteq Actors \ Requests
  BY RequestAssumption
<1>4. ASSUME NEW c \in Crons, CronFresh(c) PROVE JobInv(a)'
  <2>1. job[c].trade \in Requests \/ a # c
    BY <1>4 DEF CronFresh, JobInv
  <2>2. CASE EndJob(c)
    <3>1. job'[a] = job[a] \/ job'[a].step = "idle"
      BY <1>j, <2>2 DEF EndJob, NoJob
    <3> QED BY <1>2, <3>1
  <2>3. CASE Begin(c, "cancel", job[c].trade, trade[job[c].trade])
             /\ trade[job[c].trade].status = "RESERVED"
    <3>1. CASE a = c
      BY <1>1, <1>3, <2>1, <2>3, <3>1
    <3>2. CASE a # c
      BY <1>j, <1>2, <2>3, <3>2 DEF Begin
    <3> QED BY <3>1, <3>2
  <2> QED BY <1>4, <2>2, <2>3 DEF CronFresh
<1>5. ASSUME NEW c \in Crons, NEW r \in Requests, CronFollowup(c, r) PROVE JobInv(a)'
  BY <1>1, <1>3, <1>5 DEF CronFollowup, CronPicks, Pending
<1>6. ASSUME NEW c \in Crons, NEW r \in Requests, CronGivesUp(c, r)
      PROVE  JobInv(a)'
  BY <1>2, <1>6 DEF CronGivesUp
<1>7. ASSUME NEW b \in Admins, NEW r \in Requests,
             ManualFollowup(b, r) \/ ManualCancel(b, r) \/ ManualApprove(b, r)
      PROVE  JobInv(a)'
  BY <1>1, <1>3, <1>7 DEF ManualFollowup, ManualCancel, ManualApprove
<1>8. ASSUME NEW r \in Requests, MarkReviewed(r) PROVE JobInv(a)'
  BY <1>2, <1>8 DEF MarkReviewed
<1> QED BY <1>4, <1>5, <1>6, <1>7, <1>8 DEF CronStep, AdminStep

-----------------------------------------------------------------------------
(* The invariant is inductive.                                              *)

LEMMA InitInv == Init => IndInv
<1> SUFFICES ASSUME Init PROVE IndInv
  OBVIOUS
<1>1. TypeOK
  <2>1. req \in [Requests -> ReqRec]
    BY DEF Init, ReqRec
  <2>2. job \in [Actors -> JobRec]
    BY NoRowType DEF Init, JobRec, NoJob, Steps, Answers
  <2>3. trade \in [Requests -> Row] /\ remote \in [Requests -> RemoteStatuses]
    BY NoRowType DEF Init, RemoteStatuses
  <2> QED BY <2>1, <2>2, <2>3 DEF Init, TypeOK
<1>2. OneOrderPerLock /\ LockInv
  BY DEF Init, OneOrderPerLock, LockInv
<1>3. ASSUME NEW r \in Requests PROVE RequestInv(r) /\ OrderInv(r)
  BY DEF Init, RequestInv, OrderInv
<1>4. ASSUME NEW a \in Actors PROVE JobInv(a)
  BY DEF Init, JobInv, NoJob
<1> QED BY <1>1, <1>2, <1>3, <1>4 DEF IndInv

\* How a step of a handler may end: it goes on, or one of the three endings
\* that touch a call.
LEMMA JobOutcome ==
  ASSUME NEW a \in Actors, JobStep(a), job \in [Actors -> JobRec]
  PROVE  /\ \/ UNCHANGED <<req, rowLock>>
            \/ MarkApproved(a) \/ ApproveThrows(a) \/ CancelAns(a)
         /\ \A b \in Actors \ {a} : job'[b] = job[b]
<1> DEFINE Others == \A b \in Actors \ {a} : job'[b] = job[b]
           Kind   == \/ UNCHANGED <<req, rowLock>>
                     \/ MarkApproved(a) \/ ApproveThrows(a) \/ CancelAns(a)
<1>1. EndJob(a) => Others
  BY DEF EndJob
<1>2. \A step, ans : Answered(a, step, ans) => Others
  BY DEF Answered
<1>3. MarkApproved(a) \/ ApproveThrows(a) => Others
  BY <1>1 DEF MarkApproved, ApproveThrows
<1> SUFFICES Others /\ Kind
  OBVIOUS
<1> HIDE DEF Others
<1>4. CASE ApproveCall(a)
  BY <1>2, <1>4 DEF ApproveCall
<1>5. CASE ApproveAns(a)
  BY <1>2, <1>3, <1>5 DEF ApproveAns
<1>6. CASE VerifyCall(a) \/ FollowupCall(a)
  BY <1>2, <1>6 DEF VerifyCall, FollowupCall, AskStatus
<1>7. CASE VerifyAns(a)
  BY <1>3, <1>7 DEF VerifyAns
<1>8. CASE CancelCall(a)
  BY <1>2, <1>8 DEF CancelCall
<1>9. CASE CancelAns(a)
  BY <1>1, <1>9 DEF CancelAns, EndHandler
<1>10. CASE FollowupAns(a)
  <2>1. UNCHANGED <<req, rowLock>>
    BY <1>10 DEF FollowupAns
  <2>2. \/ EndJob(a)
        \/ job' = [job EXCEPT ![a].step = "fresh"]
        \/ job' = [job EXCEPT ![a] = NoJob]
    BY <1>10 DEF FollowupAns
  <2>3. Others
    BY <1>1, <2>2 DEF Others
  <2> QED BY <2>1, <2>3
<1> QED BY <1>4, <1>5, <1>6, <1>7, <1>8, <1>9, <1>10 DEF JobStep

LEMMA StepInv == IndInv /\ [Next]_vars => IndInv'
<1> SUFFICES ASSUME IndInv, [Next]_vars PROVE IndInv'
  OBVIOUS
<1>0. /\ TypeOK /\ OneOrderPerLock /\ LockInv
      /\ \A r \in Requests : RequestInv(r) /\ OrderInv(r)
      /\ \A a \in Actors : JobInv(a)
  BY DEF IndInv
<1>1. ASSUME NEW r \in Requests, RequestStep(r) PROVE IndInv'
  <2>1. TypeOK'
    BY <1>0, <1>1, RequestType
  <2>2. \A s \in Requests : Kept(s) /\ (s # r => Still(s))
    BY <1>0, <1>1, RequestFrame
  <2>3. LockInv' /\ OneOrderPerLock'
    BY <1>0, <1>1, LocksKept
  <2>4. ASSUME NEW s \in Requests PROVE RequestInv(s)' /\ OrderInv(s)'
    BY <1>0, <1>1, <2>2, OthersKeepRequest, OwnKeepsRequest
  <2>5. ASSUME NEW a \in Actors PROVE JobInv(a)'
    <3>1. CASE a = r
      BY <1>0, <1>1, <2>2, <3>1, RequestKeepsJob
    <3>2. CASE a \in Requests \ {r}
      BY <1>0, <2>2, <3>2, OthersKeepJob DEF Still
    <3>3. CASE a \notin Requests
      <4>1. job'[a] = job[a]
        <5>1. \/ job' = job
              \/ Begin(r, "approve", r, NoRow)
              \/ Begin(r, "cancel", r, [trade[r] EXCEPT !.order = FALSE])
          BY <1>1 DEF RequestStep, ReplayCompleted, StartUnreported,
                      StartReserve, StartTest, ReserveCall, ReserveWrite,
                      TxBegin, LinkOrder, Commit, SettleApproved,
                      SettleUnapproved
        <5>2. job \in [Actors -> JobRec]
          BY <1>0 DEF TypeOK
        <5> QED BY <3>3, <5>1, <5>2 DEF Begin
      <4> QED BY <1>0, <2>2, <3>3, <4>1, OthersKeepJob
    <3> QED BY <3>1, <3>2, <3>3
  <2> QED BY <2>1, <2>3, <2>4, <2>5 DEF IndInv
<1>2. ASSUME NEW b \in Actors, JobStep(b) PROVE IndInv'
  <2>1. TypeOK'
    BY <1>0, <1>2, JobType
  <2>2. \A s \in Requests : Kept(s) /\ (s # b => Still(s))
    BY <1>0, <1>2, JobFrame
  <2>3. LockInv' /\ OneOrderPerLock'
    <3>1. orders' = orders /\ used' = used
      BY <1>2 DEF JobStep, ApproveCall, ApproveAns, VerifyCall, VerifyAns,
                  AskStatus, CancelCall, CancelAns, FollowupCall, FollowupAns
    <3>0. \/ UNCHANGED <<req, rowLock>>
          \/ MarkApproved(b) \/ ApproveThrows(b) \/ CancelAns(b)
      BY <1>0, <1>2, JobOutcome DEF TypeOK
    <3>2. \/ rowLock' = rowLock
          \/ b \in Requests /\ Unlock(b)
      <4>1. CASE MarkApproved(b)
        BY <4>1 DEF MarkApproved
      <4>2. CASE ApproveThrows(b)
        BY <4>2 DEF ApproveThrows, Rollback
      <4>3. CASE CancelAns(b)
        BY <4>3 DEF CancelAns
      <4> QED BY <3>0, <4>1, <4>2, <4>3
    <3>3. rowLock \in [Locks -> Requests \cup {NoRequest}]
          /\ req \in [Requests -> ReqRec]
      BY <1>0 DEF TypeOK
    <3>4. \A l \in Locks : rowLock'[l] \in {rowLock[l], NoRequest}
      BY <3>2, <3>3 DEF Unlock
    <3>5. ASSUME NEW s \in Requests
          PROVE  /\ req'[s].lock = req[s].lock
                 /\ \/ req'[s].pc = req[s].pc
                    \/ req'[s].pc = "commit"
                    \/ \A l \in Locks : rowLock[l] = s => rowLock'[l] = NoRequest
      <4>1. CASE req' = req
        BY <4>1
      <4>2. CASE b \in Requests /\ MarkApproved(b)
        BY <3>3, <4>2 DEF MarkApproved, ReqRec
      <4>3. CASE b \in Requests /\ ApproveThrows(b)
        BY <3>3, <4>3 DEF ApproveThrows, Rollback, Goto, Unlock, ReqRec
      <4>4. CASE CancelAns(b) /\ b \in Requests
        <5>1. req[b].pc = "cancelling"
          BY <1>0, <4>4 DEF CancelAns, JobInv
        <5>2. \A l \in Locks : rowLock[l] # b
          BY <1>0, <4>4, <5>1, RequestAssumption DEF LockInv
        <5> QED BY <3>3, <4>4, <5>2 DEF CancelAns, EndHandler, ReqRec
      <4>5. CASE b \notin Requests
        <5>1. MarkApproved(b) \/ ApproveThrows(b) => req' = req
          BY <4>5 DEF MarkApproved, ApproveThrows
        <5>2. CancelAns(b) => req' = req
          BY <4>5 DEF CancelAns, EndHandler
        <5> QED BY <3>0, <4>1, <5>1, <5>2
      <4> QED BY <3>0, <4>1, <4>2, <4>3, <4>4, <4>5
    <3> QED BY <1>0, <3>1, <3>4, <3>5, OtherLocksKept
  <2>4. ASSUME NEW s \in Requests PROVE RequestInv(s)' /\ OrderInv(s)'
    BY <1>0, <1>2, <2>2, OthersKeepRequest, HandlerKeepsRequest
  <2>5. ASSUME NEW a \in Actors PROVE JobInv(a)'
    <3>1. CASE a = b
      BY <1>0, <1>2, <2>2, <3>1, JobKeepsJob
    <3>2. CASE a # b
      <4>1. job'[a] = job[a]
        <5>1. job \in [Actors -> JobRec]
          BY <1>0 DEF TypeOK
        <5> QED BY <1>2, <3>2, <5>1, JobOutcome
      <4> QED BY <1>0, <2>2, <3>2, <4>1, OthersKeepJob DEF Still
    <3> QED BY <3>1, <3>2
  <2> QED BY <2>1, <2>3, <2>4, <2>5 DEF IndInv
<1>3. CASE (\E c \in Crons : CronStep(c)) \/ (\E a \in Admins : AdminStep(a))
  <2>1. TypeOK'
    BY <1>0, <1>3, PanelType
  <2>2. \A s \in Requests : Kept(s) /\ Still(s)
    BY <1>0, <1>3, PanelFrame
  <2>3. LockInv' /\ OneOrderPerLock'
    <3>1. orders' = orders /\ used' = used /\ req' = req /\ rowLock' = rowLock
      BY <1>3 DEF CronStep, CronFresh, CronFollowup, CronGivesUp, AdminStep,
                  ManualFollowup, ManualCancel, ManualApprove, MarkReviewed
    <3> QED BY <1>0, <3>1 DEF LockInv, OneOrderPerLock
  <2>4. ASSUME NEW s \in Requests PROVE RequestInv(s)' /\ OrderInv(s)'
    BY <1>0, <2>2, OthersKeepRequest
  <2>5. ASSUME NEW a \in Actors PROVE JobInv(a)'
    BY <1>0, <1>3, <2>2, PanelKeepsJob
  <2> QED BY <2>1, <2>3, <2>4, <2>5 DEF IndInv
<1>4. CASE Environment
  <2>1. TypeOK'
    BY <1>0, <1>4, EnvironmentType
  <2>2. \A s \in Requests : Kept(s) /\ (~Crash(s) => Still(s))
    BY <1>0, <1>4, EnvironmentFrame
  <2>t. /\ rowLock \in [Locks -> Requests \cup {NoRequest}]
        /\ req \in [Requests -> ReqRec]
    BY <1>0 DEF TypeOK
  <2>j. job \in [Actors -> JobRec]
    BY <1>0 DEF TypeOK
  <2>3. LockInv' /\ OneOrderPerLock'
    <3>1. orders' = orders /\ used' = used
      BY <1>4 DEF Environment, ExecuteLate, RemoteExpires, TradeAges, TxTimeout,
                  Crash, PriceLockLapses, JobCrash
    <3>2. CASE \E r \in Requests : Crash(r) \/ TxTimeout(r)
      <4>1. PICK r \in Requests : Crash(r) \/ TxTimeout(r)
        BY <3>2
      <4>2. \A l \in Locks : rowLock'[l] \in {rowLock[l], NoRequest}
        BY <2>t, <4>1 DEF Crash, TxTimeout, Unlock
      <4>3. ASSUME NEW s \in Requests
            PROVE  /\ req'[s].lock = req[s].lock
                   /\ \/ req'[s].pc = req[s].pc
                      \/ \A l \in Locks : rowLock[l] = s => rowLock'[l] = NoRequest
        BY <2>t, <4>1 DEF Crash, TxTimeout, Goto, Unlock, ReqRec
      <4> QED BY <1>0, <3>1, <4>2, <4>3, OtherLocksKept
    <3>3. CASE req' = req /\ rowLock' = rowLock
      BY <1>0, <3>1, <3>3 DEF LockInv, OneOrderPerLock
    <3> QED BY <1>4, <3>2, <3>3
            DEF Environment, ExecuteLate, RemoteExpires, TradeAges,
                PriceLockLapses, JobCrash
  <2>4. ASSUME NEW s \in Requests PROVE RequestInv(s)' /\ OrderInv(s)'
    BY <1>0, <2>2, OthersKeepRequest, CrashKeepsRequest
  <2>5. ASSUME NEW a \in Actors PROVE JobInv(a)'
    <3>1. CASE \E b \in Actors : EndJob(b) /\ (b \in Requests => Crash(b))
                                  /\ (b \notin Requests => req' = req)
      <4>1. PICK b \in Actors : EndJob(b) /\ (b \in Requests => Crash(b))
                                 /\ (b \notin Requests => req' = req)
        BY <3>1
      <4>2. CASE a = b
        BY <2>j, <4>1, <4>2, IdleJob DEF EndJob, NoJob
      <4>3. CASE a # b
        <5>1. job'[a] = job[a]
          BY <2>j, <4>1, <4>3 DEF EndJob
        <5>2. a \in Requests => req'[a].pc = req[a].pc
          BY <2>t, <4>1, <4>3 DEF Crash, Goto
        <5> QED BY <1>0, <2>2, <5>1, <5>2, OthersKeepJob
      <4> QED BY <4>2, <4>3
    <3>2. CASE job' = job /\ req' = req
      BY <1>0, <2>2, <3>2, OthersKeepJob
    <3> QED BY <1>4, <3>1, <3>2
            DEF Environment, ExecuteLate, RemoteExpires, TradeAges, TxTimeout,
                Crash, PriceLockLapses, JobCrash
  <2> QED BY <2>1, <2>3, <2>4, <2>5 DEF IndInv
<1>5. CASE UNCHANGED vars
  BY <1>0, <1>5 DEF vars, IndInv, TypeOK, OneOrderPerLock, LockInv, RequestInv,
                    OrderInv, JobInv, HoldsLock
<1> QED BY <1>1, <1>2, <1>3, <1>4, <1>5 DEF Next

-----------------------------------------------------------------------------
(* What the rows say of an approval is true, and the sale of a price keeps   *)
(* the promise of SupervisedOrders.  A step changes what the supervisor      *)
(* holds of one request, or one row, or commits one order, or none of them.  *)

RemoteStep(r) ==
  /\ \A q \in Requests \ {r} : remote'[q] = remote[q]
  /\ UNCHANGED <<trade, orders>>

\* The row that is written is truthful; copies may be old otherwise.
RowStep(r) ==
  /\ \A q \in Requests \ {r} : trade'[q] = trade[q]
  /\ trade'[r].status = "APPROVED" => remote[r] = "approved"
  /\ UNCHANGED <<remote, orders>>

Elsewhere == UNCHANGED <<trade, remote, orders>>

Effect == Elsewhere \/ \E r \in Requests : RemoteStep(r) \/ RowStep(r) \/ Commit(r)

\* One handler moves, if any, and knows the truth afterwards.
HandlerStep ==
  \/ job' = job
  \/ \E a \in Actors : /\ \A b \in Actors \ {a} : job'[b] = job[b]
                       /\ KnowsTruly(job[a])'

\* The locks of committed orders stay.
LocksStay == \A r \in orders : req'[r].lock = req[r].lock

\* What a handler knows after entering, an answer, and leaving.
LEMMA BeginTrue ==
  ASSUME job \in [Actors -> JobRec], NEW a \in Actors, NEW step, NEW r \in Requests,
         NEW row \in Row, Begin(a, step, r, row),
         row.status = "APPROVED" => remote'[r] = "approved"
  PROVE  HandlerStep
<1>1. /\ job'[a] = [step |-> step, trade |-> r, snap |-> row, ans |-> "-"]
      /\ \A b \in Actors \ {a} : job'[b] = job[b]
  BY DEF Begin
<1>2. KnowsTruly(job[a])'
  BY <1>1 DEF KnowsTruly
<1> QED BY <1>1, <1>2 DEF HandlerStep

LEMMA AnsweredTrue ==
  ASSUME job \in [Actors -> JobRec], NEW a \in Actors, NEW step, NEW ans,
         Answered(a, step, ans), job[a].step # "idle", KnowsTruly(job[a]),
         remote[job[a].trade] = "approved" => remote'[job[a].trade] = "approved",
         ans \in {"ok", "approved", "final"} => remote'[job[a].trade] = "approved"
  PROVE  HandlerStep
<1>1. /\ job'[a].trade = job[a].trade /\ job'[a].snap = job[a].snap
      /\ job'[a].ans = ans
      /\ \A b \in Actors \ {a} : job'[b] = job[b]
  BY DEF Answered, JobRec
<1>2. KnowsTruly(job[a])'
  BY <1>1 DEF KnowsTruly
<1> QED BY <1>1, <1>2 DEF HandlerStep

LEMMA EndTrue ==
  ASSUME job \in [Actors -> JobRec], NEW a \in Actors, EndJob(a)
  PROVE  HandlerStep
<1>1. /\ job'[a] = NoJob /\ \A b \in Actors \ {a} : job'[b] = job[b]
  BY DEF EndJob
<1>2. KnowsTruly(job[a])'
  BY <1>1 DEF KnowsTruly, NoJob
<1> QED BY <1>1, <1>2 DEF HandlerStep
\* The steps of a request.
LEMMA RequestEffect ==
  ASSUME IndInv, ClaimsTrue, NEW r \in Requests, Kept(r), RequestStep(r)
  PROVE  Effect /\ HandlerStep /\ LocksStay
<1>q. /\ req \in [Requests -> ReqRec] /\ job \in [Actors -> JobRec]
      /\ trade \in [Requests -> Row] /\ remote \in [Requests -> RemoteStatuses]
      /\ orders \subseteq Requests
  BY DEF IndInv, TypeOK
<1>t. trade[r].status = "APPROVED" => remote[r] = "approved"
  BY DEF ClaimsTrue
<1>s. r \in orders => req[r].pc # "start"
  BY DEF IndInv, OrderInv, EndPc
<1>1. LocksStay
  <2>1. \A pc : Goto(r, pc) => LocksStay
    BY <1>q DEF Goto, ReqRec, LocksStay
  <2>2. req' = req => LocksStay
    BY DEF LocksStay
  <2>3. CASE \/ StartTest(r) \/ ReserveCall(r) \/ ReserveWrite(r) \/ LinkOrder(r)
             \/ SettleApproved(r) \/ SettleUnapproved(r)
    BY <2>1, <2>2, <2>3 DEF StartTest, ReserveCall, ReserveWrite, LinkOrder,
       SettleApproved, SettleUnapproved
  <2>4. CASE TxBegin(r) \/ Commit(r)
    BY <1>q, <2>1, <2>4 DEF TxBegin, Commit, ReqRec, LocksStay
  <2>5. CASE req[r].pc = "start" /\ \A q \in Requests \ {r} : req'[q] = req[q]
    <3>1. r \notin orders
      BY <1>s, <2>5
    <3> QED BY <1>q, <2>5, <3>1 DEF LocksStay
  <2>6. CASE \E l \in Locks :
               ReplayCompleted(r, l) \/ StartUnreported(r, l) \/ StartReserve(r, l)
    BY <1>q, <2>5, <2>6 DEF ReplayCompleted, StartUnreported, StartReserve
  <2> QED BY <2>3, <2>4, <2>6 DEF RequestStep
<1>2. HandlerStep
  <2>1. CASE LinkOrder(r) /\ Begin(r, "approve", r, NoRow)
    BY <1>q, <2>1, NoRowType, BeginTrue DEF NoRow
  <2>2. CASE SettleUnapproved(r)
             /\ Begin(r, "cancel", r, [trade[r] EXCEPT !.order = FALSE])
    <3>1. /\ [trade[r] EXCEPT !.order = FALSE] \in Row
          /\ [trade[r] EXCEPT !.order = FALSE].status = trade[r].status
      BY <1>q DEF Row
    <3>2. trade[r].status = "APPROVED" => remote'[r] = "approved"
      BY <1>t, <2>2 DEF SettleUnapproved
    <3> QED BY <1>q, <2>2, <3>1, <3>2, BeginTrue
  <2>3. CASE job' = job
    BY <2>3 DEF HandlerStep
  <2> QED BY <2>1, <2>2, <2>3
          DEF RequestStep, ReplayCompleted, StartUnreported, StartReserve,
              StartTest, ReserveCall, ReserveWrite, TxBegin, LinkOrder, Commit,
              SettleApproved, SettleUnapproved
<1>3. Effect
  <2>1. CASE ReserveCall(r)
    BY <1>q, <2>1 DEF ReserveCall, RemoteStep, Effect
  <2>2. CASE Commit(r)
    BY <2>2 DEF Effect
  <2>3. CASE StartTest(r) \/ ReserveWrite(r) \/ LinkOrder(r)
             \/ SettleApproved(r) \/ SettleUnapproved(r)
             \/ \E l \in Locks : StartReserve(r, l)
    <3>1. RowStep(r)
      <4>1. \A q \in Requests \ {r} : trade'[q] = trade[q]
        BY <1>q, <2>3 DEF StartTest, ReserveWrite, LinkOrder, SettleApproved,
           SettleUnapproved, StartReserve
      <4>2. trade'[r].status = "APPROVED" => trade[r].status = "APPROVED"
        <5>1. CASE ReserveWrite(r)
          BY <1>q, <5>1, ReserveWriteRow
        <5>2. CASE StartTest(r) \/ \E l \in Locks : StartReserve(r, l)
          BY <1>q, <5>2 DEF StartTest, StartReserve, Row
        <5>3. CASE LinkOrder(r) \/ SettleApproved(r) \/ SettleUnapproved(r)
          BY <1>q, <5>3 DEF LinkOrder, SettleApproved, SettleUnapproved, Row
        <5> QED BY <2>3, <5>1, <5>2, <5>3
      <4>3. UNCHANGED <<remote, orders>>
        BY <2>3 DEF StartTest, ReserveWrite, LinkOrder, SettleApproved,
           SettleUnapproved, StartReserve
      <4> QED BY <1>t, <4>1, <4>2, <4>3 DEF RowStep
    <3> QED BY <3>1 DEF Effect
  <2>4. CASE TxBegin(r) \/ \E l \in Locks : ReplayCompleted(r, l)
                                           \/ StartUnreported(r, l)
    BY <2>4 DEF TxBegin, ReplayCompleted, StartUnreported, Elsewhere, Effect
  <2> QED BY <2>1, <2>2, <2>3, <2>4 DEF RequestStep
<1> QED BY <1>1, <1>2, <1>3

\* The locks of requests that only move their program counter.
LEMMA LocksStayWhen ==
  ASSUME IndInv, \A r \in Requests : req'[r].lock = req[r].lock
  PROVE  LocksStay
BY DEF LocksStay, IndInv, TypeOK

\* Writing the row from a positive answer, or from another that is no approval.
LEMMA RemoteApprovedRow ==
  ASSUME trade \in [Requests -> Row], NEW r \in Requests, remote[r] = "approved",
         NEW snap, UNCHANGED <<remote, orders>>,
         \/ trade' = RemoteApproved(r, snap)
         \/ trade' = [RemoteApproved(r, snap) EXCEPT ![r].code = TRUE]
  PROVE  RowStep(r)
BY DEF RemoteApproved, RowStep

\* The steps of a supervisor handler.
LEMMA JobEffect ==
  ASSUME IndInv, ClaimsTrue, \A r \in Requests : Kept(r), NEW a \in Actors, JobStep(a)
  PROVE  Effect /\ HandlerStep /\ LocksStay
<1> DEFINE t == job[a].trade
<1>q. /\ req \in [Requests -> ReqRec] /\ job \in [Actors -> JobRec]
      /\ trade \in [Requests -> Row] /\ remote \in [Requests -> RemoteStatuses]
  BY DEF IndInv, TypeOK
<1>a. job[a].step # "idle"
  BY DEF JobStep, ApproveCall, ApproveAns, VerifyCall, VerifyAns, CancelCall,
     CancelAns, FollowupCall, FollowupAns
<1>t. t \in Requests /\ JobInv(a) /\ (remote[t] = "approved" => remote'[t] = "approved")
  BY <1>a DEF IndInv, JobInv, Kept
<1>k. KnowsTruly(job[a])
  BY DEF ClaimsTrue
<1>1. LocksStay
  <2>1. \A r \in Requests : req'[r].lock = req[r].lock
    <3>1. \/ req' = req
          \/ MarkApproved(a) \/ ApproveThrows(a) \/ EndHandler(a)
      BY DEF JobStep, ApproveCall, ApproveAns, VerifyCall, VerifyAns, AskStatus,
         CancelCall, CancelAns, FollowupCall, FollowupAns
    <3>2. CASE MarkApproved(a)
      BY <1>q, <3>2 DEF MarkApproved, ReqRec
    <3>3. CASE ApproveThrows(a)
      BY <1>q, <3>3 DEF ApproveThrows, Rollback, Goto, ReqRec
    <3>4. CASE EndHandler(a)
      BY <1>q, <3>4 DEF EndHandler, ReqRec
    <3> QED BY <3>1, <3>2, <3>3, <3>4
  <2> QED BY <2>1, LocksStayWhen
<1>2. CASE ApproveCall(a)
  <2>1. /\ \A q \in Requests \ {t} : remote'[q] = remote[q]
        /\ UNCHANGED <<trade, orders>>
    BY <1>q, <1>t, <1>2 DEF ApproveCall
  <2>2. Effect
    BY <1>t, <2>1 DEF Effect, RemoteStep
  <2>3. \E ans : /\ Answered(a, "approveAns", ans)
                 /\ ans = "ok" => remote'[t] = "approved"
                 /\ ans \notin {"approved", "final"}
    BY <1>q, <1>t, <1>2 DEF ApproveCall
  <2>4. HandlerStep
    BY <1>q, <1>a, <1>t, <1>k, <2>3, AnsweredTrue
  <2> QED BY <1>1, <2>2, <2>4
<1>3. CASE CancelCall(a)
  <2>1. /\ \A q \in Requests \ {t} : remote'[q] = remote[q]
        /\ UNCHANGED <<trade, orders>>
    BY <1>q, <1>t, <1>3 DEF CancelCall
  <2>2. Effect
    BY <1>t, <2>1 DEF Effect, RemoteStep
  <2>3. \E ans : /\ Answered(a, "cancelAns", ans)
                 /\ ans = "final" => remote'[t] = "approved"
                 /\ ans \notin {"approved", "ok"}
    BY <1>q, <1>t, <1>3 DEF CancelCall
  <2>4. HandlerStep
    BY <1>q, <1>a, <1>t, <1>k, <2>3, AnsweredTrue
  <2> QED BY <1>1, <2>2, <2>4
<1>4. CASE VerifyCall(a) \/ FollowupCall(a)
  <2>1. Effect /\ remote' = remote
    BY <1>4 DEF VerifyCall, FollowupCall, AskStatus, Effect, Elsewhere
  <2>2. \E step : \E ans \in {remote[t], "lost"} : Answered(a, step, ans)
    BY <1>4 DEF VerifyCall, FollowupCall, AskStatus
  <2>3. remote[t] \notin {"ok", "final"}
    BY <1>q, <1>t DEF RemoteStatuses
  <2>4. PICK step, ans : /\ Answered(a, step, ans) /\ ans \in {remote[t], "lost"}
    BY <2>2
  <2>5. HandlerStep
    BY <1>q, <1>a, <1>t, <1>k, <2>1, <2>3, <2>4, AnsweredTrue
  <2> QED BY <1>1, <2>1, <2>5
<1>5. CASE ApproveAns(a)
  <2>1. UNCHANGED <<remote, orders>>
    BY <1>5 DEF ApproveAns
  <2>2. CASE job[a].ans = "ok" /\ MarkApproved(a)
    <3>1. remote[t] = "approved"
      BY <1>a, <1>k, <2>2 DEF KnowsTruly
    <3>2. RowStep(t)
      BY <1>q, <1>t, <2>1, <2>2, <3>1 DEF MarkApproved, RowStep
    <3> QED BY <1>q, <1>1, <1>t, <2>2, <3>2, EndTrue DEF MarkApproved, Effect
  <2>3. CASE ApproveThrows(a) /\ UNCHANGED trade
    BY <1>q, <1>1, <2>1, <2>3, EndTrue DEF ApproveThrows, Effect, Elsewhere
  <2>4. CASE Answered(a, "verify", "-") /\ UNCHANGED trade
    <3>1. HandlerStep
      BY <1>q, <1>a, <1>t, <1>k, <2>4, AnsweredTrue
    <3> QED BY <1>1, <2>1, <2>4, <3>1 DEF Effect, Elsewhere
  <2> QED BY <1>5, <2>2, <2>3, <2>4 DEF ApproveAns
<1>6. CASE VerifyAns(a)
  <2>1. UNCHANGED <<remote, orders>>
    BY <1>6 DEF VerifyAns
  <2>2. CASE job[a].ans = "approved" /\ MarkApproved(a)
    <3>1. remote[t] = "approved"
      BY <1>a, <1>k, <2>2 DEF KnowsTruly
    <3>2. RowStep(t)
      BY <1>q, <1>t, <2>1, <2>2, <3>1 DEF MarkApproved, RowStep
    <3> QED BY <1>q, <1>1, <1>t, <2>2, <3>2, EndTrue DEF MarkApproved, Effect
  <2>3. CASE ApproveThrows(a) /\ UNCHANGED trade
    BY <1>q, <1>1, <2>1, <2>3, EndTrue DEF ApproveThrows, Effect, Elsewhere
  <2>4. CASE ApproveThrows(a) /\ trade' = [trade EXCEPT ![t].status = "UNKNOWN"]
    <3>1. RowStep(t)
      BY <1>q, <1>t, <2>1, <2>4 DEF RowStep, Row
    <3> QED BY <1>q, <1>1, <1>t, <2>4, <3>1, EndTrue DEF ApproveThrows, Effect
  <2> QED BY <1>6, <2>2, <2>3, <2>4 DEF VerifyAns
<1>7. CASE CancelAns(a)
  <2>1. UNCHANGED <<remote, orders>>
    BY <1>7 DEF CancelAns
  <2>2. HandlerStep
    BY <1>q, <1>7, EndTrue DEF CancelAns, EndHandler
  <2>3. RowStep(t)
    <3>1. CASE job[a].ans = "final" /\ trade' = RemoteApproved(t, job[a].snap)
      <4>1. remote[t] = "approved"
        BY <1>a, <1>k, <3>1 DEF KnowsTruly
      <4> QED BY <1>q, <1>t, <2>1, <3>1, <4>1, RemoteApprovedRow
    <3>2. CASE trade' = [trade EXCEPT ![t].status = job[a].snap.status]
      BY <1>q, <1>a, <1>k, <1>t, <2>1, <3>2 DEF KnowsTruly, RowStep, Row
    <3>3. CASE \E s \in {"CANCELLED", "UNKNOWN"} : trade' = [trade EXCEPT ![t].status = s]
      BY <1>q, <1>t, <2>1, <3>3 DEF RowStep, Row
    <3> QED BY <1>7, <3>1, <3>2, <3>3 DEF CancelAns
  <2> QED BY <1>1, <1>t, <2>2, <2>3 DEF Effect
<1>8. CASE FollowupAns(a)
  <2>1. UNCHANGED <<remote, orders>>
    BY <1>8 DEF FollowupAns
  <2>2. HandlerStep
    <3>1. CASE EndJob(a)
      BY <1>q, <3>1, EndTrue
    <3>2. CASE job' = [job EXCEPT ![a].step = "fresh"]
      <4>1. /\ job'[a].trade = t /\ job'[a].snap = job[a].snap
            /\ job'[a].ans = job[a].ans
            /\ \A b \in Actors \ {a} : job'[b] = job[b]
        BY <1>q, <3>2 DEF JobRec
      <4>2. KnowsTruly(job[a])'
        BY <1>a, <1>k, <2>1, <4>1 DEF KnowsTruly
      <4> QED BY <4>1, <4>2 DEF HandlerStep
    <3> QED BY <1>8, <3>1, <3>2 DEF FollowupAns, EndJob
  <2>3. trade' = trade \/ RowStep(t)
    <3>1. CASE /\ job[a].ans = "approved"
               /\ trade' = [RemoteApproved(t, job[a].snap) EXCEPT ![t].code = TRUE]
      <4>1. remote[t] = "approved"
        BY <1>a, <1>k, <3>1 DEF KnowsTruly
      <4> QED BY <1>q, <1>t, <2>1, <3>1, <4>1, RemoteApprovedRow
    <3>2. CASE trade' = trade
      BY <3>2
    <3>3. CASE \E s \in {"CANCELLED", "RESERVED", "FAILED"} :
                 \/ trade' = [trade EXCEPT ![t].status = s]
                 \/ trade' = [trade EXCEPT ![t].status = s, ![t].code = TRUE]
      BY <1>q, <1>t, <2>1, <3>3 DEF RowStep, Row
    <3> QED BY <1>8, <3>1, <3>2, <3>3 DEF FollowupAns
  <2> QED BY <1>1, <1>t, <2>1, <2>2, <2>3 DEF Effect, Elsewhere
<1> QED BY <1>2, <1>3, <1>4, <1>5, <1>6, <1>7, <1>8 DEF JobStep

\* The cron job and the admin panel.
LEMMA PanelEffect ==
  ASSUME IndInv, ClaimsTrue,
         (\E c \in Crons : CronStep(c)) \/ (\E a \in Admins : AdminStep(a))
  PROVE  Effect /\ HandlerStep /\ LocksStay
<1>q. /\ job \in [Actors -> JobRec] /\ trade \in [Requests -> Row]
  BY DEF IndInv, TypeOK
<1>t. \A r \in Requests : trade[r].status = "APPROVED" => remote[r] = "approved"
  BY DEF ClaimsTrue
<1>1. LocksStay /\ UNCHANGED <<remote, orders>>
  BY DEF CronStep, CronFresh, CronFollowup, CronGivesUp, AdminStep,
     ManualFollowup, ManualCancel, ManualApprove, MarkReviewed, LocksStay
<1>2. ASSUME NEW a \in Actors, NEW step, NEW r \in Requests,
             Begin(a, step, r, trade[r]), UNCHANGED trade
      PROVE  Effect /\ HandlerStep
  <2>1. HandlerStep
    BY <1>q, <1>t, <1>1, <1>2, BeginTrue
  <2> QED BY <1>1, <1>2, <2>1 DEF Effect, Elsewhere
<1>3. ASSUME NEW r \in Requests, NEW v,
             trade' = [trade EXCEPT ![r].review = v]
      PROVE  Effect
  <2>1. RowStep(r)
    BY <1>q, <1>t, <1>1, <1>3 DEF RowStep, Row
  <2> QED BY <2>1 DEF Effect
<1>4. ASSUME NEW c \in Crons, CronFresh(c)
      PROVE  Effect /\ HandlerStep
  <2> DEFINE r == job[c].trade
  <2>1. r \in Requests
    BY <1>4 DEF IndInv, JobInv, CronFresh
  <2>2. CASE EndJob(c) /\ UNCHANGED trade
    BY <1>q, <1>1, <2>2, EndTrue DEF Effect, Elsewhere
  <2>3. CASE EndJob(c) /\ trade' = [trade EXCEPT ![r].review = "needed"]
    BY <1>q, <1>3, <2>1, <2>3, EndTrue
  <2>4. CASE Begin(c, "cancel", r, trade[r]) /\ UNCHANGED trade
    BY <1>2, <2>1, <2>4
  <2> QED BY <1>4, <2>2, <2>3, <2>4 DEF CronFresh
<1>5. ASSUME NEW c \in Crons, NEW r \in Requests,
             CronFollowup(c, r) \/ CronGivesUp(c, r)
      PROVE  Effect /\ HandlerStep
  BY <1>2, <1>3, <1>5 DEF CronFollowup, CronGivesUp, HandlerStep
<1>6. ASSUME NEW a \in Admins, NEW r \in Requests,
             \/ ManualFollowup(a, r) \/ ManualCancel(a, r)
             \/ ManualApprove(a, r) \/ MarkReviewed(r)
      PROVE  Effect /\ HandlerStep
  BY <1>2, <1>3, <1>6
     DEF ManualFollowup, ManualCancel, ManualApprove, MarkReviewed, HandlerStep
<1> QED BY <1>1, <1>4, <1>5, <1>6 DEF CronStep, AdminStep

\* The supervisor, the clock and failures.
LEMMA EnvironmentEffect ==
  ASSUME IndInv, ClaimsTrue, Environment
  PROVE  Effect /\ HandlerStep /\ LocksStay
<1>q. /\ req \in [Requests -> ReqRec] /\ job \in [Actors -> JobRec]
      /\ remote \in [Requests -> RemoteStatuses]
      /\ net \subseteq {"Reserve", "Approve", "Cancel"} \X Requests
  BY DEF IndInv, TypeOK
<1>1. ASSUME NEW m \in net, ExecuteLate(m)
      PROVE  Effect /\ HandlerStep /\ LocksStay
  <2>1. RemoteStep(m[2]) /\ m[2] \in Requests
    BY <1>q, <1>1 DEF ExecuteLate, RemoteStep
  <2>2. job' = job /\ req' = req
    BY <1>1 DEF ExecuteLate
  <2> QED BY <2>1, <2>2 DEF Effect, HandlerStep, LocksStay
<1>2. ASSUME NEW r \in Requests, RemoteExpires(r)
      PROVE  Effect /\ HandlerStep /\ LocksStay
  BY <1>q, <1>2 DEF RemoteExpires, RemoteStep, Effect, HandlerStep, LocksStay
<1>3. ASSUME NEW r \in Requests, Crash(r)
      PROVE  Effect /\ HandlerStep /\ LocksStay
  <2>1. HandlerStep
    BY <1>q, <1>3, EndTrue DEF Crash
  <2>2. \A s \in Requests : req'[s].lock = req[s].lock
    BY <1>q, <1>3 DEF Crash, Goto, ReqRec
  <2>3. Effect
    BY <1>3 DEF Crash, Effect, Elsewhere
  <2> QED BY <2>1, <2>2, <2>3, LocksStayWhen
<1>4. ASSUME NEW a \in Actors, JobCrash(a)
      PROVE  Effect /\ HandlerStep /\ LocksStay
  <2>1. HandlerStep
    BY <1>q, <1>4, EndTrue DEF JobCrash
  <2> QED BY <1>4, <2>1 DEF JobCrash, Effect, Elsewhere, LocksStay
<1>5. ASSUME \/ \E r \in Requests : TradeAges(r) \/ TxTimeout(r)
             \/ \E l \in Locks : PriceLockLapses(l)
      PROVE  Effect /\ HandlerStep /\ LocksStay
  BY <1>5 DEF TradeAges, TxTimeout, PriceLockLapses, Effect, Elsewhere,
     HandlerStep, LocksStay
<1> QED BY <1>1, <1>2, <1>3, <1>4, <1>5 DEF Environment

\* Approval is final, whoever moves.
LEMMA AllKept ==
  ASSUME IndInv, Next, NEW r \in Requests PROVE Kept(r)
<1>0. TypeOK /\ \A a \in Actors : JobInv(a)
  BY DEF IndInv
<1>1. CASE \E s \in Requests : RequestStep(s)
  BY <1>0, <1>1, RequestFrame
<1>2. CASE \E a \in Actors : JobStep(a)
  BY <1>0, <1>2, JobFrame
<1>3. CASE (\E c \in Crons : CronStep(c)) \/ (\E a \in Admins : AdminStep(a))
  BY <1>0, <1>3, PanelFrame
<1>4. CASE Environment
  BY <1>0, <1>4, EnvironmentFrame
<1> QED BY <1>1, <1>2, <1>3, <1>4 DEF Next

LEMMA NextEffect ==
  ASSUME IndInv, ClaimsTrue, Next
  PROVE  Effect /\ HandlerStep /\ LocksStay
<1>1. \A r \in Requests : Kept(r)
  BY AllKept
<1> QED BY <1>1, RequestEffect, JobEffect, PanelEffect, EnvironmentEffect DEF Next

\* No row, copy or answer comes to claim an approval that was not given.
LEMMA ClaimsStep == IndInv /\ ClaimsTrue /\ [Next]_vars => ClaimsTrue'
<1> SUFFICES ASSUME IndInv, ClaimsTrue, [Next]_vars PROVE ClaimsTrue'
  OBVIOUS
<1>1. CASE UNCHANGED vars
  BY <1>1 DEF vars, ClaimsTrue, KnowsTruly
<1>2. CASE Next
  <2>1. Effect /\ HandlerStep
    BY <1>2, NextEffect
  <2>2. \A r \in Requests : remote[r] = "approved" => remote'[r] = "approved"
    BY <1>2, AllKept DEF Kept
  <2>3. ASSUME NEW r \in Requests, trade'[r].status = "APPROVED"
        PROVE  remote'[r] = "approved"
    <3>1. trade'[r] = trade[r] \/ remote[r] = "approved"
      BY <2>1, <2>3 DEF Effect, Elsewhere, RemoteStep, RowStep, Commit
    <3> QED BY <2>2, <2>3, <3>1 DEF ClaimsTrue
  <2>4. ASSUME NEW a \in Actors PROVE KnowsTruly(job[a])'
    <3>1. CASE job'[a] = job[a]
      <4>1. KnowsTruly(job[a]) /\ (job[a].step # "idle" => job[a].trade \in Requests)
        BY DEF ClaimsTrue, IndInv, JobInv
      <4> QED BY <2>2, <3>1, <4>1 DEF KnowsTruly
    <3> QED BY <2>1, <3>1 DEF HandlerStep
  <2> QED BY <2>3, <2>4 DEF ClaimsTrue
<1> QED BY <1>1, <1>2

LEMMA ClaimsInit == Init => ClaimsTrue
BY DEF Init, ClaimsTrue, KnowsTruly, NoRow, NoJob

\* What the promise sees of a state.
ApprovedNow == {r \in Requests : remote[r] = "approved"}
ClaimedNow  == {r \in Requests : trade[r].status = "APPROVED"}
TracedNow   == {r \in Requests : trade[r].order \/ trade[r].review # "no"}
SoldNow     == [l \in Locks |-> Sold(l)]

\* A step that commits nothing sells nothing and takes no sale back.
LEMMA SalesStay ==
  ASSUME LocksStay, orders' = orders PROVE SoldNow' = SoldNow
<1>1. \A l : Sold(l)' = Sold(l)
  BY DEF LocksStay, Sold
<1> QED BY <1>1 DEF SoldNow

LEMMA RemoteKeepsPromise ==
  ASSUME IndInv, IndInv', NEW r \in Requests, RemoteStep(r), LocksStay,
         remote[r] = "approved" => remote'[r] = "approved"
  PROVE  [Promise!Next]_(Promise!vars)
<1>1. SoldNow' = SoldNow /\ ClaimedNow' = ClaimedNow /\ TracedNow' = TracedNow
  BY SalesStay DEF RemoteStep, ClaimedNow, TracedNow
<1>2. ApprovedNow' \in {ApprovedNow, ApprovedNow \cup {r}}
  BY DEF RemoteStep, ApprovedNow
<1>3. CASE ApprovedNow' = ApprovedNow
  BY <1>1, <1>3 DEF Promise!vars, SoldNow, ClaimedNow, TracedNow, ApprovedNow
<1>4. CASE ApprovedNow' = ApprovedNow \cup {r}
  <2>1. Promise!Approve(r)
    BY <1>1, <1>4 DEF Promise!Approve, SoldNow, ClaimedNow, TracedNow, ApprovedNow
  <2> QED BY <2>1 DEF Promise!Next
<1> QED BY <1>2, <1>3, <1>4

LEMMA RowKeepsPromise ==
  ASSUME IndInv, IndInv', NEW r \in Requests, RowStep(r), LocksStay, ClaimsTrue
  PROVE  Promise!Write(r)
<1>1. SoldNow' = SoldNow /\ ApprovedNow' = ApprovedNow
  BY SalesStay DEF RowStep, ApprovedNow
<1>2. ClaimedNow' \in {ClaimedNow \ {r}, (ClaimedNow \cup {r}) \cap ApprovedNow}
  <2>1. CASE trade'[r].status = "APPROVED"
    <3>1. ClaimedNow' = ClaimedNow \cup {r} /\ r \in ApprovedNow
      BY <2>1 DEF RowStep, ClaimedNow, ApprovedNow
    <3>2. ClaimedNow \subseteq ApprovedNow
      BY DEF ClaimsTrue, ClaimedNow, ApprovedNow
    <3> QED BY <3>1, <3>2
  <2>2. CASE trade'[r].status # "APPROVED"
    BY <2>2 DEF RowStep, ClaimedNow
  <2> QED BY <2>1, <2>2
<1>3. TracedNow' \in {TracedNow \cup {r}, TracedNow \ {r}}
  BY DEF RowStep, TracedNow
<1>4. ASSUME TracedNow' = TracedNow \ {r}, NEW l \in Locks, r \in Sold(l)
      PROVE  r \in Unreported
  <2>1. r \in orders' /\ r \notin TracedNow'
    BY <1>4 DEF Sold, RowStep
  <2>2. OrderInv(r)'
    BY DEF IndInv
  <2> QED BY <2>1, <2>2 DEF OrderInv, TracedNow
<1> QED BY <1>1, <1>2, <1>3, <1>4
        DEF Promise!Write, Promise!Sold, SoldNow, ClaimedNow, TracedNow, ApprovedNow

\* A commit sells the price of the row lock that is held to its end.
LEMMA CommitKeepsPromise ==
  ASSUME IndInv, NEW r \in Requests, Commit(r), LocksStay
  PROVE  [Promise!Next]_(Promise!vars)
<1> DEFINE l == req[r].lock
<1>1. /\ ClaimedNow' = ClaimedNow /\ TracedNow' = TracedNow
      /\ ApprovedNow' = ApprovedNow
  BY DEF Commit, ClaimedNow, TracedNow, ApprovedNow
<1>2. CASE orders' = orders
  BY <1>1, <1>2, SalesStay
     DEF Promise!vars, SoldNow, ClaimedNow, TracedNow, ApprovedNow
<1>3. CASE HoldsLock(r) /\ orders' = orders \cup {r} /\ orders' # orders
  <2>0. /\ req \in [Requests -> ReqRec] /\ orders \subseteq Requests
        /\ trade \in [Requests -> Row]
    BY DEF IndInv, TypeOK
  <2>1. l \in Locks /\ (r \in Unreported \/ r \in ApprovedNow \cap TracedNow)
    BY DEF IndInv, RequestInv, Commit, ApprovedNow, TracedNow
  <2>2. l \notin used
    BY <1>3, <2>1, RequestAssumption DEF IndInv, LockInv, HoldsLock
  <2>3. Sold(l) = {}
    BY <2>0, <2>2 DEF IndInv, OrderInv, Sold
  <2>4. r \notin orders
    BY <1>3
  <2>5. req'[r].lock = l
    BY <2>0 DEF Commit, Goto, ReqRec
  <2>6. \A m \in Locks : Sold(m)' = IF m = l THEN {r} ELSE Sold(m)
    BY <1>3, <2>3, <2>4, <2>5 DEF Sold, LocksStay
  <2>7. SoldNow' = [SoldNow EXCEPT ![l] = {r}]
    BY <2>1, <2>6 DEF SoldNow
  <2>8. \A m \in Locks : r \notin Sold(m)
    BY <2>4 DEF Sold
  <2>9. Promise!Sell(r, l)
    BY <1>1, <2>1, <2>3, <2>7, <2>8
       DEF Promise!Sell, Promise!Sold, SoldNow, ClaimedNow, TracedNow, ApprovedNow
  <2> QED BY <2>1, <2>9 DEF Promise!Next
<1> QED BY <1>2, <1>3 DEF Commit

LEMMA PromiseInit == Init => Promise!Init
BY DEF Init, Promise!Init, NoRow, Sold

LEMMA PromiseStep ==
  IndInv /\ IndInv' /\ ClaimsTrue /\ [Next]_vars => [Promise!Next]_(Promise!vars)
<1> SUFFICES ASSUME IndInv, IndInv', ClaimsTrue, [Next]_vars
             PROVE  [Promise!Next]_(Promise!vars)
  OBVIOUS
<1>1. CASE UNCHANGED vars
  <2>1. SoldNow' = SoldNow
    BY <1>1, SalesStay DEF vars, LocksStay
  <2> QED BY <1>1, <2>1 DEF vars, Promise!vars, SoldNow
<1>2. CASE Next
  <2>1. Effect /\ LocksStay
    BY <1>2, NextEffect
  <2>2. CASE Elsewhere
    <3>1. SoldNow' = SoldNow
      BY <2>1, <2>2, SalesStay DEF Elsewhere
    <3> QED BY <2>2, <3>1 DEF Elsewhere, Promise!vars, SoldNow
  <2>3. ASSUME NEW r \in Requests, RemoteStep(r)
        PROVE  [Promise!Next]_(Promise!vars)
    <3>1. remote[r] = "approved" => remote'[r] = "approved"
      BY <1>2, AllKept DEF Kept
    <3> QED BY <2>1, <2>3, <3>1, RemoteKeepsPromise
  <2>4. ASSUME NEW r \in Requests, RowStep(r)
        PROVE  [Promise!Next]_(Promise!vars)
    BY <2>1, <2>4, RowKeepsPromise DEF Promise!Next
  <2>5. ASSUME NEW r \in Requests, Commit(r)
        PROVE  [Promise!Next]_(Promise!vars)
    BY <2>1, <2>5, CommitKeepsPromise
  <2> QED BY <2>1, <2>2, <2>3, <2>4, <2>5 DEF Effect
<1> QED BY <1>1, <1>2

-----------------------------------------------------------------------------
(* The theorems.                                                            *)

\* The inductive invariant holds in every reachable state, for any number of
\* concurrent createOrder calls, admins and price locks and with crashes.
THEOREM Invariance == Spec => []IndInv
BY InitInv, StepInv, PTL DEF Spec

\* Every variable keeps its type.
THEOREM TypeCorrect == Spec => []TypeOK
<1>1. IndInv => TypeOK
  BY DEF IndInv
<1> QED BY <1>1, Invariance, PTL

\* createOrder executes a price lock at most once: FOR UPDATE on the lock row
\* and its used flag, under transaction timeouts, crashes and repetition.
THEOREM AtMostOneOrder == Spec => []OneOrderPerLock
<1>1. IndInv => OneOrderPerLock
  BY DEF IndInv
<1> QED BY <1>1, Invariance, PTL

\* A reported order is committed only when the supervisor holds it approved,
\* whatever calls were lost or late and whatever admins and the cron did.
THEOREM NoUnapprovedOrder == Spec => []OrderHasApproval
<1>1. IndInv => OrderHasApproval
  BY DEF IndInv, OrderHasApproval, ReportedOrders, OrderInv, RequestInv, TypeOK
<1> QED BY <1>1, Invariance, PTL

\* settle never leaves a committed order whose trade row has lost it silently.
THEOREM NoLostOrder == Spec => []OrderTraceable
<1>1. IndInv => OrderTraceable
  BY DEF IndInv, OrderTraceable, ReportedOrders, OrderInv, TypeOK
<1> QED BY <1>1, Invariance, PTL

\* A row says APPROVED only of a trade that the supervisor approved, although
\* handlers write statuses from copies read before their calls.
THEOREM ClaimsAlwaysTrue == Spec => []ClaimsTrue
BY Invariance, ClaimsInit, ClaimsStep, PTL DEF Spec

\* However calls are lost or late, transactions roll back and handlers cross,
\* a price is sold as SupervisedOrders says.
THEOREM SupervisionAlwaysKept == Spec => SupervisionKept
BY Invariance, ClaimsAlwaysTrue, PromiseInit, PromiseStep, PTL
   DEF Spec, SupervisionKept, Promise!Spec

=============================================================================
