--------------------------- MODULE ZarPayeshTrade ---------------------------
(***************************************************************************)
(* Melted-gold orders that are reported to the trade supervisor (ZarPayesh).*)
(*                                                                          *)
(* One request is one call of TradingService.createOrder (or, for the       *)
(* members of TestRequests, of ZarPayeshTradeService.testReserve).  A       *)
(* request reserves the trade with the supervisor, opens a database         *)
(* transaction that locks the price-lock row, writes the order, approves    *)
(* the trade with the supervisor as the last step INSIDE the transaction,   *)
(* commits, and then settles whatever was left reserved.  Rows of           *)
(* zarpayesh_trades are written outside the transaction, so they survive    *)
(* its rollback.  A cron job and the admin panel run the follow-up, cancel  *)
(* and approve handlers on the same rows, from copies read earlier.         *)
(*                                                                          *)
(* Every remote call is split in two steps, the call and the local write    *)
(* of its outcome; a call whose answer is lost stays in `net' and the       *)
(* supervisor may still execute it at any later time, or never.             *)
(*                                                                          *)
(* One timing assumption of the code is kept: the cron job looks at a row   *)
(* only two minutes after its last update, and the transaction of the       *)
(* request that owns the row lasts at most 45 seconds, so it never picks    *)
(* the row of a request that is still running (see Finished in CronPicks).  *)
(* The admin panel has no such guard and may act on any row at any time.    *)
(*                                                                          *)
(* A run of the cron job reads up to 20 rows at once and then takes them in *)
(* turn, from the copies it read; its Redis lock expires after 55 seconds,  *)
(* which a run with slow calls outlives.  So a turn is an actor of its own  *)
(* here, several turns may be open on one row, and each has its own copy.   *)
(***************************************************************************)
EXTENDS Integers, FiniteSets

CONSTANTS Requests,      \* calls of createOrder and testReserve
          TestRequests,  \* those of them that are admin test reservations
          Unreported,    \* calls of createOrder made while reporting is off
          Locks,         \* rows of price_locks
          Admins,        \* concurrent admin-panel calls
          Crons,         \* concurrent turns of the reconcile job, see below
          NoLock, NoRequest,
          MayCrash       \* whether the API process may die between two steps

ASSUME RequestAssumption ==
  /\ TestRequests \subseteq Requests
  /\ Crons \cap (Requests \cup Admins) = {}
  /\ Requests \cap Admins = {}
  /\ Unreported \subseteq Requests \ TestRequests
  /\ NoLock \notin Locks
  /\ NoRequest \notin Requests
  /\ MayCrash \in BOOLEAN

VARIABLES req,      \* req[r]: program counter and local variables of r
          trade,    \* trade[r]: the zarpayesh_trades row r inserts
          remote,   \* remote[r]: what the supervisor holds for r's number
          net,      \* calls that timed out and may still be executed
          orders,   \* requests whose order is committed as COMPLETED
          used,     \* price_locks.used
          lapsed,   \* price locks whose expires_at has passed
          rowLock,  \* holder of FOR UPDATE on the price-lock row
          age,      \* age of the reservation: fresh, past expireAT, past 24 h
          job       \* job[a]: the supervisor handler actor a is inside

vars == <<req, trade, remote, net, orders, used, lapsed, rowLock, age, job>>

Actors == Requests \cup Admins \cup Crons

RunningPc == {"reserve", "reserved", "refused", "unanswered", "tx", "ordered",
              "approving", "commit", "settle", "cancelling"}
EndPc     == {"done", "crashed"}
ReqRec == [pc : {"start"} \cup RunningPc \cup EndPc,
           lock : Locks \cup {NoLock}, approved : BOOLEAN, committed : BOOLEAN]
Statuses  == {"NONE", "RESERVING", "RESERVED", "APPROVED", "CANCELLED",
              "UNKNOWN", "FAILED"}
Row    == [status : Statuses, code : BOOLEAN, dated : BOOLEAN, order : BOOLEAN,
           review : {"no", "needed", "done"}]
NoRow  == [status |-> "NONE", code |-> FALSE, dated |-> FALSE, order |-> FALSE,
           review |-> "no"]

RemoteStatuses == {"none", "reserved", "approved", "cancelled", "expired"}
Steps   == {"idle", "approve", "approveAns", "verify", "verifyAns",
            "followup", "followupAns", "fresh", "cancel", "cancelAns"}
Answers == RemoteStatuses \cup {"-", "ok", "rejected", "unclear", "final",
                                "gone", "lost"}
JobRec  == [step : Steps, trade : Requests \cup {NoRequest}, snap : Row,
            ans : Answers]
NoJob == [step |-> "idle", trade |-> NoRequest, snap |-> NoRow, ans |-> "-"]

Pending(row) == row.status \in {"RESERVING", "RESERVED", "UNKNOWN"}
Finished(r)  == req[r].pc \in EndPc

TypeOK ==
  /\ req \in [Requests -> ReqRec]
  /\ trade \in [Requests -> Row]
  /\ remote \in [Requests -> RemoteStatuses]
  /\ net \subseteq {"Reserve", "Approve", "Cancel"} \X Requests
  /\ orders \subseteq Requests
  /\ used \subseteq Locks
  /\ lapsed \subseteq Locks
  /\ rowLock \in [Locks -> Requests \cup {NoRequest}]
  /\ age \in [Requests -> {"fresh", "expired", "old"}]
  /\ job \in [Actors -> JobRec]

Init ==
  /\ req = [r \in Requests |-> [pc |-> "start", lock |-> NoLock,
                                approved |-> FALSE, committed |-> FALSE]]
  /\ trade = [r \in Requests |-> NoRow]
  /\ remote = [r \in Requests |-> "none"]
  /\ net = {}
  /\ orders = {}
  /\ used = {}
  /\ lapsed = {}
  /\ rowLock = [l \in Locks |-> NoRequest]
  /\ age = [r \in Requests |-> "fresh"]
  /\ job = [a \in Actors |-> NoJob]

-----------------------------------------------------------------------------
(* Small state updates shared by the actions.                               *)

Goto(r, pc) == req' = [req EXCEPT ![r].pc = pc]

Begin(a, step, r, snap) ==
  job' = [job EXCEPT ![a] = [step |-> step, trade |-> r, snap |-> snap,
                             ans |-> "-"]]
Answered(a, step, ans) ==
  job' = [job EXCEPT ![a].step = step, ![a].ans = ans]
EndJob(a) == job' = [job EXCEPT ![a] = NoJob]

\* The row lock r may hold, given back by commit, rollback or a dead session.
Unlock(r) ==
  rowLock' = [l \in Locks |-> IF rowLock[l] = r THEN NoRequest ELSE rowLock[l]]

HoldsLock(r) == rowLock[req[r].lock] = r

\* Rollback of the order transaction: settle runs next, with committed false.
Rollback(r) == Goto(r, "settle") /\ Unlock(r)

OrderOnLock(l) == \E s \in orders : req[s].lock = l

-----------------------------------------------------------------------------
(* createOrder before the transaction.                                      *)

\* A COMPLETED order already exists for this price lock: it is returned.
ReplayCompleted(r, l) ==
  /\ req[r].pc = "start" /\ r \notin TestRequests
  /\ OrderOnLock(l)
  /\ req' = [req EXCEPT ![r].pc = "done", ![r].lock = l]
  /\ UNCHANGED <<trade, remote, net, orders, used, lapsed, rowLock, age, job>>

\* prepareOrder returns null while reporting is off, and for a lock it cannot
\* process, whose precise error the transaction reports.
StartUnreported(r, l) ==
  /\ req[r].pc = "start" /\ r \notin TestRequests
  /\ ~OrderOnLock(l)
  /\ r \in Unreported \/ l \in used \cup lapsed
  /\ req' = [req EXCEPT ![r].pc = "tx", ![r].lock = l]
  /\ UNCHANGED <<trade, remote, net, orders, used, lapsed, rowLock, age, job>>

\* prepareOrder accepts the lock and inserts the RESERVING row.
StartReserve(r, l) ==
  /\ req[r].pc = "start" /\ r \notin TestRequests
  /\ ~OrderOnLock(l)
  /\ r \notin Unreported /\ l \notin used \cup lapsed
  /\ req' = [req EXCEPT ![r].pc = "reserve", ![r].lock = l]
  /\ trade' = [trade EXCEPT ![r].status = "RESERVING"]
  /\ UNCHANGED <<remote, net, orders, used, lapsed, rowLock, age, job>>

\* testReserve: the same reserve, with source ADMIN_TEST and no price lock.
StartTest(r) ==
  /\ req[r].pc = "start" /\ r \in TestRequests
  /\ Goto(r, "reserve")
  /\ trade' = [trade EXCEPT ![r].status = "RESERVING"]
  /\ UNCHANGED <<remote, net, orders, used, lapsed, rowLock, age, job>>

\* The Reserve call.  Definite refusals that are retried with a new tracking
\* number leave nothing behind and are merged with the final answer.
ReserveCall(r) ==
  /\ req[r].pc = "reserve"
  /\ \/ /\ remote[r] = "none"
        /\ remote' = [remote EXCEPT ![r] = "reserved"]
        /\ Goto(r, "reserved")
        /\ UNCHANGED net
     \/ /\ Goto(r, "refused")
        /\ UNCHANGED <<remote, net>>
     \/ /\ net' = net \cup {<<"Reserve", r>>}
        /\ Goto(r, "unanswered")
        /\ UNCHANGED remote
  /\ UNCHANGED <<trade, orders, used, lapsed, rowLock, age, job>>

\* The local write of the answer.  Only an accepted reservation goes on, and
\* only here does a row learn when its reservation expires, if the answer says.
\* (Kept for test reservations, the only ones that are asked for it.)
ReserveWrite(r) ==
  /\ \/ /\ req[r].pc = "reserved"
        /\ \E dated \in IF r \in TestRequests THEN BOOLEAN ELSE {FALSE} :
             trade' = [trade EXCEPT ![r].status = "RESERVED", ![r].code = TRUE,
                                    ![r].dated = dated]
        /\ Goto(r, IF r \in TestRequests THEN "done" ELSE "tx")
     \/ /\ req[r].pc = "refused"
        /\ trade' = [trade EXCEPT ![r].status = "FAILED"]
        /\ Goto(r, "done")
     \/ /\ req[r].pc = "unanswered"
        /\ trade' = [trade EXCEPT ![r].status = "UNKNOWN"]
        /\ Goto(r, "done")
  /\ UNCHANGED <<remote, net, orders, used, lapsed, rowLock, age, job>>

-----------------------------------------------------------------------------
(* The order transaction.                                                   *)

\* FOR UPDATE on the price lock, then the checks.  A used lock answers with
\* the order that used it (the transaction returns normally); an expired lock
\* or a failed business check rolls back; otherwise the order is written.
TxBegin(r) ==
  /\ req[r].pc = "tx" /\ rowLock[req[r].lock] = NoRequest
  /\ \/ /\ req[r].lock \in used
        /\ req' = [req EXCEPT ![r].pc = "settle",
                              ![r].committed = OrderOnLock(req[r].lock)]
        /\ UNCHANGED rowLock
     \/ /\ req[r].lock \notin used
        /\ Goto(r, "settle")
        /\ UNCHANGED rowLock
     \/ /\ req[r].lock \notin used \cup lapsed
        /\ rowLock' = [rowLock EXCEPT ![req[r].lock] = r]
        /\ Goto(r, "ordered")
  /\ UNCHANGED <<trade, remote, net, orders, used, lapsed, age, job>>

\* The interactive transaction times out while it is open: the database rolls
\* it back and frees its row locks, but the callback goes on until it next
\* uses the transaction.
TxTimeout(r) ==
  /\ req[r].pc \in {"ordered", "approving", "commit"} /\ HoldsLock(r)
  /\ Unlock(r)
  /\ UNCHANGED <<req, trade, remote, net, orders, used, lapsed, age, job>>

\* approveOrder links the row to the order, outside the transaction, and is
\* about to call Approve.  Without a handle the transaction just commits.
LinkOrder(r) ==
  /\ req[r].pc = "ordered"
  /\ IF trade[r].status = "NONE"
       THEN /\ Goto(r, "commit")
            /\ UNCHANGED <<trade, job>>
       ELSE /\ Goto(r, "approving")
            /\ trade' = [trade EXCEPT ![r].order = TRUE]
            /\ Begin(r, "approve", r, NoRow)
  /\ UNCHANGED <<remote, net, orders, used, lapsed, rowLock, age>>

\* Variant: the order is written although the row lock was lost.
CommitUnlocked(r) ==
  /\ req[r].pc = "commit"
  /\ orders' = orders \cup {r}
  /\ used' = used \cup {req[r].lock}
  /\ req' = [req EXCEPT ![r].pc = "settle", ![r].committed = TRUE]
  /\ Unlock(r)
  /\ UNCHANGED <<trade, remote, net, lapsed, age, job>>

\* Commit, commit whose acknowledgement is lost, or rollback.
Commit(r) ==
  /\ req[r].pc = "commit"
  /\ \/ /\ HoldsLock(r)
        /\ orders' = orders \cup {r}
        /\ used' = used \cup {req[r].lock}
        /\ \E ack \in BOOLEAN :
             req' = [req EXCEPT ![r].pc = "settle", ![r].committed = ack]
     \/ /\ Goto(r, "settle")
        /\ UNCHANGED <<orders, used>>
  /\ Unlock(r)
  /\ UNCHANGED <<trade, remote, net, lapsed, age, job>>

-----------------------------------------------------------------------------
(* settle, after the transaction.                                           *)

\* Variant: the rolled-back order is unlinked and nobody is told.
SettleApprovedSilently(r) ==
  /\ req[r].pc = "settle" /\ req[r].approved
  /\ trade' = IF req[r].committed THEN trade
              ELSE [trade EXCEPT ![r].order = FALSE]
  /\ Goto(r, "done")
  /\ UNCHANGED <<remote, net, orders, used, lapsed, rowLock, age, job>>

\* Approved by the supervisor but not committed here: flag for review.
SettleApproved(r) ==
  /\ req[r].pc = "settle" /\ req[r].approved
  /\ trade' = IF req[r].committed THEN trade
              ELSE [trade EXCEPT ![r].order = FALSE, ![r].review = "needed"]
  /\ Goto(r, "done")
  /\ UNCHANGED <<remote, net, orders, used, lapsed, rowLock, age, job>>

\* Not approved: unlink the order and cancel a reservation that still stands.
SettleUnapproved(r) ==
  /\ req[r].pc = "settle" /\ ~req[r].approved
  /\ trade' = [trade EXCEPT ![r].order = FALSE]
  /\ IF trade[r].status = "RESERVED"
       THEN /\ Goto(r, "cancelling")
            /\ Begin(r, "cancel", r, [trade[r] EXCEPT !.order = FALSE])
       ELSE /\ Goto(r, "done")
            /\ UNCHANGED job
  /\ UNCHANGED <<remote, net, orders, used, lapsed, rowLock, age>>

-----------------------------------------------------------------------------
(* approve, verifyByFollowup and markApproved: run by a request inside its  *)
(* transaction and by manualApprove.                                        *)

ApproveCall(a) ==
  /\ job[a].step = "approve"
  /\ LET r == job[a].trade IN
     \/ /\ remote[r] = "reserved"
        /\ remote' = [remote EXCEPT ![r] = "approved"]
        /\ Answered(a, "approveAns", "ok")
        /\ UNCHANGED net
     \/ /\ remote[r] # "approved"
        /\ Answered(a, "approveAns", "rejected")
        /\ UNCHANGED <<remote, net>>
     \/ /\ net' \in {net, net \cup {<<"Approve", r>>}}
        /\ Answered(a, "approveAns", "unclear")
        /\ UNCHANGED remote
  /\ UNCHANGED <<req, trade, orders, used, lapsed, rowLock, age>>

\* The handle is approved: the transaction of a request can be committed.
MarkApproved(a) ==
  /\ trade' = [trade EXCEPT ![job[a].trade].status = "APPROVED"]
  /\ req' = IF a \in Requests
              THEN [req EXCEPT ![a].pc = "commit", ![a].approved = TRUE]
              ELSE req
  /\ EndJob(a)
  /\ UNCHANGED rowLock

\* approve throws: inside a request the transaction is rolled back.
ApproveThrows(a) ==
  /\ EndJob(a)
  /\ IF a \in Requests THEN Rollback(a) ELSE UNCHANGED <<req, rowLock>>

ApproveAns(a) ==
  /\ job[a].step = "approveAns"
  /\ \/ job[a].ans = "ok" /\ MarkApproved(a)
     \/ job[a].ans = "rejected" /\ ApproveThrows(a) /\ UNCHANGED trade
     \/ /\ job[a].ans = "unclear"
        /\ Answered(a, "verify", "-")
        /\ UNCHANGED <<req, trade, rowLock>>
  /\ UNCHANGED <<remote, net, orders, used, lapsed, age>>

\* TxnFollowup: the status the supervisor holds, or no answer.
AskStatus(a, step) ==
  /\ \E ans \in {remote[job[a].trade], "lost"} : Answered(a, step, ans)
  /\ UNCHANGED <<req, trade, remote, net, orders, used, lapsed, rowLock, age>>

VerifyCall(a) == job[a].step = "verify" /\ AskStatus(a, "verifyAns")

\* Variant: a trade that is only reserved passes for approved.
VerifyAnsReservedPasses(a) ==
  /\ job[a].step = "verifyAns"
  /\ IF job[a].ans \in {"approved", "reserved"}
       THEN MarkApproved(a)
       ELSE ApproveThrows(a) /\ UNCHANGED trade
  /\ UNCHANGED <<remote, net, orders, used, lapsed, age>>

VerifyAns(a) ==
  /\ job[a].step = "verifyAns"
  /\ \/ job[a].ans = "approved" /\ MarkApproved(a)
     \/ /\ job[a].ans = "lost"
        /\ trade' = [trade EXCEPT ![job[a].trade].status = "UNKNOWN"]
        /\ ApproveThrows(a)
     \/ /\ job[a].ans \notin {"approved", "lost"}
        /\ ApproveThrows(a)
        /\ UNCHANGED trade
  /\ UNCHANGED <<remote, net, orders, used, lapsed, age>>

-----------------------------------------------------------------------------
(* cancelTrade, followupTrade and applyRemoteApproved.                      *)

\* Variant: the status is synchronised without looking at the order.
RemoteApprovedBlindly(r, snap) == [trade EXCEPT ![r].status = "APPROVED"]

\* The supervisor reports the trade approved: without a completed order it
\* needs review.  The order is looked up through the caller's copy.
RemoteApproved(r, snap) ==
  LET consistent == r \in TestRequests \/ (snap.order /\ r \in orders)
  IN  [trade EXCEPT ![r].status = "APPROVED",
                    ![r].review = IF consistent THEN @ ELSE "needed"]

\* A cancelTrade that returns or throws ends the handler of every caller.
EndHandler(a) ==
  /\ EndJob(a)
  /\ req' = IF a \in Requests THEN [req EXCEPT ![a].pc = "done"] ELSE req

CancelCall(a) ==
  /\ job[a].step = "cancel"
  /\ LET r == job[a].trade IN
     \/ /\ remote[r] = "reserved"
        /\ remote' = [remote EXCEPT ![r] = "cancelled"]
        /\ Answered(a, "cancelAns", "cancelled")
        /\ UNCHANGED net
     \/ /\ remote[r] = "approved"                      \* error 1025
        /\ Answered(a, "cancelAns", "final")
        /\ UNCHANGED <<remote, net>>
     \/ /\ remote[r] \in {"none", "cancelled", "expired"} \* 1006, 1017
        /\ Answered(a, "cancelAns", "gone")
        /\ UNCHANGED <<remote, net>>
     \/ /\ Answered(a, "cancelAns", "rejected")        \* any other code
        /\ UNCHANGED <<remote, net>>
     \/ /\ net' \in {net, net \cup {<<"Cancel", r>>}}
        /\ Answered(a, "cancelAns", "lost")
        /\ UNCHANGED remote
  /\ UNCHANGED <<req, trade, orders, used, lapsed, rowLock, age>>

CancelAns(a) ==
  /\ job[a].step = "cancelAns"
  /\ LET r == job[a].trade
         Set(s) == [trade EXCEPT ![r].status = s]
     IN \/ job[a].ans \in {"cancelled", "gone"} /\ trade' = Set("CANCELLED")
        \/ job[a].ans = "final" /\ trade' = RemoteApproved(r, job[a].snap)
        \/ job[a].ans = "rejected" /\ trade' = Set(job[a].snap.status)
        \/ job[a].ans = "lost" /\ trade' = Set("UNKNOWN")
  /\ EndHandler(a)
  /\ UNCHANGED <<remote, net, orders, used, lapsed, rowLock, age>>

FollowupCall(a) == job[a].step = "followup" /\ AskStatus(a, "followupAns")

FollowupAns(a) ==
  /\ job[a].step = "followupAns"
  /\ LET r == job[a].trade
         snap == job[a].snap
         next == IF a \in Crons THEN [job EXCEPT ![a].step = "fresh"]
                             ELSE [job EXCEPT ![a] = NoJob]
     IN \/ /\ job[a].ans = "lost" \/ (job[a].ans = "none" /\ snap.code)
           /\ EndJob(a)
           /\ UNCHANGED trade
        \/ /\ job[a].ans = "none" /\ ~snap.code
           /\ IF snap.status \in {"RESERVING", "UNKNOWN"}
                THEN /\ trade' = [trade EXCEPT ![r].status = "FAILED"]
                     /\ job' = next
                ELSE /\ EndJob(a)
                     /\ UNCHANGED trade
        \/ /\ job[a].ans = "approved"
           /\ trade' = [RemoteApproved(r, snap) EXCEPT ![r].code = TRUE]
           /\ job' = next
        \/ /\ job[a].ans \in {"cancelled", "expired"}
           /\ trade' = [trade EXCEPT ![r].status = "CANCELLED",
                                     ![r].code = TRUE]
           /\ job' = next
        \/ /\ job[a].ans = "reserved"
           /\ trade' = [trade EXCEPT ![r].status = "RESERVED",
                                     ![r].code = TRUE]
           /\ job' = next
  /\ UNCHANGED <<req, remote, net, orders, used, lapsed, rowLock, age>>

-----------------------------------------------------------------------------
(* reconcile, every minute: one turn on one row.                            *)

\* Variant: reservations that stand are never picked.
CronPicksUnclear(c, r) ==
  /\ job[c].step = "idle"
  /\ Finished(r) /\ trade[r].status \in {"RESERVING", "UNKNOWN"}

\* A test reservation is the admin's until it expires, and for ever when the
\* row does not say when that is.
LeftToAdmin(r) ==
  /\ r \in TestRequests /\ trade[r].status = "RESERVED"
  /\ ~trade[r].dated \/ age[r] = "fresh"

CronPicks(c, r) ==
  /\ job[c].step = "idle"
  /\ Finished(r) /\ Pending(trade[r])
  /\ ~LeftToAdmin(r)

CronFollowup(c, r) ==
  /\ CronPicks(c, r) /\ age[r] # "old"
  /\ Begin(c, "followup", r, trade[r])
  /\ UNCHANGED <<req, trade, remote, net, orders, used, lapsed, rowLock, age>>

CronGivesUp(c, r) ==
  /\ CronPicks(c, r) /\ age[r] = "old"
  /\ trade' = [trade EXCEPT ![r].review = "needed"]
  /\ UNCHANGED <<req, remote, net, orders, used, lapsed, rowLock, age, job>>

\* The row is read again after the follow-up; a reservation without a
\* completed order is cancelled.
CronFresh(c) ==
  /\ job[c].step = "fresh"
  /\ LET r == job[c].trade IN
     \/ /\ ~(trade[r].status = "RESERVED" /\ trade[r].code)
        /\ EndJob(c)
        /\ UNCHANGED trade
     \/ /\ trade[r].status = "RESERVED" /\ trade[r].code
        /\ IF trade[r].order /\ r \in orders
             THEN /\ trade' = [trade EXCEPT ![r].review = "needed"]
                  /\ EndJob(c)
             ELSE /\ Begin(c, "cancel", r, trade[r])
                  /\ UNCHANGED trade
  /\ UNCHANGED <<req, remote, net, orders, used, lapsed, rowLock, age>>

-----------------------------------------------------------------------------
(* The admin panel.                                                         *)

ManualFollowup(a, r) ==
  /\ job[a].step = "idle" /\ trade[r].status # "NONE"
  /\ Begin(a, "followup", r, trade[r])
  /\ UNCHANGED <<req, trade, remote, net, orders, used, lapsed, rowLock, age>>

ManualCancel(a, r) ==
  /\ job[a].step = "idle"
  /\ trade[r].status \in {"RESERVED", "UNKNOWN"} /\ trade[r].code
  /\ Begin(a, "cancel", r, trade[r])
  /\ UNCHANGED <<req, trade, remote, net, orders, used, lapsed, rowLock, age>>

ManualApprove(a, r) ==
  /\ job[a].step = "idle"
  /\ trade[r].status = "RESERVED" /\ trade[r].code
  /\ r \in TestRequests \/ (trade[r].order /\ r \in orders)
  /\ Begin(a, "approve", r, trade[r])
  /\ UNCHANGED <<req, trade, remote, net, orders, used, lapsed, rowLock, age>>

MarkReviewed(r) ==
  /\ trade[r].status # "NONE"
  /\ trade' = [trade EXCEPT ![r].review = "done"]
  /\ UNCHANGED <<req, remote, net, orders, used, lapsed, rowLock, age, job>>

-----------------------------------------------------------------------------
(* The supervisor, the clock and failures.                                  *)

\* A call whose answer was lost is executed late.
ExecuteLate(m) ==
  /\ m \in net
  /\ net' = net \ {m}
  /\ LET r == m[2] IN
     remote' = [remote EXCEPT ![r] =
       CASE m[1] = "Reserve" /\ @ = "none"     -> "reserved"
         [] m[1] = "Approve" /\ @ = "reserved" -> "approved"
         [] m[1] = "Cancel"  /\ @ = "reserved" -> "cancelled"
         [] OTHER -> @]
  /\ UNCHANGED <<req, trade, orders, used, lapsed, rowLock, age, job>>

RemoteExpires(r) ==
  /\ remote[r] = "reserved" /\ age[r] # "fresh"
  /\ remote' = [remote EXCEPT ![r] = "expired"]
  /\ UNCHANGED <<req, trade, net, orders, used, lapsed, rowLock, age, job>>

TradeAges(r) ==
  /\ trade[r].status # "NONE"
  /\ \/ age[r] = "fresh" /\ age' = [age EXCEPT ![r] = "expired"]
     \/ /\ age[r] = "expired" /\ Finished(r)
        /\ age' = [age EXCEPT ![r] = "old"]
  /\ UNCHANGED <<req, trade, remote, net, orders, used, lapsed, rowLock, job>>

PriceLockLapses(l) ==
  /\ l \notin lapsed
  /\ lapsed' = lapsed \cup {l}
  /\ UNCHANGED <<req, trade, remote, net, orders, used, rowLock, age, job>>

\* The process dies: local variables are gone, the open transaction is rolled
\* back; committed rows and the supervisor's state stay.
Crash(r) ==
  /\ MayCrash /\ req[r].pc \in RunningPc
  /\ Goto(r, "crashed")
  /\ Unlock(r)
  /\ EndJob(r)
  /\ UNCHANGED <<trade, remote, net, orders, used, lapsed, age>>

JobCrash(a) ==
  /\ MayCrash /\ a \notin Requests /\ job[a].step # "idle"
  /\ EndJob(a)
  /\ UNCHANGED <<req, trade, remote, net, orders, used, lapsed, rowLock, age>>

-----------------------------------------------------------------------------
RequestStep(r) ==
  \/ \E l \in Locks : ReplayCompleted(r, l) \/ StartUnreported(r, l)
                        \/ StartReserve(r, l)
  \/ StartTest(r) \/ ReserveCall(r) \/ ReserveWrite(r)
  \/ TxBegin(r) \/ LinkOrder(r) \/ Commit(r)
  \/ SettleApproved(r) \/ SettleUnapproved(r)

JobStep(a) ==
  \/ ApproveCall(a) \/ ApproveAns(a) \/ VerifyCall(a) \/ VerifyAns(a)
  \/ CancelCall(a) \/ CancelAns(a) \/ FollowupCall(a) \/ FollowupAns(a)

CronStep(c) ==
  \/ CronFresh(c)
  \/ \E r \in Requests : CronFollowup(c, r) \/ CronGivesUp(c, r)

AdminStep(a) == \E r \in Requests :
  ManualFollowup(a, r) \/ ManualCancel(a, r) \/ ManualApprove(a, r)
    \/ MarkReviewed(r)

Environment ==
  \/ \E m \in net : ExecuteLate(m)
  \/ \E r \in Requests : RemoteExpires(r) \/ TradeAges(r) \/ TxTimeout(r)
                           \/ Crash(r)
  \/ \E l \in Locks : PriceLockLapses(l)
  \/ \E a \in Actors : JobCrash(a)

Next ==
  \/ \E r \in Requests : RequestStep(r)
  \/ \E a \in Actors : JobStep(a)
  \/ \E c \in Crons : CronStep(c)
  \/ \E a \in Admins : AdminStep(a)
  \/ Environment

Spec == Init /\ [][Next]_vars

\* The API process keeps running what it started, the cron job keeps firing,
\* and time passes.  Nothing is assumed of callers, of the admin or of the
\* supervisor: a request need not start and a call may be lost every time.
Fairness ==
  /\ \A r \in Requests : WF_vars(RequestStep(r) /\ req[r].pc # "start")
  /\ \A a \in Actors : WF_vars(JobStep(a))
  /\ \A c \in Crons : WF_vars(CronFresh(c))
  /\ \A r \in Requests : /\ WF_vars(\E c \in Crons : CronFollowup(c, r))
                         /\ WF_vars(\E c \in Crons : CronGivesUp(c, r))
  /\ \A r \in Requests : WF_vars(TradeAges(r))

FairSpec == Spec /\ Fairness

-----------------------------------------------------------------------------
(* Properties.                                                              *)

\* A price lock is executed at most once, however many createOrder calls race
\* on it, time out inside the transaction or are repeated after a rollback.
OneOrderPerLock ==
  \A r, s \in orders : req[r].lock = req[s].lock => r = s

\* The orders the supervisor has to know of.
ReportedOrders == orders \ Unreported

\* No reported order is committed that the supervisor has not approved, whatever
\* was lost, late, cancelled by an admin or answered from a stale copy.
OrderHasApproval == \A r \in ReportedOrders : remote[r] = "approved"

\* A finished request never leaves a completed order that its trade row
\* neither points to nor reports for review (a lost commit acknowledgement
\* makes settle unlink the row of an order that does exist).
OrderTraceable ==
  \A r \in ReportedOrders : req[r].pc = "done" =>
    trade[r].order \/ trade[r].review # "no"

\* What the safety properties rest on: where a request may be, given who holds
\* the row lock, what the supervisor answered and what the trade row says.
RequestInv(r) ==
  LET q == req[r] IN
  /\ q.approved => remote[r] = "approved"
  /\ q.pc \in {"reserve", "reserved"} =>
       r \in TestRequests \/ q.lock \in Locks
  /\ q.pc \in {"tx", "ordered", "approving", "commit"} =>
       r \notin TestRequests /\ q.lock \in Locks
  /\ q.pc = "tx" => \/ trade[r].status # "NONE"
                    \/ r \in Unreported \/ q.lock \in used \cup lapsed
  /\ q.pc \in {"ordered", "approving", "commit"} =>
       trade[r].status # "NONE" \/ r \in Unreported
  /\ q.pc \in {"approving", "commit"} =>
       trade[r].order \/ r \in Unreported
  /\ q.pc = "commit" => q.approved \/ r \in Unreported
OrderInv(r) ==
  r \in orders =>
    /\ req[r].pc \in {"settle", "cancelling"} \cup EndPc
    /\ req[r].lock \in used
    /\ r \notin Unreported =>
         req[r].approved /\ (trade[r].order \/ trade[r].review # "no")
LockInv ==
  \A l \in Locks : rowLock[l] # NoRequest =>
    /\ req[rowLock[l]].lock = l
    /\ req[rowLock[l]].pc \in {"ordered", "approving", "commit"}
    /\ l \notin used
JobInv(a) ==
  LET j == job[a] IN
  /\ j.step # "idle" => j.trade \in Requests
  /\ j.step = "approveAns" /\ j.ans = "ok" => remote[j.trade] = "approved"
  /\ j.step = "verifyAns" /\ j.ans = "approved" => remote[j.trade] = "approved"
  /\ j.step \in {"cancel", "cancelAns"} => j.snap.status # "NONE"
  /\ a \in Requests /\ j.step # "idle" =>
       /\ j.trade = a
       /\ \/ j.step \in {"cancel", "cancelAns"} /\ req[a].pc = "cancelling"
          \/ /\ j.step \in {"approve", "approveAns", "verify", "verifyAns"}
             /\ req[a].pc = "approving"

\* The inductive invariant of the module.
IndInv ==
  /\ TypeOK
  /\ OneOrderPerLock
  /\ \A r \in Requests : RequestInv(r) /\ OrderInv(r)
  /\ LockInv
  /\ \A a \in Actors : JobInv(a)

\* What a row, a copy of it, or an answer says of an approval is true: the
\* supervisor never takes one back.
KnowsTruly(j) ==
  /\ j.step # "idle"
  /\ j.snap.status = "APPROVED" \/ j.ans \in {"ok", "approved", "final"}
  => remote[j.trade] = "approved"
ClaimsTrue ==
  /\ \A r \in Requests : trade[r].status = "APPROVED" => remote[r] = "approved"
  /\ \A a \in Actors : KnowsTruly(job[a])

\* The sale of a price: one order, approved by the supervisor and traceable
\* from its row, through lost and late calls, rollbacks and old copies.
Sold(l) == {r \in orders : req[r].lock = l}
Promise == INSTANCE SupervisedOrders WITH
  sold     <- [l \in Locks |-> Sold(l)],
  approved <- {r \in Requests : remote[r] = "approved"},
  claimed  <- {r \in Requests : trade[r].status = "APPROVED"},
  traced   <- {r \in Requests : trade[r].order \/ trade[r].review # "no"}
SupervisionKept == Promise!Spec

\* Once the request and the cron job have nothing left to do for a trade, its
\* row has told the truth at some point since: closed, approved exactly when
\* the supervisor says so and (unless it is a test) exactly when the order
\* exists; or a person was called in.  The one exception is a test reservation
\* whose row has no expiry (its answer was lost): reconcile leaves it alone.
Agrees(r) ==
  /\ ~Pending(trade[r])
  /\ (trade[r].status = "APPROVED") <=> (remote[r] = "approved")
  /\ r \in TestRequests \/ ((r \in orders) <=> (remote[r] = "approved"))
NeverExpires(r) ==
  r \in TestRequests /\ trade[r].status = "RESERVED" /\ ~trade[r].dated
Converges ==
  \A r \in Requests :
    (Finished(r) /\ trade[r].status # "NONE")
      ~> (Agrees(r) \/ trade[r].review # "no" \/ NeverExpires(r))

\* zarpayesh-trade.service.ts, settle: a trade the supervisor approved whose
\* order is not committed is marked for review.
ApprovedRollbackFlagged ==
  \A r \in Requests \ TestRequests :
    (Finished(r) /\ remote[r] = "approved" /\ r \notin orders)
      ~> (trade[r].review # "no")
=============================================================================
