------------------------------ MODULE Bullion ------------------------------
(***************************************************************************)
(* A coded bullion bar: its assignment to a buyer, the transfer of its      *)
(* title to another user, reports of theft or loss, and its sale back to    *)
(* the shop (buyback).                                                      *)
(*                                                                          *)
(* Every operation is one transaction that locks the row of the code, of    *)
(* the transfer request or of the buyback request.  Those that lock one row *)
(* and write a second one later are two steps: confirm holds the request    *)
(* and then needs the code, a report holds the code and then needs the      *)
(* request, pay holds the buyback request and then needs the code.  Where   *)
(* two of them wait for each other PostgreSQL aborts one (Abort).  What is  *)
(* read before the transaction is a step of its own (the checks before the  *)
(* identity service is asked).                                              *)
(*                                                                          *)
(* The bars an agent holds are left out.                                    *)
(***************************************************************************)
EXTENDS Integers, FiniteSets

CONSTANTS Bars, Users, Admins, Sessions,
          MaxTransfers,    \* bound: transfer requests ever made
          MaxReports,      \* bound: reports ever made
          MaxSales,        \* bound: buyback requests ever made
          Prices,          \* net prices an offer may come to
          DualThreshold,   \* withdrawal.dual_control_threshold
          MaxOpen,         \* open buyback requests a user may have
          NoBar, NoUser, NoAdmin, NoPrice

Transfers == 1 .. MaxTransfers
Reports   == 1 .. MaxReports
Sales     == 1 .. MaxSales

ASSUME BullionAssumption ==
  /\ MaxTransfers \in Nat /\ MaxReports \in Nat /\ MaxSales \in Nat
  /\ Prices \subseteq Nat /\ DualThreshold \in Nat /\ MaxOpen \in Nat
  /\ IsFiniteSet(Users) /\ IsFiniteSet(Bars)
  /\ NoBar \notin Bars /\ NoUser \notin Users /\ NoAdmin \notin Admins
  /\ NoPrice \notin Prices

VARIABLES code,      \* status of the bar's row in hologram_codes
          owner,     \* its ACTIVE row in hologram_ownerships
          transfer,  \* rows of ownership_transfer_requests
          report,    \* rows of hologram_incident_reports
          sale,      \* rows of bullion_buyback_requests
          tx         \* tx[s]: what session s has under way

vars == <<code, owner, transfer, report, sale, tx>>

CodeStatuses == {"UNASSIGNED", "ASSIGNED", "TRANSFER_PENDING",
                 "BUYBACK_PENDING", "REVOKED"}
Transfer == [status: {"none", "PENDING", "CONFIRMED", "REJECTED", "EXPIRED",
                      "CANCELLED"},
             bar: Bars \cup {NoBar}, kind: {"INITIAL_PURCHASE", "GIFT_TRANSFER"},
             to: Users \cup {NoUser}, late: BOOLEAN]
Report   == [status: {"none", "OPEN", "CONFIRMED", "REJECTED", "RECOVERED",
                      "CANCELLED"},
             bar: Bars \cup {NoBar}, by: Users \cup {NoUser}]
SaleStatuses == {"none", "SUBMITTED", "AWAITING_DELIVERY", "RECEIVED",
                 "INSPECTION_PASSED", "OFFERED", "ACCEPTED", "APPROVED",
                 "PAID", "RETURN_PENDING", "RETURNED", "REJECTED", "CANCELLED"}
OPEN_STATUSES == SaleStatuses \ {"none", "PAID", "RETURNED", "REJECTED",
                                 "CANCELLED"}
Sale     == [status: SaleStatuses, bar: Bars \cup {NoBar},
             user: Users \cup {NoUser}, price: Prices \cup {NoPrice},
             agreed: Prices \cup {NoPrice}, late: BOOLEAN,
             approvedBy: Admins \cup {NoAdmin}, paidBy: Admins \cup {NoAdmin}]

NoTransfer == [status |-> "none", bar |-> NoBar, kind |-> "GIFT_TRANSFER",
               to |-> NoUser, late |-> FALSE]
NoReport   == [status |-> "none", bar |-> NoBar, by |-> NoUser]
NoSale     == [status |-> "none", bar |-> NoBar, user |-> NoUser,
               price |-> NoPrice, agreed |-> NoPrice, late |-> FALSE,
               approvedBy |-> NoAdmin, paidBy |-> NoAdmin]

Idle == [step |-> "idle"]
Session ==
  {Idle}
    \cup [step: {"verify", "confirm"}, id: Transfers]
    \cup [step: {"report"}, bar: Bars, by: Users \cup {NoUser}]
    \cup [step: {"pay"}, id: Sales, admin: Admins]

Init ==
  /\ code = [b \in Bars |-> "UNASSIGNED"]
  /\ owner = [b \in Bars |-> NoUser]
  /\ transfer = [t \in Transfers |-> NoTransfer]
  /\ report = [r \in Reports |-> NoReport]
  /\ sale = [k \in Sales |-> NoSale]
  /\ tx = [s \in Sessions |-> Idle]

-----------------------------------------------------------------------------
(* Row locks, and what the services look up. *)

CodeFree(b)     == \A s \in Sessions : ~(tx[s].step = "report" /\ tx[s].bar = b)
TransferFree(t) == \A s \in Sessions : ~(tx[s].step = "confirm" /\ tx[s].id = t)
SaleFree(k)     == \A s \in Sessions : ~(tx[s].step = "pay" /\ tx[s].id = k)

Begin(s, rec) == tx[s] = Idle /\ tx' = [tx EXCEPT ![s] = rec]
End(s)        == tx' = [tx EXCEPT ![s] = Idle]

Active(r, b) ==
  report[r].bar = b /\ report[r].status \in {"OPEN", "CONFIRMED"}

\* assertNoActiveIncident, findActiveIncident
Reported(b) == \E r \in Reports : Active(r, b)

PendingFor(b) == {t \in Transfers : /\ transfer[t].bar = b
                                    /\ transfer[t].status = "PENDING"}

\* The updateMany below waits for the rows that others have locked.
PendingFree(b) == \A t \in PendingFor(b) : TransferFree(t)

cancelPendingForCode(b) ==
  transfer' = [t \in Transfers |-> IF t \in PendingFor(b)
                 THEN [transfer[t] EXCEPT !.status = "CANCELLED"]
                 ELSE transfer[t]]

\* The row a new transfer request, report or buyback request becomes
Next1(f, i) == f[i].status = "none" /\ \A j \in DOMAIN f :
                 j < i => f[j].status # "none"

SetCode(b, status) == code' = [code EXCEPT ![b] = status]

-----------------------------------------------------------------------------
(* Assignment and revocation (hologram.service). *)

assignCode(b, u, other) ==
  /\ CodeFree(b)
  /\ code[b] = "UNASSIGNED"
  /\ ~Reported(b)
  /\ IF other
       THEN \E t \in Transfers :
              /\ Next1(transfer, t)
              /\ transfer' = [transfer EXCEPT ![t] =
                   [status |-> "PENDING", bar |-> b,
                    kind |-> "INITIAL_PURCHASE", to |-> u, late |-> FALSE]]
              /\ SetCode(b, "TRANSFER_PENDING")
              /\ owner' = owner
       ELSE /\ owner' = [owner EXCEPT ![b] = u]
            /\ SetCode(b, "ASSIGNED")
            /\ transfer' = transfer
  /\ UNCHANGED <<report, sale, tx>>

revokeCode(b) ==
  /\ CodeFree(b) /\ PendingFree(b)
  /\ code[b] \in {"UNASSIGNED", "TRANSFER_PENDING"}
  /\ cancelPendingForCode(b)
  /\ SetCode(b, "REVOKED")
  /\ UNCHANGED <<owner, report, sale, tx>>

-----------------------------------------------------------------------------
(* Transfers (hologram-transfer.service). *)

\* initiateByUser
initiate(b, u) ==
  /\ CodeFree(b)
  /\ owner[b] \in Users \ {u}
  /\ code[b] = "ASSIGNED"
  /\ ~Reported(b)
  /\ \E t \in Transfers :
       /\ Next1(transfer, t)
       /\ transfer' = [transfer EXCEPT ![t] =
            [status |-> "PENDING", bar |-> b, kind |-> "GIFT_TRANSFER",
             to |-> u, late |-> FALSE]]
  /\ SetCode(b, "TRANSFER_PENDING")
  /\ UNCHANGED <<owner, report, sale, tx>>

\* Variant: a request that was withdrawn can still be confirmed
ConfirmableWithdrawn(t) ==
  /\ transfer[t].status \in {"PENDING", "CANCELLED"} /\ ~transfer[t].late
  /\ ~Reported(transfer[t].bar)

Confirmable(t) ==
  /\ transfer[t].status = "PENDING" /\ ~transfer[t].late
  /\ ~Reported(transfer[t].bar)

\* confirm, before the identity service is asked
StartConfirm(s, t) ==
  /\ Confirmable(t)
  /\ Begin(s, [step |-> "verify", id |-> t])
  /\ UNCHANGED <<code, owner, transfer, report, sale>>

\* The transaction locks the request and makes the same checks again.
LockConfirm(s) ==
  /\ tx[s].step = "verify"
  /\ TransferFree(tx[s].id)
  /\ Confirmable(tx[s].id)
  /\ tx' = [tx EXCEPT ![s].step = "confirm"]
  /\ UNCHANGED <<code, owner, transfer, report, sale>>

FinishConfirm(s) ==
  /\ tx[s].step = "confirm"
  /\ LET t == tx[s].id
         b == transfer[t].bar
     IN /\ CodeFree(b)
        /\ owner' = [owner EXCEPT ![b] = transfer[t].to]
        /\ transfer' = [transfer EXCEPT ![t].status = "CONFIRMED"]
        /\ SetCode(b, "ASSIGNED")
  /\ End(s)
  /\ UNCHANGED <<report, sale>>

\* Variant: every refused transfer leaves the bar with its owner
RevertToAssigned(t) == SetCode(transfer[t].bar, "ASSIGNED")

revertCodeAfterNonConfirmation(t) ==
  SetCode(transfer[t].bar,
          IF transfer[t].kind = "INITIAL_PURCHASE" THEN "UNASSIGNED"
                                                   ELSE "ASSIGNED")

\* reject by the recipient; expireOne, by the hourly job or a late confirm
NotConfirmed(t, status) ==
  /\ transfer[t].status = "PENDING"
  /\ status = "EXPIRED" => transfer[t].late
  /\ TransferFree(t) /\ CodeFree(transfer[t].bar)
  /\ transfer' = [transfer EXCEPT ![t].status = status]
  /\ revertCodeAfterNonConfirmation(t)
  /\ UNCHANGED <<owner, report, sale, tx>>

rejectTransfer(t) == NotConfirmed(t, "REJECTED")
expireOne(t)      == NotConfirmed(t, "EXPIRED")

TransferDeadline(t) ==
  /\ transfer[t].status = "PENDING" /\ ~transfer[t].late
  /\ transfer' = [transfer EXCEPT ![t].late = TRUE]
  /\ UNCHANGED <<code, owner, report, sale, tx>>

-----------------------------------------------------------------------------
(* Reports of theft or loss (hologram-incident.service). *)

\* Until its insert a report only holds the row of the code.
LockReport(s, b, by) ==
  /\ CodeFree(b)
  /\ ~Reported(b)
  /\ Begin(s, [step |-> "report", bar |-> b, by |-> by])
  /\ UNCHANGED <<code, owner, transfer, report, sale>>

createByOwner(s, b) ==
  /\ owner[b] \in Users
  /\ code[b] # "BUYBACK_PENDING"
  /\ LockReport(s, b, owner[b])

createByAdmin(s, b) ==
  /\ code[b] # "REVOKED"
  /\ LockReport(s, b, NoUser)

\* What becomes of a transfer that is pending: an admin's report looks at its
\* kind, an owner's knows that it is a gift.
CodeAfterReport(b, by) ==
  IF code[b] # "TRANSFER_PENDING" THEN code[b]
  ELSE IF by = NoUser /\ \E t \in PendingFor(b) :
                            transfer[t].kind = "INITIAL_PURCHASE"
    THEN "UNASSIGNED" ELSE "ASSIGNED"

Insert(r, b, by) ==
  report' = [report EXCEPT ![r] =
    [status |-> IF by = NoUser THEN "CONFIRMED" ELSE "OPEN",
     bar |-> b, by |-> by]]

\* Variant: the transfer goes on
FinishReportOnly(s) ==
  /\ tx[s].step = "report"
  /\ \E r \in Reports : Next1(report, r) /\ Insert(r, tx[s].bar, tx[s].by)
  /\ End(s)
  /\ UNCHANGED <<code, owner, transfer, sale>>

FinishReport(s) ==
  /\ tx[s].step = "report"
  /\ LET b == tx[s].bar IN
       /\ IF code[b] = "TRANSFER_PENDING"
            THEN PendingFree(b) /\ cancelPendingForCode(b)
            ELSE transfer' = transfer
       /\ SetCode(b, CodeAfterReport(b, tx[s].by))
       /\ \E r \in Reports : Next1(report, r) /\ Insert(r, b, tx[s].by)
  /\ End(s)
  /\ UNCHANGED <<owner, sale>>

\* TRANSITIONS of a report; cancelByOwner is its OPEN -> CANCELLED
Review(r, status) ==
  /\ \/ report[r].status = "OPEN"
     \/ report[r].status = "CONFIRMED" /\ status \in {"REJECTED", "RECOVERED"}
  /\ status = "CANCELLED" => report[r].by \in Users
  /\ report' = [report EXCEPT ![r].status = status]
  /\ UNCHANGED <<code, owner, transfer, sale, tx>>

-----------------------------------------------------------------------------
(* Buyback (buyback.service). *)

OpenOf(u) == {k \in Sales : sale[k].user = u /\ sale[k].status \in OPEN_STATUSES}

createSale(b) ==
  /\ CodeFree(b)
  /\ owner[b] \in Users
  /\ code[b] = "ASSIGNED"
  /\ ~Reported(b)
  /\ Cardinality(OpenOf(owner[b])) < MaxOpen
  /\ \E k \in Sales :
       /\ Next1(sale, k)
       /\ sale' = [sale EXCEPT ![k] =
            [NoSale EXCEPT !.status = "SUBMITTED", !.bar = b, !.user = owner[b]]]
  /\ SetCode(b, "BUYBACK_PENDING")
  /\ UNCHANGED <<owner, transfer, report, tx>>

\* lockRequest
Allowed(k, from) == SaleFree(k) /\ sale[k].status \in from

\* A step that only moves the request on
Move(k, from, to) ==
  /\ Allowed(k, from)
  /\ sale' = [sale EXCEPT ![k].status = to]
  /\ UNCHANGED <<code, owner, transfer, report, tx>>

\* releaseCode
releaseCode(b) ==
  code' = [code EXCEPT ![b] = IF @ = "BUYBACK_PENDING" THEN "ASSIGNED" ELSE @]

\* ... and one that also gives the bar back
Release(k, from, to) ==
  /\ Allowed(k, from)
  /\ CodeFree(sale[k].bar)
  /\ sale' = [sale EXCEPT ![k].status = to]
  /\ releaseCode(sale[k].bar)
  /\ UNCHANGED <<owner, transfer, report, tx>>

cancelByUser(k) == Release(k, {"SUBMITTED", "AWAITING_DELIVERY"}, "CANCELLED")
rejectSale(k)   == Release(k, {"SUBMITTED", "AWAITING_DELIVERY"}, "REJECTED")
markReturned(k) == Release(k, {"RETURN_PENDING"}, "RETURNED")

accept(k) ==
  Move(k, {"SUBMITTED", "AWAITING_DELIVERY"}, "AWAITING_DELIVERY")
markReceived(k) == Move(k, {"SUBMITTED", "AWAITING_DELIVERY"}, "RECEIVED")
inspect(k, passed) ==
  Move(k, {"RECEIVED", "INSPECTION_PASSED"},
       IF passed THEN "INSPECTION_PASSED" ELSE "RETURN_PENDING")
requestReturn(k) ==
  Move(k, {"RECEIVED", "INSPECTION_PASSED", "OFFERED", "ACCEPTED", "APPROVED"},
       "RETURN_PENDING")

\* The price comes from the weight and the market before the transaction; what
\* is kept of that is the price alone, and any price may come.
offer(k, p) ==
  /\ Allowed(k, {"INSPECTION_PASSED", "OFFERED"})
  /\ sale' = [sale EXCEPT ![k].status = "OFFERED", ![k].late = FALSE,
                          ![k].price = p]
  /\ UNCHANGED <<code, owner, transfer, report, tx>>

\* respondToOffer.  `agreed' keeps what the user said yes to; the call itself
\* carries no price, so it answers the offer that stands when it is served.
AcceptOffer(k) ==
  /\ Allowed(k, {"OFFERED"}) /\ ~sale[k].late
  /\ sale' = [sale EXCEPT ![k].status = "ACCEPTED",
                          ![k].agreed = sale[k].price]
  /\ UNCHANGED <<code, owner, transfer, report, tx>>

DeclineOffer(k) ==
  /\ ~sale[k].late
  /\ Move(k, {"OFFERED"}, "RETURN_PENDING")

OfferDeadline(k) ==
  /\ sale[k].status = "OFFERED" /\ ~sale[k].late /\ SaleFree(k)
  /\ sale' = [sale EXCEPT ![k].late = TRUE]
  /\ UNCHANGED <<code, owner, transfer, report, tx>>

expireOffers(k) == sale[k].late /\ Move(k, {"OFFERED"}, "INSPECTION_PASSED")

approve(k, a) ==
  /\ Allowed(k, {"ACCEPTED"})
  /\ sale' = [sale EXCEPT ![k].status = "APPROVED", ![k].approvedBy = a]
  /\ UNCHANGED <<code, owner, transfer, report, tx>>

\* Variant: only amounts above the threshold need two admins
MayPayAbove(k, a) ==
  sale[k].price > DualThreshold => sale[k].approvedBy # a

MayPay(k, a) ==
  sale[k].price >= DualThreshold => sale[k].approvedBy # a

\* pay: the request is locked, the reports are looked at ...
LockPay(s, k, a) ==
  /\ Allowed(k, {"APPROVED"})
  /\ MayPay(k, a)
  /\ ~Reported(sale[k].bar)
  /\ Begin(s, [step |-> "pay", id |-> k, admin |-> a])
  /\ UNCHANGED <<code, owner, transfer, report, sale>>

\* ... and then the code is locked; the reports are not looked at again.
FinishPay(s) ==
  /\ tx[s].step = "pay"
  /\ LET k == tx[s].id
         b == sale[k].bar
     IN /\ CodeFree(b) /\ code[b] = "BUYBACK_PENDING"
        /\ owner' = [owner EXCEPT ![b] = NoUser]
        /\ PendingFree(b) /\ cancelPendingForCode(b)
        /\ SetCode(b, "UNASSIGNED")
        /\ sale' = [sale EXCEPT ![k].status = "PAID", ![k].paidBy = tx[s].admin]
  /\ End(s)
  /\ UNCHANGED report

\* A deadlock PostgreSQL resolves, an error, a refusal, a crash
Abort(s) ==
  /\ tx[s] # Idle
  /\ End(s)
  /\ UNCHANGED <<code, owner, transfer, report, sale>>

Next ==
  \/ \E b \in Bars :
       \/ \E u \in Users : initiate(b, u) \/ assignCode(b, u, TRUE)
                                          \/ assignCode(b, u, FALSE)
       \/ revokeCode(b) \/ createSale(b)
       \/ \E s \in Sessions : createByOwner(s, b) \/ createByAdmin(s, b)
  \/ \E t \in Transfers :
       \/ rejectTransfer(t) \/ expireOne(t) \/ TransferDeadline(t)
       \/ \E s \in Sessions : StartConfirm(s, t)
  \/ \E r \in Reports :
       \E status \in {"CONFIRMED", "REJECTED", "RECOVERED", "CANCELLED"} :
         Review(r, status)
  \/ \E k \in Sales :
       \/ cancelByUser(k) \/ accept(k) \/ rejectSale(k) \/ markReceived(k)
       \/ \E passed \in BOOLEAN : inspect(k, passed)
       \/ AcceptOffer(k) \/ DeclineOffer(k) \/ OfferDeadline(k)
       \/ expireOffers(k) \/ requestReturn(k) \/ markReturned(k)
       \/ \E a \in Admins : approve(k, a) \/ \E s \in Sessions : LockPay(s, k, a)
       \/ \E p \in Prices : offer(k, p)
  \/ \E s \in Sessions :
       \/ LockConfirm(s) \/ FinishConfirm(s) \/ FinishReport(s)
       \/ FinishPay(s) \/ Abort(s)

Spec == Init /\ [][Next]_vars

-----------------------------------------------------------------------------
(* Properties. *)

\* Every variable keeps the form of its table.
TypeOK ==
  /\ code \in [Bars -> CodeStatuses]
  /\ owner \in [Bars -> Users \cup {NoUser}]
  /\ transfer \in [Transfers -> Transfer]
  /\ report \in [Reports -> Report]
  /\ sale \in [Sales -> Sale]
  /\ tx \in [Sessions -> Session]

SalesOf(b) == {k \in Sales : /\ sale[k].bar = b
                             /\ sale[k].status \in OPEN_STATUSES}

\* The status of a code, its owner, the transfer that is pending and the
\* buyback that is open are written by different services under different
\* locks, and always tell one story: one pending transfer exactly while the
\* code says so, a gift only of an owned bar and a first assignment only of
\* one that nobody owns; one open buyback, by the owner, exactly while the
\* code says so.
OneStory ==
  \A b \in Bars :
    /\ code[b] = "TRANSFER_PENDING" <=> PendingFor(b) # {}
    /\ \A t, q \in PendingFor(b) : t = q
    /\ \A t \in PendingFor(b) :
         transfer[t].kind = "GIFT_TRANSFER" <=> owner[b] # NoUser
    /\ code[b] = "BUYBACK_PENDING" <=> SalesOf(b) # {}
    /\ \A k, q \in SalesOf(b) : k = q
    /\ \A k \in SalesOf(b) : sale[k].user = owner[b]
    /\ code[b] = "ASSIGNED" => owner[b] # NoUser
    /\ code[b] = "UNASSIGNED" => owner[b] = NoUser

\* ``Until the report is closed no transfer is allowed'': a reported bar has no
\* transfer that could still be confirmed, however a confirmation that already
\* passed its checks and the report overlap; and it is reported once
\* (assertNoActiveIncident, hologram-incident.util.ts).
ReportFreezes ==
  \A b \in Bars :
    /\ Reported(b) => PendingFor(b) = {}
    /\ \A r, q \in Reports : Active(r, b) /\ Active(q, b) => r = q

\* A sale is paid at the price its owner agreed to, whatever offers were being
\* computed or expired meanwhile, and a price of the threshold or more is paid
\* by another admin than the one who approved it (offer, respondToOffer, pay).
PaidAsAgreed ==
  \A k \in Sales :
    /\ sale[k].status \in {"ACCEPTED", "APPROVED", "PAID"} =>
         sale[k].price # NoPrice /\ sale[k].price = sale[k].agreed
    /\ sale[k].status = "PAID" /\ sale[k].price >= DualThreshold =>
         sale[k].paidBy # sale[k].approvedBy

\* What BarTitle sees of a bar
InvitedTo(b) == IF PendingFor(b) = {} THEN NoUser
                ELSE transfer[CHOOSE t \in PendingFor(b) : TRUE].to
Agreed(b) ==
  LET A == {k \in SalesOf(b) : sale[k].status \in {"ACCEPTED", "APPROVED"}}
  IN IF A = {} THEN NoPrice ELSE sale[CHOOSE k \in A : TRUE].agreed

Title == INSTANCE BarTitle WITH title <- owner,
                                invited <- [b \in Bars |-> InvitedTo(b)],
                                agreed <- [b \in Bars |-> Agreed(b)]

\* The title to a bar moves only as BarTitle allows: to its first buyer, to the
\* one person its holder invited and who accepted, and back to the shop at a
\* price its holder agreed to (the whole of assign, confirm and pay).
TitleKept == Title!Spec
=============================================================================
