--------------------------- MODULE BullionProofs ---------------------------
(***************************************************************************)
(* Proofs about Bullion: the tables of a bar tell one story, a report of    *)
(* theft or loss freezes it, and a sale back to the shop is paid as agreed, *)
(* for any bars, users, admins and calls in flight.  And Bullion implements *)
(* BarTitle: every step of the three services is one step of the promise    *)
(* about the title to one bar, or none.                                     *)
(*                                                                          *)
(* OneStory and ReportFreezes are not inductive: they rest on what each     *)
(* call that holds a row knows of it (SessionInv) and on no row being held  *)
(* twice (Apart).                                                           *)
(***************************************************************************)
EXTENDS Bullion, TLAPS

-----------------------------------------------------------------------------
(* The inductive invariant.                                                  *)

\* One bar's part of OneStory and of ReportFreezes
Story(b) ==
  /\ code[b] = "TRANSFER_PENDING" <=> PendingFor(b) # {}
  /\ \A t, q \in PendingFor(b) : t = q
  /\ \A t \in PendingFor(b) :
       transfer[t].kind = "GIFT_TRANSFER" <=> owner[b] # NoUser
  /\ code[b] = "BUYBACK_PENDING" <=> SalesOf(b) # {}
  /\ \A k, q \in SalesOf(b) : k = q
  /\ \A k \in SalesOf(b) : sale[k].user = owner[b]
  /\ code[b] = "ASSIGNED" => owner[b] # NoUser
  /\ code[b] = "UNASSIGNED" => owner[b] = NoUser

Frozen(b) ==
  /\ Reported(b) => PendingFor(b) = {}
  /\ \A r, q \in Reports : Active(r, b) /\ Active(q, b) => r = q

TransferInv(t) ==
  transfer[t].status # "none" => /\ transfer[t].bar \in Bars
                                 /\ transfer[t].to \in Users

SaleInv(k) ==
  /\ sale[k].status # "none" => sale[k].bar \in Bars /\ sale[k].user \in Users
  /\ sale[k].status \in {"OFFERED", "ACCEPTED", "APPROVED", "PAID"} =>
       sale[k].price \in Prices
  /\ sale[k].status \in {"ACCEPTED", "APPROVED", "PAID"} =>
       sale[k].price = sale[k].agreed
  /\ sale[k].status = "PAID" /\ sale[k].price >= DualThreshold =>
       sale[k].paidBy # sale[k].approvedBy

\* What a call that holds a row knows of it
SessionInv(s) ==
  /\ tx[s].step = "confirm" => transfer[tx[s].id].status = "PENDING"
  /\ tx[s].step = "report" =>
       /\ ~Reported(tx[s].bar)
       /\ tx[s].by \in Users => owner[tx[s].bar] \in Users
  /\ tx[s].step = "pay" => /\ sale[tx[s].id].status = "APPROVED"
                           /\ MayPay(tx[s].id, tx[s].admin)

\* No row is held twice.
Apart(s, q) ==
  s # q /\ tx[s].step = tx[q].step =>
    /\ tx[s].step = "confirm" => tx[s].id # tx[q].id
    /\ tx[s].step = "report" => tx[s].bar # tx[q].bar
    /\ tx[s].step = "pay" => tx[s].id # tx[q].id

IndInv ==
  /\ TypeOK
  /\ \A b \in Bars : Story(b) /\ Frozen(b)
  /\ \A t \in Transfers : TransferInv(t)
  /\ \A k \in Sales : SaleInv(k)
  /\ \A s \in Sessions : SessionInv(s)
  /\ \A s, q \in Sessions : Apart(s, q)

-----------------------------------------------------------------------------
(* Types.                                                                    *)

\* What the step of a call says about its other fields
LEMMA Calls ==
  ASSUME TypeOK, NEW s \in Sessions
  PROVE  /\ tx[s] \in Session
         /\ tx[s].step \in {"verify", "confirm"} => tx[s].id \in Transfers
         /\ tx[s].step = "report" => /\ tx[s].bar \in Bars
                                     /\ tx[s].by \in Users \cup {NoUser}
         /\ tx[s].step = "pay" => tx[s].id \in Sales /\ tx[s].admin \in Admins
<1>1. tx[s] \in Session
  BY DEF TypeOK
<1> DEFINE c == tx[s]
<1> HIDE DEF c
<1>2. ASSUME c \in Session
      PROVE  /\ c.step \in {"verify", "confirm"} => c.id \in Transfers
             /\ c.step = "report" => c.bar \in Bars /\ c.by \in Users \cup {NoUser}
             /\ c.step = "pay" => c.id \in Sales /\ c.admin \in Admins
  BY <1>2 DEF Session, Idle
<1> QED BY <1>1, <1>2 DEF c

\* A call ends, or begins: one entry of tx is replaced.
LEMMA TxType ==
  ASSUME TypeOK, NEW s \in Sessions, NEW x \in Session, tx' = [tx EXCEPT ![s] = x]
  PROVE  /\ tx' \in [Sessions -> Session] /\ tx'[s] = x
         /\ \A q \in Sessions \ {s} : tx'[q] = tx[q]
BY DEF TypeOK

LEMMA EndType ==
  ASSUME TypeOK, NEW s \in Sessions, End(s)
  PROVE  /\ tx' \in [Sessions -> Session] /\ tx'[s].step = "idle"
         /\ \A q \in Sessions \ {s} : tx'[q] = tx[q]
<1>1. Idle \in Session /\ Idle.step = "idle"
  BY DEF Session, Idle
<1> QED BY <1>1, TxType DEF End

\* The row of a sale after a step that keeps bar and user
LEMMA SaleRow ==
  ASSUME TypeOK, NEW k \in Sales
  PROVE  sale[k] \in Sale /\ sale[k].status \in SaleStatuses
BY DEF TypeOK, Sale

-----------------------------------------------------------------------------
(* A sale moves on.                                                          *)

\* Whatever is written to an open sale that is not held and stays open with
\* its bar and its user, only the sale's own part of the invariant is at stake.
LEMMA SaleStep ==
  ASSUME IndInv, NEW k \in Sales, NEW x \in Sale,
         SaleFree(k), sale' = [sale EXCEPT ![k] = x],
         UNCHANGED <<code, owner, transfer, report, tx>>,
         sale[k].status \in OPEN_STATUSES, x.status \in OPEN_STATUSES,
         x.bar = sale[k].bar, x.user = sale[k].user, SaleInv(k)'
  PROVE  IndInv'
<1>0. TypeOK
  BY DEF IndInv
<1>1. /\ sale'[k] = x /\ sale' \in [Sales -> Sale]
      /\ \A q \in Sales \ {k} : sale'[q] = sale[q]
  BY <1>0 DEF TypeOK
<1>2. TypeOK'
  BY <1>0, <1>1 DEF TypeOK
<1>3. ASSUME NEW b \in Bars PROVE Story(b)' /\ Frozen(b)'
  <2>1. SalesOf(b)' = SalesOf(b) /\ PendingFor(b)' = PendingFor(b)
    BY <1>1 DEF SalesOf, PendingFor
  <2>2. \A q \in SalesOf(b) : q \in Sales /\ sale'[q].user = sale[q].user
    BY <1>1 DEF SalesOf
  <2> QED BY <2>1, <2>2 DEF IndInv, Story, Frozen, Reported, Active
<1>4. \A q \in Sales : SaleInv(q)'
  BY <1>1 DEF IndInv, SaleInv
<1>5. ASSUME NEW s \in Sessions PROVE SessionInv(s)'
  <2>1. tx[s].step = "pay" => tx[s].id \in Sales \ {k}
    BY <1>0, Calls DEF SaleFree
  <2> QED BY <1>1, <2>1 DEF IndInv, SessionInv, Reported, Active, MayPay
<1> QED BY <1>2, <1>3, <1>4, <1>5 DEF IndInv, TransferInv, Apart

\* The steps that only move a sale on
LEMMA MoveInv ==
  ASSUME IndInv, NEW k \in Sales, NEW from \in SUBSET OPEN_STATUSES,
         NEW to \in OPEN_STATUSES, Move(k, from, to),
         to \notin {"OFFERED", "ACCEPTED", "APPROVED"}
  PROVE  IndInv'
<1> DEFINE x == [sale[k] EXCEPT !.status = to]
<1>0. /\ TypeOK /\ SaleInv(k) /\ SaleFree(k) /\ sale[k].status \in OPEN_STATUSES
      /\ UNCHANGED <<code, owner, transfer, report, tx>>
      /\ sale' = [sale EXCEPT ![k] = x]
  BY DEF IndInv, Move, Allowed
<1>1. sale[k] \in Sale /\ to \in SaleStatuses
  BY <1>0, SaleRow DEF OPEN_STATUSES
<1>2. x \in Sale /\ x.status = to /\ x.bar = sale[k].bar /\ x.user = sale[k].user
  BY <1>1 DEF Sale
<1> HIDE DEF x
<1>3. sale'[k] = x
  BY <1>0 DEF TypeOK
<1>4. SaleInv(k)'
  BY <1>0, <1>2, <1>3 DEF SaleInv, OPEN_STATUSES
<1> QED BY <1>0, <1>2, <1>4, SaleStep

LEMMA MovesInv ==
  ASSUME IndInv, NEW k \in Sales,
         \/ accept(k) \/ markReceived(k) \/ requestReturn(k)
         \/ DeclineOffer(k) \/ expireOffers(k)
         \/ \E passed \in BOOLEAN : inspect(k, passed)
  PROVE  IndInv'
<1>1. \E from \in SUBSET OPEN_STATUSES :
        \E to \in {"AWAITING_DELIVERY", "RECEIVED", "INSPECTION_PASSED",
                   "RETURN_PENDING"} : Move(k, from, to)
  <2>1. CASE accept(k)
    BY <2>1 DEF accept, OPEN_STATUSES, SaleStatuses
  <2>2. CASE markReceived(k)
    BY <2>2 DEF markReceived, OPEN_STATUSES, SaleStatuses
  <2>3. CASE requestReturn(k)
    BY <2>3 DEF requestReturn, OPEN_STATUSES, SaleStatuses
  <2>4. CASE DeclineOffer(k)
    BY <2>4 DEF DeclineOffer, OPEN_STATUSES, SaleStatuses
  <2>5. CASE expireOffers(k)
    BY <2>5 DEF expireOffers, OPEN_STATUSES, SaleStatuses
  <2>6. CASE \E passed \in BOOLEAN : inspect(k, passed)
    <3>1. PICK passed \in BOOLEAN : inspect(k, passed)
      BY <2>6
    <3> QED BY <3>1 DEF inspect, OPEN_STATUSES, SaleStatuses
  <2> QED BY <2>1, <2>2, <2>3, <2>4, <2>5, <2>6
<1>2. PICK from \in SUBSET OPEN_STATUSES,
           to \in {"AWAITING_DELIVERY", "RECEIVED", "INSPECTION_PASSED",
                   "RETURN_PENDING"} : Move(k, from, to)
  BY <1>1
<1>3. to \in OPEN_STATUSES
  BY DEF OPEN_STATUSES, SaleStatuses
<1> QED BY <1>2, <1>3, MoveInv

LEMMA offerInv ==
  ASSUME IndInv, NEW k \in Sales, NEW p \in Prices, offer(k, p)
  PROVE  IndInv'
<1> DEFINE x == [sale[k] EXCEPT !.status = "OFFERED", !.late = FALSE, !.price = p]
<1>0. /\ TypeOK /\ SaleInv(k) /\ SaleFree(k)
      /\ sale[k].status \in {"INSPECTION_PASSED", "OFFERED"}
      /\ UNCHANGED <<code, owner, transfer, report, tx>>
      /\ sale' = [sale EXCEPT ![k] = x]
  BY DEF IndInv, offer, Allowed
<1>1. /\ "OFFERED" \in SaleStatuses /\ "OFFERED" \in OPEN_STATUSES
      /\ sale[k].status \in OPEN_STATUSES /\ sale[k] \in Sale
  BY <1>0, SaleRow DEF OPEN_STATUSES, SaleStatuses
<1>2. x \in Sale
  BY <1>1 DEF Sale
<1>3. /\ x.status = "OFFERED" /\ x.bar = sale[k].bar /\ x.user = sale[k].user
      /\ x.price = p
  BY <1>1 DEF Sale
<1> HIDE DEF x
<1>4. sale'[k] = x
  BY <1>0 DEF TypeOK
<1>5. SaleInv(k)'
  BY <1>0, <1>3, <1>4 DEF SaleInv
<1> QED BY <1>0, <1>1, <1>2, <1>3, <1>5, SaleStep

LEMMA AcceptOfferInv ==
  ASSUME IndInv, NEW k \in Sales, AcceptOffer(k)
  PROVE  IndInv'
<1> DEFINE p == sale[k].price
           x == [sale[k] EXCEPT !.status = "ACCEPTED", !.agreed = p]
<1>0. /\ TypeOK /\ SaleInv(k) /\ SaleFree(k) /\ sale[k].status = "OFFERED"
      /\ UNCHANGED <<code, owner, transfer, report, tx>>
      /\ sale' = [sale EXCEPT ![k] = x]
  BY DEF IndInv, AcceptOffer, Allowed
<1>1. /\ "ACCEPTED" \in SaleStatuses /\ "ACCEPTED" \in OPEN_STATUSES
      /\ sale[k].status \in OPEN_STATUSES /\ sale[k] \in Sale /\ p \in Prices
  BY <1>0, SaleRow DEF OPEN_STATUSES, SaleStatuses, SaleInv
<1>2. x \in Sale
  BY <1>1 DEF Sale
<1>3. /\ x.status = "ACCEPTED" /\ x.bar = sale[k].bar /\ x.user = sale[k].user
      /\ x.price = p /\ x.agreed = p
  BY <1>1 DEF Sale
<1> HIDE DEF x
<1>4. sale'[k] = x
  BY <1>0 DEF TypeOK
<1>5. SaleInv(k)'
  BY <1>0, <1>1, <1>3, <1>4 DEF SaleInv
<1> QED BY <1>0, <1>1, <1>2, <1>3, <1>5, SaleStep

LEMMA OfferDeadlineInv ==
  ASSUME IndInv, NEW k \in Sales, OfferDeadline(k)
  PROVE  IndInv'
<1> DEFINE x == [sale[k] EXCEPT !.late = TRUE]
<1>0. /\ TypeOK /\ SaleInv(k) /\ SaleFree(k) /\ sale[k].status = "OFFERED"
      /\ UNCHANGED <<code, owner, transfer, report, tx>>
      /\ sale' = [sale EXCEPT ![k] = x]
  BY DEF IndInv, OfferDeadline
<1>1. sale[k].status \in OPEN_STATUSES /\ sale[k] \in Sale
  BY <1>0, SaleRow DEF OPEN_STATUSES, SaleStatuses
<1>2. /\ x \in Sale /\ x.status = sale[k].status /\ x.bar = sale[k].bar
      /\ x.user = sale[k].user /\ x.price = sale[k].price
  BY <1>1 DEF Sale
<1> HIDE DEF x
<1>3. sale'[k] = x
  BY <1>0 DEF TypeOK
<1>4. SaleInv(k)'
  BY <1>0, <1>2, <1>3 DEF SaleInv
<1> QED BY <1>0, <1>1, <1>2, <1>4, SaleStep

LEMMA approveInv ==
  ASSUME IndInv, NEW k \in Sales, NEW a \in Admins, approve(k, a)
  PROVE  IndInv'
<1> DEFINE x == [sale[k] EXCEPT !.status = "APPROVED", !.approvedBy = a]
<1>0. /\ TypeOK /\ SaleInv(k) /\ SaleFree(k) /\ sale[k].status = "ACCEPTED"
      /\ UNCHANGED <<code, owner, transfer, report, tx>>
      /\ sale' = [sale EXCEPT ![k] = x]
  BY DEF IndInv, approve, Allowed
<1>1. /\ "APPROVED" \in SaleStatuses /\ "APPROVED" \in OPEN_STATUSES
      /\ sale[k].status \in OPEN_STATUSES /\ sale[k] \in Sale
  BY <1>0, SaleRow DEF OPEN_STATUSES, SaleStatuses
<1>2. x \in Sale
  BY <1>1 DEF Sale
<1>3. /\ x.status = "APPROVED" /\ x.bar = sale[k].bar /\ x.user = sale[k].user
      /\ x.price = sale[k].price /\ x.agreed = sale[k].agreed
  BY <1>1 DEF Sale
<1> HIDE DEF x
<1>4. sale'[k] = x
  BY <1>0 DEF TypeOK
<1>5. SaleInv(k)'
  BY <1>0, <1>3, <1>4 DEF SaleInv
<1> QED BY <1>0, <1>1, <1>2, <1>3, <1>5, SaleStep

-----------------------------------------------------------------------------
(* A step on the code of one bar.                                            *)

\* The rows that changed are the bar's own before and after, or new.
OwnRows(b) ==
  /\ \A c \in Bars \ {b} : code'[c] = code[c] /\ owner'[c] = owner[c]
  /\ \A t \in Transfers : \/ transfer'[t] = transfer[t]
                          \/ /\ transfer'[t].bar = b
                             /\ transfer[t].status = "none" \/ transfer[t].bar = b
  /\ \A k \in Sales : \/ sale'[k] = sale[k]
                      \/ /\ sale'[k].bar = b
                         /\ sale[k].status = "none" \/ sale[k].bar = b
  /\ \A r \in Reports : \/ report'[r] = report[r]
                        \/ /\ report'[r].bar = b
                           /\ report[r].status = "none" \/ report[r].bar = b

LEMMA OtherBars ==
  ASSUME IndInv, NEW b \in Bars, OwnRows(b), NEW c \in Bars \ {b}
  PROVE  Story(c)' /\ Frozen(c)' /\ (Reported(c)' <=> Reported(c))
<1>1. /\ PendingFor(c)' = PendingFor(c)
      /\ \A t \in PendingFor(c) : t \in Transfers /\ transfer'[t] = transfer[t]
  BY DEF OwnRows, PendingFor
<1>2. /\ SalesOf(c)' = SalesOf(c)
      /\ \A k \in SalesOf(c) : k \in Sales /\ sale'[k] = sale[k]
  BY DEF OwnRows, SalesOf, OPEN_STATUSES
<1>3. \A r \in Reports : Active(r, c)' <=> Active(r, c)
  BY DEF OwnRows, Active
<1>4. code'[c] = code[c] /\ owner'[c] = owner[c] /\ Story(c) /\ Frozen(c)
  BY DEF OwnRows, IndInv
<1>5. Reported(c)' <=> Reported(c)
  BY <1>3 DEF Reported
<1>6. Frozen(c)'
  BY <1>1, <1>3, <1>4, <1>5 DEF Frozen
<1>7. Story(c)'
  BY <1>1, <1>2, <1>4 DEF Story
<1> QED BY <1>5, <1>6, <1>7

\* No call but those that end holds a row that changes.
Unheld(b) ==
  \A s \in Sessions :
    /\ tx'[s] = tx[s] \/ tx'[s].step = "idle"
    /\ tx'[s].step = "report" => tx[s].bar # b
    /\ tx'[s].step = "confirm" => transfer'[tx[s].id] = transfer[tx[s].id]
    /\ tx'[s].step = "pay" => sale'[tx[s].id] = sale[tx[s].id]

LEMMA BarStep ==
  ASSUME IndInv, TypeOK', NEW b \in Bars, OwnRows(b), Unheld(b),
         Story(b)', Frozen(b)',
         \A t \in Transfers : TransferInv(t)', \A k \in Sales : SaleInv(k)'
  PROVE  IndInv'
<1>1. \A c \in Bars : Story(c)' /\ Frozen(c)'
  BY OtherBars
<1>2. ASSUME NEW s \in Sessions PROVE SessionInv(s)'
  <2>1. CASE tx'[s].step = "idle"
    BY <2>1 DEF SessionInv
  <2>2. CASE tx'[s] = tx[s]
    <3>1. TypeOK /\ SessionInv(s)
      BY DEF IndInv
    <3>2. CASE tx[s].step = "report"
      <4>1. tx[s].bar \in Bars \ {b}
        BY <2>2, <3>1, <3>2, Calls DEF Unheld
      <4>2. owner'[tx[s].bar] = owner[tx[s].bar]
        BY <4>1 DEF OwnRows
      <4>3. Reported(tx[s].bar)' <=> Reported(tx[s].bar)
        <5> DEFINE c == tx[s].bar
        <5>1. c \in Bars \ {b}
          BY <4>1
        <5> HIDE DEF c
        <5>2. \A r \in Reports : Active(r, c)' <=> Active(r, c)
          <6>1. c' = c
            BY <2>2 DEF c
          <6> QED BY <5>1, <6>1 DEF OwnRows, Active
        <5>3. c' = c
          BY <2>2 DEF c
        <5>4. Reported(c)' <=> Reported(c)
          BY <5>2, <5>3 DEF Reported
        <5> QED BY <5>4 DEF c
      <4> QED BY <2>2, <3>1, <3>2, <4>2, <4>3 DEF SessionInv
    <3>3. CASE tx[s].step = "confirm"
      BY <2>2, <3>1, <3>3 DEF SessionInv, Unheld
    <3>4. CASE tx[s].step = "pay"
      BY <2>2, <3>1, <3>4 DEF SessionInv, Unheld, MayPay
    <3>5. CASE tx[s].step \notin {"report", "confirm", "pay"}
      BY <2>2, <3>5 DEF SessionInv
    <3> QED BY <3>2, <3>3, <3>4, <3>5
  <2> QED BY <2>1, <2>2 DEF Unheld
<1>3. \A s, q \in Sessions : Apart(s, q)'
  BY DEF IndInv, Unheld, Apart
<1> QED BY <1>1, <1>2, <1>3 DEF IndInv

\* The pending transfers of a bar are withdrawn.
LEMMA Withdrawn ==
  ASSUME IndInv, NEW b \in Bars, cancelPendingForCode(b)
  PROVE  /\ transfer' \in [Transfers -> Transfer]
         /\ PendingFor(b)' = {}
         /\ \A t \in Transfers : \/ transfer'[t] = transfer[t]
                                 \/ /\ transfer'[t].bar = b /\ transfer[t].bar = b
                                    /\ t \in PendingFor(b)
         /\ \A t \in Transfers : TransferInv(t)'
<1>1. transfer \in [Transfers -> Transfer]
  BY DEF IndInv, TypeOK
<1>2. ASSUME NEW t \in Transfers
      PROVE  LET x == [transfer[t] EXCEPT !.status = "CANCELLED"] IN
             /\ x \in Transfer /\ x.status = "CANCELLED"
             /\ x.bar = transfer[t].bar /\ x.to = transfer[t].to
  BY <1>1 DEF Transfer
<1>3. ASSUME NEW t \in Transfers
      PROVE  /\ transfer'[t] \in Transfer
             /\ t \in PendingFor(b) => /\ transfer'[t].status = "CANCELLED"
                                       /\ transfer'[t].bar = transfer[t].bar
                                       /\ transfer'[t].to = transfer[t].to
             /\ t \notin PendingFor(b) => transfer'[t] = transfer[t]
  BY <1>1, <1>2 DEF cancelPendingForCode
<1>4. transfer' \in [Transfers -> Transfer]
  BY <1>3 DEF cancelPendingForCode
<1>5. \A t \in PendingFor(b) : /\ transfer[t].bar = b
                               /\ transfer[t].status = "PENDING"
  BY DEF PendingFor
<1>6. PendingFor(b)' = {}
  BY <1>3 DEF PendingFor
<1>7. \A t \in Transfers : TransferInv(t)'
  BY <1>3, <1>5 DEF TransferInv, IndInv
<1> QED BY <1>3, <1>4, <1>5, <1>6, <1>7

\* A new transfer request of a bar that has none pending
LEMMA Invited ==
  ASSUME IndInv, NEW b \in Bars, NEW x \in Transfer, NEW t \in Transfers,
         x.status = "PENDING", x.bar = b, x.to \in Users, PendingFor(b) = {},
         transfer' = [transfer EXCEPT ![t] = x]
  PROVE  /\ transfer' \in [Transfers -> Transfer]
         /\ PendingFor(b)' = {t} /\ transfer'[t] = x
         /\ \A q \in Transfers \ {t} : transfer'[q] = transfer[q]
         /\ \A q \in Transfers : TransferInv(q)'
<1>1. /\ transfer' \in [Transfers -> Transfer] /\ transfer'[t] = x
      /\ \A q \in Transfers \ {t} : transfer'[q] = transfer[q]
  BY DEF IndInv, TypeOK
<1>2. PendingFor(b)' = {t}
  BY <1>1 DEF PendingFor
<1>3. \A q \in Transfers : TransferInv(q)'
  BY <1>1 DEF TransferInv, IndInv
<1> QED BY <1>1, <1>2, <1>3

-----------------------------------------------------------------------------
(* Assignment, revocation and invitation.                                    *)

\* A code that is free of transfers and sales says so.
LEMMA Settled ==
  ASSUME IndInv, NEW b \in Bars
  PROVE  /\ code[b] # "TRANSFER_PENDING" => PendingFor(b) = {}
         /\ code[b] # "BUYBACK_PENDING" => SalesOf(b) = {}
         /\ Story(b) /\ Frozen(b)
BY DEF IndInv, Story

\* Who may hold a row while the code of b is free and b has nothing pending
LEMMA NobodyHolds ==
  ASSUME IndInv, NEW b \in Bars, CodeFree(b), UNCHANGED <<sale, tx>>,
         \A t \in Transfers : transfer[t].status = "PENDING" =>
           transfer'[t] = transfer[t]
  PROVE  Unheld(b)
<1>1. TypeOK /\ \A s \in Sessions : SessionInv(s)
  BY DEF IndInv
<1>2. ASSUME NEW s \in Sessions, tx[s].step = "confirm"
      PROVE  transfer'[tx[s].id] = transfer[tx[s].id]
  BY <1>1, <1>2, Calls DEF SessionInv
<1>3. ASSUME NEW s \in Sessions, tx[s].step = "report"
      PROVE  tx[s].bar # b
  BY <1>3 DEF CodeFree
<1> QED BY <1>2, <1>3 DEF Unheld

LEMMA assignDirect ==
  ASSUME IndInv, NEW b \in Bars, NEW u \in Users, assignCode(b, u, FALSE)
  PROVE  IndInv'
<1>0. /\ TypeOK /\ CodeFree(b) /\ code[b] = "UNASSIGNED"
      /\ owner' = [owner EXCEPT ![b] = u] /\ code' = [code EXCEPT ![b] = "ASSIGNED"]
      /\ UNCHANGED <<transfer, report, sale, tx>>
  BY DEF IndInv, assignCode, SetCode
<1>1. PendingFor(b) = {} /\ SalesOf(b) = {} /\ Frozen(b)
  BY <1>0, Settled
<1>2. /\ code'[b] = "ASSIGNED" /\ owner'[b] = u /\ u # NoUser
      /\ \A c \in Bars \ {b} : code'[c] = code[c] /\ owner'[c] = owner[c]
  BY <1>0, BullionAssumption DEF TypeOK
<1>3. TypeOK'
  BY <1>0 DEF TypeOK, CodeStatuses
<1>4. PendingFor(b)' = {} /\ SalesOf(b)' = {}
  BY <1>0, <1>1 DEF PendingFor, SalesOf
<1>5. Story(b)'
  BY <1>2, <1>4 DEF Story
<1>6. Frozen(b)'
  BY <1>0, <1>1, <1>4 DEF Frozen, Active
<1>7. OwnRows(b)
  BY <1>0, <1>2 DEF OwnRows
<1>8. Unheld(b)
  BY <1>0, NobodyHolds
<1>9. (\A t \in Transfers : TransferInv(t)') /\ \A k \in Sales : SaleInv(k)'
  BY <1>0 DEF IndInv, TransferInv, SaleInv
<1> QED BY <1>3, <1>5, <1>6, <1>7, <1>8, <1>9, BarStep

\* A first assignment to another person, and a gift
LEMMA InviteInv ==
  ASSUME IndInv, NEW b \in Bars, NEW x \in Transfer, NEW t \in Transfers,
         x.status = "PENDING", x.bar = b, x.to \in Users,
         CodeFree(b), ~Reported(b), code[b] \in {"UNASSIGNED", "ASSIGNED"},
         x.kind = "GIFT_TRANSFER" <=> code[b] = "ASSIGNED",
         transfer[t].status = "none",
         transfer' = [transfer EXCEPT ![t] = x],
         code' = [code EXCEPT ![b] = "TRANSFER_PENDING"],
         UNCHANGED <<owner, report, sale, tx>>
  PROVE  IndInv'
<1>0. TypeOK
  BY DEF IndInv
<1>1. PendingFor(b) = {} /\ SalesOf(b) = {} /\ Story(b) /\ Frozen(b)
  BY Settled
<1>2. /\ transfer' \in [Transfers -> Transfer]
      /\ PendingFor(b)' = {t} /\ transfer'[t] = x
      /\ \A q \in Transfers \ {t} : transfer'[q] = transfer[q]
      /\ \A q \in Transfers : TransferInv(q)'
  BY <1>1, Invited
<1>3. /\ code'[b] = "TRANSFER_PENDING"
      /\ \A c \in Bars \ {b} : code'[c] = code[c]
  BY <1>0 DEF TypeOK
<1>4. TypeOK'
  BY <1>0, <1>2 DEF TypeOK, CodeStatuses
<1>5. SalesOf(b)' = {} /\ ~Reported(b)'
  BY <1>1 DEF SalesOf, Reported, Active
<1>6. x.kind = "GIFT_TRANSFER" <=> owner[b] # NoUser
  BY <1>1 DEF Story
<1>7. Story(b)'
  BY <1>2, <1>3, <1>5, <1>6 DEF Story
<1>8. Frozen(b)'
  BY <1>1, <1>5 DEF Frozen, Active
<1>9. OwnRows(b)
  BY <1>2, <1>3 DEF OwnRows
<1>10. Unheld(b)
  BY <1>2, NobodyHolds
<1>11. \A k \in Sales : SaleInv(k)'
  BY DEF IndInv, SaleInv
<1> QED BY <1>2, <1>4, <1>7, <1>8, <1>9, <1>10, <1>11, BarStep

LEMMA assignInv ==
  ASSUME IndInv, NEW b \in Bars, NEW u \in Users,
         assignCode(b, u, TRUE) \/ initiate(b, u)
  PROVE  IndInv'
<1> DEFINE x(kind) == [status |-> "PENDING", bar |-> b, kind |-> kind, to |-> u,
                       late |-> FALSE]
<1>0. ASSUME NEW kind \in {"INITIAL_PURCHASE", "GIFT_TRANSFER"}
      PROVE  /\ x(kind) \in Transfer /\ x(kind).status = "PENDING"
             /\ x(kind).bar = b /\ x(kind).to \in Users /\ x(kind).kind = kind
  BY DEF Transfer
<1>1. CASE assignCode(b, u, TRUE)
  <2>1. PICK t \in Transfers :
          /\ transfer[t].status = "none"
          /\ transfer' = [transfer EXCEPT ![t] = x("INITIAL_PURCHASE")]
    BY <1>1 DEF assignCode, Next1
  <2>2. /\ CodeFree(b) /\ ~Reported(b) /\ code[b] = "UNASSIGNED"
        /\ code' = [code EXCEPT ![b] = "TRANSFER_PENDING"]
        /\ UNCHANGED <<owner, report, sale, tx>>
    BY <1>1 DEF assignCode, SetCode
  <2> HIDE DEF x
  <2> QED BY <1>0, <2>1, <2>2, InviteInv
<1>2. CASE initiate(b, u)
  <2>1. PICK t \in Transfers :
          /\ transfer[t].status = "none"
          /\ transfer' = [transfer EXCEPT ![t] = x("GIFT_TRANSFER")]
    BY <1>2 DEF initiate, Next1
  <2>2. /\ CodeFree(b) /\ ~Reported(b) /\ code[b] = "ASSIGNED"
        /\ code' = [code EXCEPT ![b] = "TRANSFER_PENDING"]
        /\ UNCHANGED <<owner, report, sale, tx>>
    BY <1>2 DEF initiate, SetCode
  <2> HIDE DEF x
  <2> QED BY <1>0, <2>1, <2>2, InviteInv
<1> QED BY <1>1, <1>2

LEMMA revokeInv ==
  ASSUME IndInv, NEW b \in Bars, revokeCode(b)
  PROVE  IndInv'
<1>0. /\ TypeOK /\ CodeFree(b) /\ PendingFree(b) /\ cancelPendingForCode(b)
      /\ code[b] \in {"UNASSIGNED", "TRANSFER_PENDING"}
      /\ code' = [code EXCEPT ![b] = "REVOKED"]
      /\ UNCHANGED <<owner, report, sale, tx>>
  BY DEF IndInv, revokeCode, SetCode
<1>1. SalesOf(b) = {} /\ Frozen(b)
  BY <1>0, Settled
<1>2. /\ transfer' \in [Transfers -> Transfer]
      /\ PendingFor(b)' = {}
      /\ \A t \in Transfers : \/ transfer'[t] = transfer[t]
                              \/ /\ transfer'[t].bar = b /\ transfer[t].bar = b
                                 /\ t \in PendingFor(b)
      /\ \A t \in Transfers : TransferInv(t)'
  BY <1>0, Withdrawn
<1>3. /\ code'[b] = "REVOKED" /\ \A c \in Bars \ {b} : code'[c] = code[c]
  BY <1>0 DEF TypeOK
<1>4. TypeOK'
  BY <1>0, <1>2 DEF TypeOK, CodeStatuses
<1>5. SalesOf(b)' = {}
  BY <1>0, <1>1 DEF SalesOf
<1>6. Story(b)'
  BY <1>2, <1>3, <1>5 DEF Story
<1>7. Frozen(b)'
  BY <1>0, <1>1, <1>2 DEF Frozen, Active
<1>8. OwnRows(b)
  BY <1>0, <1>2, <1>3 DEF OwnRows
<1>9. ASSUME NEW s \in Sessions, tx[s].step = "confirm"
      PROVE  transfer'[tx[s].id] = transfer[tx[s].id]
  BY <1>0, <1>2, <1>9, Calls DEF PendingFree, TransferFree
<1>10. Unheld(b)
  BY <1>0, <1>9 DEF Unheld, CodeFree
<1>11. \A k \in Sales : SaleInv(k)'
  BY <1>0 DEF IndInv, SaleInv
<1> QED BY <1>2, <1>4, <1>6, <1>7, <1>8, <1>10, <1>11, BarStep

-----------------------------------------------------------------------------
(* A transfer is confirmed, refused or lapses.                               *)

LEMMA FinishConfirmInv ==
  ASSUME IndInv, NEW s \in Sessions, FinishConfirm(s)
  PROVE  IndInv'
<1>a. TypeOK /\ tx[s].step = "confirm"
  BY DEF IndInv, FinishConfirm
<1>b. PICK t \in Transfers : t = tx[s].id
  BY <1>a, Calls
<1>c. transfer[t].status = "PENDING" /\ transfer[t] \in Transfer
  BY <1>a, <1>b DEF IndInv, SessionInv, TypeOK
<1>d. transfer[t].bar \in Bars /\ transfer[t].to \in Users
  BY <1>c DEF IndInv, TransferInv
<1>1. PICK b \in Bars : b = transfer[t].bar
  BY <1>d
<1>2. PICK u \in Users : u = transfer[t].to
  BY <1>d
<1> DEFINE x == [transfer[t] EXCEPT !.status = "CONFIRMED"]
<1>0. /\ CodeFree(b)
      /\ owner' = [owner EXCEPT ![b] = u]
      /\ transfer' = [transfer EXCEPT ![t] = x]
      /\ code' = [code EXCEPT ![b] = "ASSIGNED"]
      /\ End(s) /\ UNCHANGED <<report, sale>>
  BY <1>b, <1>1, <1>2 DEF FinishConfirm, SetCode
<1>3. /\ x \in Transfer /\ x.status = "CONFIRMED" /\ x.bar = b
      /\ x.to = u
  BY <1>c, <1>1, <1>2 DEF Transfer
<1>4. /\ tx' \in [Sessions -> Session] /\ tx'[s].step = "idle"
      /\ \A q \in Sessions \ {s} : tx'[q] = tx[q]
  BY <1>a, <1>0, EndType
<1>5. \A q \in Sessions \ {s} : tx[q].step = "confirm" => tx[q].id \in Transfers \ {t}
  BY <1>a, <1>b, Calls DEF IndInv, Apart
<1> HIDE DEF x
<1>6. /\ transfer' \in [Transfers -> Transfer] /\ transfer'[t] = x
      /\ \A q \in Transfers \ {t} : transfer'[q] = transfer[q]
  BY <1>a, <1>0, <1>3 DEF TypeOK
<1>7. /\ code'[b] = "ASSIGNED" /\ owner'[b] = u /\ u # NoUser
      /\ \A c \in Bars \ {b} : code'[c] = code[c] /\ owner'[c] = owner[c]
  BY <1>a, <1>0, BullionAssumption DEF TypeOK
<1>8. TypeOK'
  BY <1>a, <1>0, <1>4, <1>6 DEF TypeOK, CodeStatuses
<1>9. t \in PendingFor(b) /\ Story(b) /\ Frozen(b)
  BY <1>c, <1>1, Settled DEF PendingFor
<1>10. PendingFor(b)' = {}
  BY <1>3, <1>6, <1>9 DEF PendingFor, Story
<1>11. SalesOf(b)' = {}
  BY <1>0, <1>9 DEF SalesOf, Story
<1>12. Story(b)'
  BY <1>7, <1>10, <1>11 DEF Story
<1>13. Frozen(b)'
  BY <1>0, <1>9, <1>10 DEF Frozen, Active
<1>14. OwnRows(b)
  BY <1>0, <1>3, <1>6, <1>7, <1>9 DEF OwnRows, PendingFor
<1>15. Unheld(b)
  BY <1>0, <1>4, <1>5, <1>6 DEF Unheld, CodeFree
<1>16. \A q \in Transfers : TransferInv(q)'
  BY <1>3, <1>6 DEF IndInv, TransferInv
<1>17. \A k \in Sales : SaleInv(k)'
  BY <1>0 DEF IndInv, SaleInv
<1> QED BY <1>8, <1>12, <1>13, <1>14, <1>15, <1>16, <1>17, BarStep

LEMMA NotConfirmedInv ==
  ASSUME IndInv, NEW t \in Transfers, NEW status \in {"REJECTED", "EXPIRED"},
         NotConfirmed(t, status)
  PROVE  IndInv'
<1>a. /\ TypeOK /\ transfer[t].status = "PENDING" /\ transfer[t] \in Transfer
      /\ transfer[t].bar \in Bars
  BY DEF IndInv, NotConfirmed, TypeOK, TransferInv
<1>1. PICK b \in Bars : b = transfer[t].bar
  BY <1>a
<1>3. PICK back \in {"UNASSIGNED", "ASSIGNED"} :
        back = IF transfer[t].kind = "INITIAL_PURCHASE" THEN "UNASSIGNED"
                                                        ELSE "ASSIGNED"
  OBVIOUS
<1> DEFINE x == [transfer[t] EXCEPT !.status = status]
<1>0. /\ TransferFree(t) /\ CodeFree(b)
      /\ transfer' = [transfer EXCEPT ![t] = x]
      /\ code' = [code EXCEPT ![b] = back]
      /\ UNCHANGED <<owner, report, sale, tx>>
  BY <1>1, <1>3 DEF NotConfirmed, revertCodeAfterNonConfirmation, SetCode
<1>2. /\ x \in Transfer /\ x.status = status /\ x.bar = b
      /\ x.to = transfer[t].to
  BY <1>a, <1>1 DEF Transfer
<1>9. t \in PendingFor(b) /\ Story(b) /\ Frozen(b)
  BY <1>a, <1>1, Settled DEF PendingFor
<1>4. back = "ASSIGNED" <=> owner[b] # NoUser
  <2>1. transfer[t].kind \in {"INITIAL_PURCHASE", "GIFT_TRANSFER"}
    BY <1>a DEF Transfer
  <2> QED BY <1>3, <1>9, <2>1 DEF Story
<1> HIDE DEF x
<1>6. /\ transfer' \in [Transfers -> Transfer] /\ transfer'[t] = x
      /\ \A q \in Transfers \ {t} : transfer'[q] = transfer[q]
  BY <1>a, <1>0, <1>2 DEF TypeOK
<1>7. code'[b] = back /\ \A c \in Bars \ {b} : code'[c] = code[c]
  BY <1>a, <1>0 DEF TypeOK
<1>8. TypeOK'
  <2>1. code' \in [Bars -> CodeStatuses]
    BY <1>a, <1>0, <1>3 DEF TypeOK, CodeStatuses
  <2> QED BY <1>a, <1>0, <1>6, <2>1 DEF TypeOK
<1>10. PendingFor(b)' = {}
  BY <1>2, <1>6, <1>9 DEF PendingFor, Story
<1>11. SalesOf(b)' = {}
  BY <1>0, <1>9 DEF SalesOf, Story
<1>12. Story(b)'
  BY <1>0, <1>3, <1>4, <1>7, <1>10, <1>11 DEF Story
<1>13. Frozen(b)'
  BY <1>0, <1>9, <1>10 DEF Frozen, Active
<1>14. OwnRows(b)
  BY <1>0, <1>2, <1>6, <1>7, <1>9 DEF OwnRows, PendingFor
<1>15. ASSUME NEW s \in Sessions, tx[s].step = "confirm"
       PROVE  transfer'[tx[s].id] = transfer[tx[s].id]
  BY <1>0, <1>6, <1>15, <1>a, Calls DEF TransferFree
<1>16. Unheld(b)
  BY <1>0, <1>15 DEF Unheld, CodeFree
<1>17. \A q \in Transfers : TransferInv(q)'
  BY <1>a, <1>1, <1>2, <1>6 DEF IndInv, TransferInv
<1>18. \A k \in Sales : SaleInv(k)'
  BY <1>0 DEF IndInv, SaleInv
<1> QED BY <1>8, <1>12, <1>13, <1>14, <1>16, <1>17, <1>18, BarStep

LEMMA TransferDeadlineInv ==
  ASSUME IndInv, NEW t \in Transfers, TransferDeadline(t)
  PROVE  IndInv'
<1> DEFINE x == [transfer[t] EXCEPT !.late = TRUE]
<1>0. /\ TypeOK /\ transfer[t] \in Transfer
      /\ transfer' = [transfer EXCEPT ![t] = x]
      /\ UNCHANGED <<code, owner, report, sale, tx>>
  BY DEF IndInv, TransferDeadline, TypeOK
<1>1. /\ x \in Transfer /\ x.status = transfer[t].status /\ x.bar = transfer[t].bar
      /\ x.to = transfer[t].to /\ x.kind = transfer[t].kind
  BY <1>0 DEF Transfer
<1> HIDE DEF x
<1>2. /\ transfer' \in [Transfers -> Transfer]
      /\ \A q \in Transfers : /\ transfer'[q].status = transfer[q].status
                              /\ transfer'[q].bar = transfer[q].bar
                              /\ transfer'[q].to = transfer[q].to
                              /\ transfer'[q].kind = transfer[q].kind
  BY <1>0, <1>1 DEF TypeOK
<1>3. TypeOK'
  BY <1>0, <1>2 DEF TypeOK
<1>4. ASSUME NEW b \in Bars PROVE Story(b)' /\ Frozen(b)'
  <2>1. /\ PendingFor(b)' = PendingFor(b) /\ SalesOf(b)' = SalesOf(b)
        /\ \A q \in PendingFor(b) : transfer'[q].kind = transfer[q].kind
    BY <1>0, <1>2 DEF PendingFor, SalesOf
  <2> QED BY <1>0, <2>1 DEF IndInv, Story, Frozen, Reported, Active
<1>5. ASSUME NEW s \in Sessions PROVE SessionInv(s)'
  <2>1. tx[s].step = "confirm" => tx[s].id \in Transfers
    BY <1>0, Calls
  <2> QED BY <1>0, <1>2, <2>1 DEF IndInv, SessionInv, Reported, Active, MayPay
<1>6. \A q \in Transfers : TransferInv(q)'
  BY <1>2 DEF IndInv, TransferInv
<1> QED BY <1>0, <1>3, <1>4, <1>5, <1>6 DEF IndInv, SaleInv, Apart

-----------------------------------------------------------------------------
(* A call takes a row, or ends without writing.                              *)

LEMMA SessionStep ==
  ASSUME IndInv, NEW s \in Sessions, NEW x \in Session,
         tx' = [tx EXCEPT ![s] = x], UNCHANGED <<code, owner, transfer, report, sale>>,
         SessionInv(s)', \A q \in Sessions \ {s} : Apart(s, q)' /\ Apart(q, s)'
  PROVE  IndInv'
<1>1. TypeOK
  BY DEF IndInv
<1>2. /\ tx' \in [Sessions -> Session]
      /\ \A q \in Sessions \ {s} : tx'[q] = tx[q]
  BY <1>1, TxType
<1>3. TypeOK'
  BY <1>1, <1>2 DEF TypeOK
<1>4. \A b \in Bars : Story(b)' /\ Frozen(b)'
  BY DEF IndInv, Story, Frozen, PendingFor, SalesOf, Reported, Active
<1>5. (\A t \in Transfers : TransferInv(t)') /\ \A k \in Sales : SaleInv(k)'
  BY DEF IndInv, TransferInv, SaleInv
<1>6. ASSUME NEW q \in Sessions PROVE SessionInv(q)'
  <2>1. CASE q = s
    BY <2>1
  <2>2. CASE q # s
    <3>1. SessionInv(q) /\ tx'[q] = tx[q]
      BY <1>2, <2>2 DEF IndInv
    <3> QED BY <3>1 DEF SessionInv, Reported, Active, MayPay
  <2> QED BY <2>1, <2>2
<1>7. ASSUME NEW q \in Sessions, NEW p \in Sessions PROVE Apart(q, p)'
  <2>1. CASE q # s /\ p # s
    BY <1>2, <2>1 DEF IndInv, Apart
  <2>2. CASE q = p
    BY <2>2 DEF Apart
  <2> QED BY <2>1, <2>2
<1> QED BY <1>3, <1>4, <1>5, <1>6, <1>7 DEF IndInv

LEMMA AbortInv ==
  ASSUME IndInv, NEW s \in Sessions, Abort(s)
  PROVE  IndInv'
<1>1. Idle \in Session /\ Idle.step = "idle"
  BY DEF Session, Idle
<1>2. /\ tx' = [tx EXCEPT ![s] = Idle]
      /\ UNCHANGED <<code, owner, transfer, report, sale>> /\ TypeOK
  BY DEF Abort, End, IndInv
<1>3. tx'[s].step = "idle"
  BY <1>1, <1>2, TxType
<1>4. SessionInv(s)' /\ \A q \in Sessions \ {s} : Apart(s, q)' /\ Apart(q, s)'
  BY <1>3 DEF SessionInv, Apart
<1> QED BY <1>1, <1>2, <1>4, SessionStep

LEMMA StartConfirmInv ==
  ASSUME IndInv, NEW s \in Sessions, NEW t \in Transfers, StartConfirm(s, t)
  PROVE  IndInv'
<1> DEFINE x == [step |-> "verify", id |-> t]
<1>1. x \in Session /\ x.step = "verify"
  BY DEF Session
<1>2. /\ tx' = [tx EXCEPT ![s] = x] /\ TypeOK
      /\ UNCHANGED <<code, owner, transfer, report, sale>>
  BY DEF StartConfirm, Begin, IndInv
<1> HIDE DEF x
<1>3. tx'[s].step = "verify"
  BY <1>1, <1>2, TxType
<1>4. SessionInv(s)' /\ \A q \in Sessions \ {s} : Apart(s, q)' /\ Apart(q, s)'
  BY <1>3 DEF SessionInv, Apart
<1> QED BY <1>1, <1>2, <1>4, SessionStep

LEMMA LockConfirmInv ==
  ASSUME IndInv, NEW s \in Sessions, LockConfirm(s)
  PROVE  IndInv'
<1>0. /\ TypeOK /\ tx[s].step = "verify" /\ TransferFree(tx[s].id)
      /\ transfer[tx[s].id].status = "PENDING"
      /\ UNCHANGED <<code, owner, transfer, report, sale>>
  BY DEF IndInv, LockConfirm, Confirmable
<1>1. PICK t \in Transfers : t = tx[s].id
  BY <1>0, Calls
<1>2. PICK c \in Session : c = tx[s]
  BY <1>0, Calls
<1> DEFINE x == [c EXCEPT !.step = "confirm"]
<1>3. c \in [step: {"verify", "confirm"}, id: Transfers]
  BY <1>0, <1>2 DEF Session, Idle
<1>4. x \in [step: {"verify", "confirm"}, id: Transfers] /\ x.step = "confirm" /\ x.id = t
  BY <1>1, <1>2, <1>3
<1>5. tx' = [tx EXCEPT ![s] = x]
  BY <1>2 DEF LockConfirm
<1> HIDE DEF x
<1>6. x \in Session
  BY <1>4 DEF Session
<1>7. tx'[s] = x /\ \A q \in Sessions \ {s} : tx'[q] = tx[q]
  BY <1>0, <1>5, <1>6, TxType
<1>8. SessionInv(s)'
  BY <1>0, <1>1, <1>4, <1>7 DEF SessionInv
<1>9. \A q \in Sessions \ {s} : Apart(s, q)' /\ Apart(q, s)'
  BY <1>0, <1>1, <1>4, <1>7 DEF Apart, TransferFree
<1> QED BY <1>0, <1>5, <1>6, <1>8, <1>9, SessionStep

LEMMA LockReportInv ==
  ASSUME IndInv, NEW s \in Sessions, NEW b \in Bars,
         createByOwner(s, b) \/ createByAdmin(s, b)
  PROVE  IndInv'
<1>1. PICK by \in Users \cup {NoUser} :
        LockReport(s, b, by) /\ (by \in Users => owner[b] \in Users)
  BY BullionAssumption DEF createByOwner, createByAdmin
<1> DEFINE x == [step |-> "report", bar |-> b, by |-> by]
<1>2. x \in Session /\ x.step = "report" /\ x.bar = b /\ x.by = by
  BY DEF Session
<1>3. /\ CodeFree(b) /\ ~Reported(b) /\ tx' = [tx EXCEPT ![s] = x] /\ TypeOK
      /\ UNCHANGED <<code, owner, transfer, report, sale>>
  BY <1>1 DEF LockReport, Begin, IndInv
<1> HIDE DEF x
<1>4. tx'[s] = x /\ \A q \in Sessions \ {s} : tx'[q] = tx[q]
  BY <1>2, <1>3, TxType
<1>5. ~Reported(b)'
  BY <1>3 DEF Reported, Active
<1>6. SessionInv(s)'
  <2>1. /\ tx'[s].step = "report" /\ tx'[s].bar = b /\ tx'[s].by = by
        /\ owner' = owner
    BY <1>2, <1>3, <1>4
  <2>2. ~Reported(tx[s].bar)'
    BY <2>1, <1>3 DEF Reported, Active
  <2> QED BY <1>1, <2>1, <2>2 DEF SessionInv
<1>7. \A q \in Sessions \ {s} : Apart(s, q)' /\ Apart(q, s)'
  BY <1>2, <1>3, <1>4 DEF Apart, CodeFree
<1> QED BY <1>2, <1>3, <1>6, <1>7, SessionStep

LEMMA LockPayInv ==
  ASSUME IndInv, NEW s \in Sessions, NEW k \in Sales, NEW a \in Admins,
         LockPay(s, k, a)
  PROVE  IndInv'
<1> DEFINE x == [step |-> "pay", id |-> k, admin |-> a]
<1>1. x \in Session /\ x.step = "pay" /\ x.id = k /\ x.admin = a
  BY DEF Session
<1>2. /\ SaleFree(k) /\ sale[k].status = "APPROVED" /\ MayPay(k, a)
      /\ tx' = [tx EXCEPT ![s] = x] /\ TypeOK
      /\ UNCHANGED <<code, owner, transfer, report, sale>>
  BY DEF LockPay, Allowed, Begin, IndInv
<1> HIDE DEF x
<1>3. tx'[s] = x /\ \A q \in Sessions \ {s} : tx'[q] = tx[q]
  BY <1>1, <1>2, TxType
<1>4. SessionInv(s)'
  BY <1>1, <1>2, <1>3 DEF SessionInv, MayPay
<1>5. \A q \in Sessions \ {s} : Apart(s, q)' /\ Apart(q, s)'
  BY <1>1, <1>2, <1>3 DEF Apart, SaleFree
<1> QED BY <1>1, <1>2, <1>4, <1>5, SessionStep

-----------------------------------------------------------------------------
(* Reports.                                                                  *)

LEMMA ReviewInv ==
  ASSUME IndInv, NEW r \in Reports,
         NEW status \in {"CONFIRMED", "REJECTED", "RECOVERED", "CANCELLED"},
         Review(r, status)
  PROVE  IndInv'
<1> DEFINE x == [report[r] EXCEPT !.status = status]
<1>0. /\ TypeOK /\ report[r] \in Report
      /\ report[r].status \in {"OPEN", "CONFIRMED"}
      /\ report' = [report EXCEPT ![r] = x]
      /\ UNCHANGED <<code, owner, transfer, sale, tx>>
  BY DEF IndInv, Review, TypeOK
<1>1. x \in Report /\ x.bar = report[r].bar
  BY <1>0 DEF Report
<1> HIDE DEF x
<1>2. /\ report' \in [Reports -> Report] /\ report'[r].bar = report[r].bar
      /\ \A q \in Reports \ {r} : report'[q] = report[q]
  BY <1>0, <1>1 DEF TypeOK
<1>3. TypeOK'
  BY <1>0, <1>2 DEF TypeOK
<1>4. \A b, q : q \in Reports /\ (report'[q].bar = b /\ report'[q].status \in {"OPEN", "CONFIRMED"})
                => Active(q, b)
  BY <1>0, <1>2 DEF Active
<1>5. ASSUME NEW b \in Bars PROVE Story(b)' /\ Frozen(b)'
  <2>1. PendingFor(b)' = PendingFor(b) /\ SalesOf(b)' = SalesOf(b)
    BY <1>0 DEF PendingFor, SalesOf
  <2>2. Story(b) /\ Frozen(b)
    BY DEF IndInv
  <2>3. Frozen(b)'
    BY <1>4, <2>1, <2>2 DEF Frozen, Reported, Active
  <2> QED BY <1>0, <2>1, <2>2, <2>3 DEF Story
<1>6. ASSUME NEW s \in Sessions PROVE SessionInv(s)'
  BY <1>0, <1>4 DEF IndInv, SessionInv, Reported, Active, MayPay
<1> QED BY <1>0, <1>3, <1>5, <1>6 DEF IndInv, TransferInv, SaleInv, Apart

LEMMA FinishReportInv ==
  ASSUME IndInv, NEW s \in Sessions, FinishReport(s)
  PROVE  IndInv'
<1>a. TypeOK /\ tx[s].step = "report" /\ End(s) /\ SessionInv(s)
  BY DEF IndInv, FinishReport
<1>b. PICK b \in Bars : b = tx[s].bar
  BY <1>a, Calls
<1>c. PICK by \in Users \cup {NoUser} : by = tx[s].by
  BY <1>a, Calls
<1>d. PICK r \in Reports : Next1(report, r) /\ Insert(r, b, by)
  BY <1>b, <1>c DEF FinishReport
<1> DEFINE x == [status |-> IF by = NoUser THEN "CONFIRMED" ELSE "OPEN",
                 bar |-> b, by |-> by]
<1>0. /\ IF code[b] = "TRANSFER_PENDING"
           THEN PendingFree(b) /\ cancelPendingForCode(b) ELSE transfer' = transfer
      /\ code' = [code EXCEPT ![b] = CodeAfterReport(b, by)]
      /\ report' = [report EXCEPT ![r] = x] /\ report[r].status = "none"
      /\ UNCHANGED <<owner, sale>>
  BY <1>b, <1>c, <1>d DEF FinishReport, SetCode, Insert, Next1
<1>1. x \in Report /\ x.bar = b
  BY DEF Report
<1> HIDE DEF x
<1>2. ~Reported(b) /\ (by \in Users => owner[b] \in Users)
  BY <1>a, <1>b, <1>c DEF SessionInv
<1>3. Story(b) /\ Frozen(b)
  BY Settled
<1>4. /\ transfer' \in [Transfers -> Transfer]
      /\ PendingFor(b)' = {}
      /\ \A t \in Transfers : \/ transfer'[t] = transfer[t]
                              \/ /\ transfer'[t].bar = b /\ transfer[t].bar = b
                                 /\ t \in PendingFor(b) /\ PendingFree(b)
      /\ \A t \in Transfers : TransferInv(t)'
  <2>1. CASE code[b] = "TRANSFER_PENDING"
    BY <1>0, <2>1, Withdrawn
  <2>2. CASE code[b] # "TRANSFER_PENDING"
    <3>1. transfer' = transfer /\ PendingFor(b) = {}
      BY <1>0, <2>2, Settled
    <3> QED BY <1>a, <3>1 DEF TypeOK, PendingFor, IndInv, TransferInv
  <2> QED BY <2>1, <2>2
<1>5. /\ CodeAfterReport(b, by) \in CodeStatuses
      /\ code[b] # "TRANSFER_PENDING" => CodeAfterReport(b, by) = code[b]
      /\ code[b] = "TRANSFER_PENDING" =>
           \/ CodeAfterReport(b, by) = "UNASSIGNED" /\ owner[b] = NoUser
           \/ CodeAfterReport(b, by) = "ASSIGNED" /\ owner[b] # NoUser
  <2>1. CASE code[b] # "TRANSFER_PENDING"
    BY <1>a, <2>1 DEF CodeAfterReport, TypeOK
  <2>2. CASE code[b] = "TRANSFER_PENDING"
    <3>1. PICK t \in PendingFor(b) : \A q \in PendingFor(b) : q = t
      BY <1>3, <2>2 DEF Story
    <3>2. /\ transfer[t].kind \in {"INITIAL_PURCHASE", "GIFT_TRANSFER"}
          /\ transfer[t].kind = "GIFT_TRANSFER" <=> owner[b] # NoUser
      BY <1>a, <1>3, <3>1 DEF Story, PendingFor, TypeOK, Transfer
    <3>3. by # NoUser => owner[b] # NoUser
      BY <1>2, BullionAssumption
    <3> QED BY <2>2, <3>1, <3>2, <3>3 DEF CodeAfterReport, CodeStatuses
  <2> QED BY <2>1, <2>2
<1>6. PICK next \in CodeStatuses : next = CodeAfterReport(b, by)
  BY <1>5
<1>7. /\ code'[b] = next /\ \A c \in Bars \ {b} : code'[c] = code[c]
      /\ code' \in [Bars -> CodeStatuses]
  BY <1>a, <1>0, <1>6 DEF TypeOK
<1>8. /\ report' \in [Reports -> Report] /\ report'[r].bar = b
      /\ \A q \in Reports \ {r} : report'[q] = report[q]
  BY <1>a, <1>0, <1>1 DEF TypeOK
<1>9. /\ tx' \in [Sessions -> Session] /\ tx'[s].step = "idle"
      /\ \A q \in Sessions \ {s} : tx'[q] = tx[q]
  BY <1>a, EndType
<1>10. TypeOK'
  BY <1>a, <1>0, <1>4, <1>7, <1>8, <1>9 DEF TypeOK
<1>11. SalesOf(b)' = SalesOf(b)
  BY <1>0 DEF SalesOf
<1>12. Story(b)'
  <2>1. CASE code[b] = "TRANSFER_PENDING"
    <3>1. SalesOf(b) = {}
      BY <2>1, Settled
    <3> QED BY <1>0, <1>4, <1>5, <1>6, <1>7, <1>11, <2>1, <3>1 DEF Story
  <2>2. CASE code[b] # "TRANSFER_PENDING"
    <3>1. code'[b] = code[b] /\ owner'[b] = owner[b] /\ sale' = sale
      BY <1>0, <1>5, <1>6, <1>7, <2>2
    <3> QED BY <1>3, <1>4, <1>11, <2>2, <3>1 DEF Story
  <2> QED BY <2>1, <2>2
<1>13. Frozen(b)'
  BY <1>2, <1>4, <1>8 DEF Frozen, Active, Reported
<1>14. OwnRows(b)
  BY <1>0, <1>4, <1>7, <1>8 DEF OwnRows
<1>15. ASSUME NEW q \in Sessions \ {s}, tx[q].step = "confirm"
       PROVE  transfer'[tx[q].id] = transfer[tx[q].id]
  BY <1>a, <1>4, <1>15, Calls DEF PendingFree, TransferFree
<1>16. \A q \in Sessions \ {s} : tx[q].step = "report" => tx[q].bar # b
  BY <1>a, <1>b DEF IndInv, Apart
<1>17. Unheld(b)
  BY <1>0, <1>9, <1>15, <1>16 DEF Unheld
<1>18. \A k \in Sales : SaleInv(k)'
  BY <1>0 DEF IndInv, SaleInv
<1> QED BY <1>4, <1>10, <1>12, <1>13, <1>14, <1>17, <1>18, BarStep

-----------------------------------------------------------------------------
(* A bar is offered for sale, given back or paid.                            *)

LEMMA createSaleInv ==
  ASSUME IndInv, NEW b \in Bars, createSale(b)
  PROVE  IndInv'
<1>a. /\ TypeOK /\ CodeFree(b) /\ code[b] = "ASSIGNED" /\ owner[b] \in Users
      /\ code' = [code EXCEPT ![b] = "BUYBACK_PENDING"]
      /\ UNCHANGED <<owner, transfer, report, tx>>
  BY DEF IndInv, createSale, SetCode
<1>b. PICK u \in Users : u = owner[b]
  BY <1>a
<1> DEFINE x == [NoSale EXCEPT !.status = "SUBMITTED", !.bar = b, !.user = u]
<1>c. PICK k \in Sales : sale[k].status = "none" /\ sale' = [sale EXCEPT ![k] = x]
  BY <1>b DEF createSale, Next1
<1>1. /\ x \in Sale /\ x.status = "SUBMITTED" /\ x.bar = b /\ x.user = u
  BY DEF NoSale, Sale, SaleStatuses
<1> HIDE DEF x
<1>2. /\ sale' \in [Sales -> Sale] /\ sale'[k] = x
      /\ \A q \in Sales \ {k} : sale'[q] = sale[q]
  BY <1>a, <1>c, <1>1 DEF TypeOK
<1>3. /\ code'[b] = "BUYBACK_PENDING"
      /\ \A c \in Bars \ {b} : code'[c] = code[c]
  BY <1>a DEF TypeOK
<1>4. TypeOK'
  BY <1>a, <1>2 DEF TypeOK, CodeStatuses
<1>5. PendingFor(b) = {} /\ SalesOf(b) = {} /\ Frozen(b)
  BY <1>a, Settled
<1>6. PendingFor(b)' = {}
  BY <1>a, <1>5 DEF PendingFor
<1>7. SalesOf(b)' = {k}
  BY <1>1, <1>2, <1>5 DEF SalesOf, OPEN_STATUSES, SaleStatuses
<1>8. Story(b)'
  BY <1>a, <1>b, <1>1, <1>2, <1>3, <1>6, <1>7 DEF Story
<1>9. Frozen(b)'
  BY <1>a, <1>5, <1>6 DEF Frozen, Active
<1>10. OwnRows(b)
  BY <1>a, <1>c, <1>1, <1>2, <1>3 DEF OwnRows
<1>11. ASSUME NEW s \in Sessions, tx[s].step = "pay"
       PROVE  sale'[tx[s].id] = sale[tx[s].id]
  BY <1>a, <1>c, <1>2, <1>11, Calls DEF IndInv, SessionInv
<1>12. Unheld(b)
  BY <1>a, <1>11 DEF Unheld, CodeFree
<1>13. \A t \in Transfers : TransferInv(t)'
  BY <1>a DEF IndInv, TransferInv
<1>14. \A q \in Sales : SaleInv(q)'
  BY <1>1, <1>2 DEF IndInv, SaleInv
<1> QED BY <1>4, <1>8, <1>9, <1>10, <1>12, <1>13, <1>14, BarStep

\* An open sale, and what its bar's code says
LEMMA OpenSale ==
  ASSUME IndInv, NEW k \in Sales, sale[k].status \in OPEN_STATUSES
  PROVE  /\ sale[k] \in Sale /\ sale[k].bar \in Bars /\ sale[k].user \in Users
         /\ code[sale[k].bar] = "BUYBACK_PENDING"
         /\ owner[sale[k].bar] = sale[k].user
         /\ SalesOf(sale[k].bar) = {k}
<1>1. sale[k] \in Sale /\ sale[k].bar \in Bars /\ sale[k].user \in Users
  BY DEF IndInv, TypeOK, SaleInv, OPEN_STATUSES
<1>2. PICK b \in Bars : b = sale[k].bar
  BY <1>1
<1>3. k \in SalesOf(b) /\ Story(b)
  BY <1>2 DEF SalesOf, IndInv
<1> QED BY <1>1, <1>2, <1>3 DEF Story

LEMMA ReleaseInv ==
  ASSUME IndInv, NEW k \in Sales, NEW from \in SUBSET OPEN_STATUSES,
         NEW to \in {"CANCELLED", "REJECTED", "RETURNED"}, Release(k, from, to)
  PROVE  IndInv'
<1>a. /\ TypeOK /\ SaleFree(k) /\ sale[k].status \in OPEN_STATUSES
      /\ UNCHANGED <<owner, transfer, report, tx>>
  BY DEF IndInv, Release, Allowed
<1>b. PICK b \in Bars : b = sale[k].bar
  BY <1>a, OpenSale
<1>c. /\ code[b] = "BUYBACK_PENDING" /\ owner[b] = sale[k].user
      /\ SalesOf(b) = {k} /\ sale[k] \in Sale /\ sale[k].user \in Users
  BY <1>a, <1>b, OpenSale
<1> DEFINE x == [sale[k] EXCEPT !.status = to]
<1>0. /\ CodeFree(b) /\ sale' = [sale EXCEPT ![k] = x]
      /\ code' = [code EXCEPT ![b] = "ASSIGNED"]
  BY <1>a, <1>b, <1>c DEF Release, releaseCode, TypeOK
<1>1. x \in Sale /\ x.status = to /\ x.bar = b /\ x.user = sale[k].user
  BY <1>b, <1>c DEF Sale, SaleStatuses
<1> HIDE DEF x
<1>2. /\ sale' \in [Sales -> Sale] /\ sale'[k] = x
      /\ \A q \in Sales \ {k} : sale'[q] = sale[q]
  BY <1>a, <1>0, <1>1 DEF TypeOK
<1>3. code'[b] = "ASSIGNED" /\ \A c \in Bars \ {b} : code'[c] = code[c]
  BY <1>a, <1>0 DEF TypeOK
<1>4. TypeOK'
  BY <1>a, <1>0, <1>2 DEF TypeOK, CodeStatuses
<1>5. PendingFor(b) = {} /\ Frozen(b)
  BY <1>c, Settled
<1>6. PendingFor(b)' = {}
  BY <1>a, <1>5 DEF PendingFor
<1>7. SalesOf(b)' = {}
  BY <1>c, <1>1, <1>2 DEF SalesOf, OPEN_STATUSES
<1>8. Story(b)'
  BY <1>a, <1>c, <1>3, <1>6, <1>7, BullionAssumption DEF Story
<1>9. Frozen(b)'
  BY <1>a, <1>5, <1>6 DEF Frozen, Active
<1>10. OwnRows(b)
  BY <1>a, <1>b, <1>1, <1>2, <1>3 DEF OwnRows
<1>11. ASSUME NEW s \in Sessions, tx[s].step = "pay"
       PROVE  sale'[tx[s].id] = sale[tx[s].id]
  BY <1>a, <1>2, <1>11, Calls DEF SaleFree
<1>12. Unheld(b)
  BY <1>a, <1>0, <1>11 DEF Unheld, CodeFree
<1>13. \A t \in Transfers : TransferInv(t)'
  BY <1>a DEF IndInv, TransferInv
<1>14. \A q \in Sales : SaleInv(q)'
  BY <1>c, <1>1, <1>2 DEF IndInv, SaleInv
<1> QED BY <1>4, <1>8, <1>9, <1>10, <1>12, <1>13, <1>14, BarStep

LEMMA ReleasesInv ==
  ASSUME IndInv, NEW k \in Sales, cancelByUser(k) \/ rejectSale(k) \/ markReturned(k)
  PROVE  IndInv'
<1>1. /\ {"SUBMITTED", "AWAITING_DELIVERY"} \in SUBSET OPEN_STATUSES
      /\ {"RETURN_PENDING"} \in SUBSET OPEN_STATUSES
  BY DEF OPEN_STATUSES, SaleStatuses
<1>2. CASE cancelByUser(k)
  BY <1>1, <1>2, ReleaseInv DEF cancelByUser
<1>3. CASE rejectSale(k)
  BY <1>1, <1>3, ReleaseInv DEF rejectSale
<1>4. CASE markReturned(k)
  BY <1>1, <1>4, ReleaseInv DEF markReturned
<1> QED BY <1>2, <1>3, <1>4

LEMMA FinishPayInv ==
  ASSUME IndInv, NEW s \in Sessions, FinishPay(s)
  PROVE  IndInv'
<1>a. TypeOK /\ tx[s].step = "pay" /\ End(s) /\ SessionInv(s)
  BY DEF IndInv, FinishPay
<1>b. PICK k \in Sales : k = tx[s].id
  BY <1>a, Calls
<1>c. PICK a \in Admins : a = tx[s].admin
  BY <1>a, Calls
<1>d. sale[k].status = "APPROVED" /\ MayPay(k, a)
  BY <1>a, <1>b, <1>c DEF SessionInv
<1>e. sale[k].status \in OPEN_STATUSES
  BY <1>d DEF OPEN_STATUSES, SaleStatuses
<1>f. PICK b \in Bars : b = sale[k].bar
  BY <1>e, OpenSale
<1>g. sale[k] \in Sale /\ SalesOf(b) = {k} /\ code[b] = "BUYBACK_PENDING"
  BY <1>e, <1>f, OpenSale
<1> DEFINE x == [sale[k] EXCEPT !.status = "PAID", !.paidBy = a]
<1>0. /\ CodeFree(b) /\ cancelPendingForCode(b)
      /\ owner' = [owner EXCEPT ![b] = NoUser]
      /\ code' = [code EXCEPT ![b] = "UNASSIGNED"]
      /\ sale' = [sale EXCEPT ![k] = x]
      /\ UNCHANGED report
  BY <1>b, <1>c, <1>f DEF FinishPay, SetCode
<1>1. /\ x \in Sale
  BY <1>g DEF Sale, SaleStatuses
<1>2. /\ x.status = "PAID" /\ x.paidBy = a /\ x.bar = b /\ x.user = sale[k].user
      /\ x.price = sale[k].price /\ x.agreed = sale[k].agreed
      /\ x.approvedBy = sale[k].approvedBy
  BY <1>f, <1>g DEF Sale
<1> HIDE DEF x
<1>3. /\ sale' \in [Sales -> Sale] /\ sale'[k] = x
      /\ \A q \in Sales \ {k} : sale'[q] = sale[q]
  BY <1>a, <1>0, <1>1 DEF TypeOK
<1>4. /\ code'[b] = "UNASSIGNED" /\ owner'[b] = NoUser
      /\ \A c \in Bars \ {b} : code'[c] = code[c] /\ owner'[c] = owner[c]
  BY <1>a, <1>0 DEF TypeOK
<1>5. /\ tx' \in [Sessions -> Session] /\ tx'[s].step = "idle"
      /\ \A q \in Sessions \ {s} : tx'[q] = tx[q]
  BY <1>a, EndType
<1>6. PendingFor(b) = {} /\ Frozen(b)
  BY <1>g, Settled
<1>7. /\ transfer' \in [Transfers -> Transfer] /\ PendingFor(b)' = {}
      /\ \A t \in Transfers : transfer'[t] = transfer[t]
      /\ \A t \in Transfers : TransferInv(t)'
  BY <1>0, <1>6, Withdrawn
<1>8. TypeOK'
  BY <1>a, <1>0, <1>3, <1>5, <1>7 DEF TypeOK, CodeStatuses
<1>9. SalesOf(b)' = {}
  BY <1>g, <1>2, <1>3 DEF SalesOf, OPEN_STATUSES
<1>10. Story(b)'
  BY <1>4, <1>7, <1>9 DEF Story
<1>11. Frozen(b)'
  BY <1>0, <1>6, <1>7 DEF Frozen, Active
<1>12. OwnRows(b)
  BY <1>0, <1>f, <1>2, <1>3, <1>4, <1>7 DEF OwnRows
<1>13. ASSUME NEW q \in Sessions \ {s}, tx[q].step = "pay"
       PROVE  sale'[tx[q].id] = sale[tx[q].id]
  BY <1>a, <1>b, <1>3, <1>13, Calls DEF IndInv, Apart
<1>14. ASSUME NEW q \in Sessions, tx[q].step = "confirm"
       PROVE  transfer'[tx[q].id] = transfer[tx[q].id]
  BY <1>a, <1>7, <1>14, Calls
<1>15. Unheld(b)
  BY <1>0, <1>5, <1>13, <1>14 DEF Unheld, CodeFree
<1>16. SaleInv(k)'
  BY <1>d, <1>2, <1>3, <1>f DEF IndInv, SaleInv, MayPay
<1>17. \A q \in Sales : SaleInv(q)'
  BY <1>3, <1>16 DEF IndInv, SaleInv
<1> QED BY <1>7, <1>8, <1>10, <1>11, <1>12, <1>15, <1>17, BarStep

-----------------------------------------------------------------------------
(* The invariant holds.                                                      *)

LEMMA InitInv == Init => IndInv
<1> SUFFICES ASSUME Init PROVE IndInv
  OBVIOUS
<1>1. /\ NoTransfer \in Transfer /\ NoReport \in Report /\ NoSale \in Sale
      /\ Idle \in Session
  BY DEF NoTransfer, Transfer, NoReport, Report, NoSale, Sale, SaleStatuses, Session
<1>2. TypeOK
  BY <1>1 DEF Init, TypeOK, CodeStatuses
<1>3. /\ \A t \in Transfers : transfer[t].status = "none"
      /\ \A r \in Reports : report[r].status = "none"
      /\ \A k \in Sales : sale[k].status = "none"
      /\ \A s \in Sessions : tx[s].step = "idle"
  BY DEF Init, NoTransfer, NoReport, NoSale, Idle
<1>4. ASSUME NEW b \in Bars PROVE Story(b) /\ Frozen(b)
  <2>1. PendingFor(b) = {} /\ SalesOf(b) = {}
    BY <1>3 DEF PendingFor, SalesOf, OPEN_STATUSES
  <2>2. code[b] = "UNASSIGNED" /\ owner[b] = NoUser
    BY DEF Init
  <2> QED BY <1>3, <2>1, <2>2 DEF Story, Frozen, Active
<1> QED BY <1>2, <1>3, <1>4 DEF IndInv, TransferInv, SaleInv, SessionInv, Apart

LEMMA NextInv == IndInv /\ [Next]_vars => IndInv'
<1> SUFFICES ASSUME IndInv, [Next]_vars PROVE IndInv'
  OBVIOUS
<1>1. CASE UNCHANGED vars
  <2>1. \A b \in Bars : Story(b)' /\ Frozen(b)'
    BY <1>1 DEF vars, IndInv, Story, Frozen, PendingFor, SalesOf, Reported, Active
  <2>2. \A s \in Sessions : SessionInv(s)'
    BY <1>1 DEF vars, IndInv, SessionInv, Reported, Active, MayPay
  <2> QED BY <1>1, <2>1, <2>2 DEF vars, IndInv, TypeOK, TransferInv, SaleInv, Apart
<1>2. ASSUME NEW b \in Bars,
             \/ \E u \in Users : initiate(b, u) \/ assignCode(b, u, TRUE)
                                                \/ assignCode(b, u, FALSE)
             \/ revokeCode(b) \/ createSale(b)
             \/ \E s \in Sessions : createByOwner(s, b) \/ createByAdmin(s, b)
      PROVE  IndInv'
  BY <1>2, assignInv, assignDirect, revokeInv, createSaleInv, LockReportInv
<1>3. ASSUME NEW t \in Transfers,
             \/ rejectTransfer(t) \/ expireOne(t) \/ TransferDeadline(t)
             \/ \E s \in Sessions : StartConfirm(s, t)
      PROVE  IndInv'
  BY <1>3, NotConfirmedInv, TransferDeadlineInv, StartConfirmInv
     DEF rejectTransfer, expireOne
<1>4. ASSUME NEW r \in Reports,
             NEW status \in {"CONFIRMED", "REJECTED", "RECOVERED", "CANCELLED"},
             Review(r, status)
      PROVE  IndInv'
  BY <1>4, ReviewInv
<1>5. ASSUME NEW k \in Sales,
             \/ cancelByUser(k) \/ accept(k) \/ rejectSale(k) \/ markReceived(k)
             \/ \E passed \in BOOLEAN : inspect(k, passed)
             \/ AcceptOffer(k) \/ DeclineOffer(k) \/ OfferDeadline(k)
             \/ expireOffers(k) \/ requestReturn(k) \/ markReturned(k)
             \/ \E a \in Admins : approve(k, a) \/ \E s \in Sessions : LockPay(s, k, a)
             \/ \E p \in Prices : offer(k, p)
      PROVE  IndInv'
  <2>1. CASE cancelByUser(k) \/ rejectSale(k) \/ markReturned(k)
    BY <2>1, ReleasesInv
  <2>2. CASE \/ accept(k) \/ markReceived(k) \/ requestReturn(k)
             \/ DeclineOffer(k) \/ expireOffers(k)
             \/ \E passed \in BOOLEAN : inspect(k, passed)
    BY <2>2, MovesInv
  <2>3. CASE AcceptOffer(k) \/ OfferDeadline(k)
    BY <2>3, AcceptOfferInv, OfferDeadlineInv
  <2>4. CASE \E a \in Admins : approve(k, a) \/ \E s \in Sessions : LockPay(s, k, a)
    BY <2>4, approveInv, LockPayInv
  <2>5. CASE \E p \in Prices : offer(k, p)
    BY <2>5, offerInv
  <2> QED BY <1>5, <2>1, <2>2, <2>3, <2>4, <2>5
<1>6. ASSUME NEW s \in Sessions,
             \/ LockConfirm(s) \/ FinishConfirm(s) \/ FinishReport(s)
             \/ FinishPay(s) \/ Abort(s)
      PROVE  IndInv'
  BY <1>6, LockConfirmInv, FinishConfirmInv, FinishReportInv, FinishPayInv, AbortInv
<1> QED BY <1>1, <1>2, <1>3, <1>4, <1>5, <1>6 DEF Next

\* The inductive invariant: what the rows of a bar say of each other, and what
\* every call that holds one of them knows.
THEOREM BullionInvariance == Spec => []IndInv
<1>1. Init => IndInv
  BY InitInv
<1>2. IndInv /\ [Next]_vars => IndInv'
  BY NextInv
<1> QED BY <1>1, <1>2, PTL DEF Spec

\* Every variable keeps the form of its table.
THEOREM BullionTypes == Spec => []TypeOK
<1>1. IndInv => TypeOK
  BY DEF IndInv
<1> QED BY <1>1, BullionInvariance, PTL

\* The code, the owner, the pending transfer and the open sale of a bar agree,
\* although each is written by another service under another lock.
THEOREM OneStoryAlways == Spec => []OneStory
<1>1. IndInv => OneStory
  BY DEF IndInv, Story, OneStory
<1> QED BY <1>1, BullionInvariance, PTL

\* A bar reported stolen or lost has no transfer that could be confirmed, and
\* one report at a time, whatever confirmations are in flight.
THEOREM ReportsFreeze == Spec => []ReportFreezes
<1>1. IndInv => ReportFreezes
  BY DEF IndInv, Frozen, ReportFreezes
<1> QED BY <1>1, BullionInvariance, PTL

\* A sale is paid at the price its owner agreed to, and a large one by another
\* admin than the one who approved it.
THEOREM AlwaysPaidAsAgreed == Spec => []PaidAsAgreed
<1>1. IndInv => PaidAsAgreed
  <2>1. \A k \in Sales : sale[k].price \in Prices => sale[k].price # NoPrice
    BY BullionAssumption
  <2> QED BY <2>1 DEF IndInv, SaleInv, PaidAsAgreed
<1> QED BY <1>1, BullionInvariance, PTL

-----------------------------------------------------------------------------
(* The refinement of BarTitle.  IndInv is what makes the abstract state well *)
(* defined: a bar has one pending transfer and one open sale at most, and    *)
(* not both.                                                                 *)

-----------------------------------------------------------------------------
(* What the promise sees of a bar.                                           *)

\* The sales of a bar whose price is agreed to
Firm == {"ACCEPTED", "APPROVED"}
FirmSales(b) == {k \in Sales : sale[k].bar = b /\ sale[k].status \in Firm}

LEMMA Firms ==
  ASSUME NEW b \in Bars
  PROVE  /\ {k \in SalesOf(b) : sale[k].status \in {"ACCEPTED", "APPROVED"}}
              = FirmSales(b)
         /\ {k \in SalesOf(b) : sale[k].status \in {"ACCEPTED", "APPROVED"}}'
              = FirmSales(b)'
BY DEF SalesOf, FirmSales, Firm, OPEN_STATUSES, SaleStatuses

\* Nobody but the one whose request is pending is invited.
LEMMA InvitedIs ==
  ASSUME NEW b \in Bars
  PROVE  /\ PendingFor(b) = {} => InvitedTo(b) = NoUser
         /\ PendingFor(b)' = {} => InvitedTo(b)' = NoUser
         /\ \A t : PendingFor(b) = {t} => InvitedTo(b) = transfer[t].to
         /\ \A t : PendingFor(b)' = {t} => InvitedTo(b)' = transfer'[t].to
BY DEF InvitedTo

LEMMA AgreedIs ==
  ASSUME NEW b \in Bars
  PROVE  /\ FirmSales(b) = {} => Agreed(b) = NoPrice
         /\ FirmSales(b)' = {} => Agreed(b)' = NoPrice
         /\ \A k : FirmSales(b) = {k} => Agreed(b) = sale[k].agreed
         /\ \A k : FirmSales(b)' = {k} => Agreed(b)' = sale'[k].agreed
<1>1. ASSUME FirmSales(b) = {} PROVE Agreed(b) = NoPrice
  BY <1>1, Firms DEF Agreed
<1>2. ASSUME FirmSales(b)' = {} PROVE Agreed(b)' = NoPrice
  BY <1>2, Firms DEF Agreed
<1>3. ASSUME NEW k, FirmSales(b) = {k} PROVE Agreed(b) = sale[k].agreed
  BY <1>3, Firms DEF Agreed
<1>4. ASSUME NEW k, FirmSales(b)' = {k} PROVE Agreed(b)' = sale'[k].agreed
  BY <1>4, Firms DEF Agreed
<1> QED BY <1>1, <1>2, <1>3, <1>4

\* There is one such sale, and one pending transfer, at most.
LEMMA One ==
  ASSUME IndInv, NEW b \in Bars
  PROVE  /\ FirmSales(b) = {} \/ \E k \in Sales : FirmSales(b) = {k}
         /\ PendingFor(b) = {} \/ \E t \in Transfers : PendingFor(b) = {t}
         /\ FirmSales(b) \subseteq SalesOf(b)
<1>1. Story(b)
  BY DEF IndInv
<1>2. FirmSales(b) \subseteq SalesOf(b) /\ FirmSales(b) \subseteq Sales
  BY DEF FirmSales, Firm, SalesOf, OPEN_STATUSES, SaleStatuses
<1>3. PendingFor(b) \subseteq Transfers
  BY DEF PendingFor
<1>4. \A k, q \in FirmSales(b) : k = q
  BY <1>1, <1>2 DEF Story
<1>5. \A t, q \in PendingFor(b) : t = q
  BY <1>1 DEF Story
<1>6. ASSUME FirmSales(b) # {} PROVE \E k \in Sales : FirmSales(b) = {k}
  <2>1. PICK k \in FirmSales(b) : TRUE
    BY <1>6
  <2> QED BY <1>2, <1>4, <2>1
<1>7. ASSUME PendingFor(b) # {} PROVE \E t \in Transfers : PendingFor(b) = {t}
  <2>1. PICK t \in PendingFor(b) : TRUE
    BY <1>7
  <2> QED BY <1>3, <1>5, <2>1
<1> QED BY <1>2, <1>6, <1>7

\* Rows that keep what matters keep the promise's state.
LEMMA InvitedKept ==
  ASSUME IndInv, NEW b \in Bars, PendingFor(b)' = PendingFor(b),
         \A t \in PendingFor(b) : transfer'[t].to = transfer[t].to
  PROVE  InvitedTo(b)' = InvitedTo(b)
BY One, InvitedIs

LEMMA AgreedKept ==
  ASSUME IndInv, NEW b \in Bars, FirmSales(b)' = FirmSales(b),
         \A k \in FirmSales(b) : sale'[k].agreed = sale[k].agreed
  PROVE  Agreed(b)' = Agreed(b)
BY One, AgreedIs

\* Only the bar b is concerned.
InvitedMoves(b) ==
  \A c \in Bars \ {b} : InvitedTo(c)' = InvitedTo(c)
AgreedMoves(b) ==
  \A c \in Bars \ {b} : Agreed(c)' = Agreed(c)

LEMMA Moves ==
  ASSUME NEW b \in Bars
  PROVE  /\ InvitedMoves(b) =>
              [c \in Bars |-> InvitedTo(c)]' =
                [[c \in Bars |-> InvitedTo(c)] EXCEPT ![b] = InvitedTo(b)']
         /\ AgreedMoves(b) =>
              [c \in Bars |-> Agreed(c)]' =
                [[c \in Bars |-> Agreed(c)] EXCEPT ![b] = Agreed(b)']
BY DEF InvitedMoves, AgreedMoves

LEMMA SameTransfers ==
  ASSUME IndInv, UNCHANGED transfer
  PROVE  /\ \A b \in Bars : InvitedTo(b)' = InvitedTo(b)
         /\ UNCHANGED [b \in Bars |-> InvitedTo(b)]
<1>1. ASSUME NEW b \in Bars PROVE InvitedTo(b)' = InvitedTo(b)
  BY InvitedKept DEF PendingFor
<1> QED BY <1>1

LEMMA SameSales ==
  ASSUME IndInv, UNCHANGED sale
  PROVE  /\ \A b \in Bars : Agreed(b)' = Agreed(b)
         /\ UNCHANGED [b \in Bars |-> Agreed(b)]
<1>1. ASSUME NEW b \in Bars PROVE Agreed(b)' = Agreed(b)
  BY AgreedKept DEF FirmSales
<1> QED BY <1>1

LEMMA Stutter ==
  ASSUME IndInv, UNCHANGED <<owner, transfer, sale>>
  PROVE  UNCHANGED Title!vars
BY SameTransfers, SameSales DEF Title!vars

\* A bar without an open sale is agreed on with nobody.
LEMMA NotForSale ==
  ASSUME IndInv, NEW b \in Bars, code[b] # "BUYBACK_PENDING"
  PROVE  FirmSales(b) = {} /\ Agreed(b) = NoPrice
<1>1. SalesOf(b) = {}
  BY Settled
<1>2. FirmSales(b) = {}
  BY <1>1 DEF FirmSales, Firm, SalesOf, OPEN_STATUSES, SaleStatuses
<1> QED BY <1>2, AgreedIs

-----------------------------------------------------------------------------
(* The bar is issued, given, or kept from being given.                       *)

\* A step that writes only transfers of b leaves the other bars alone.
OnlyTransfersOf(b) ==
  \A t \in Transfers : \/ transfer'[t] = transfer[t]
                       \/ /\ transfer'[t].bar = b
                          /\ transfer[t].bar = b \/ transfer[t].status = "none"

LEMMA OtherInvitations ==
  ASSUME IndInv, NEW b \in Bars, OnlyTransfersOf(b)
  PROVE  InvitedMoves(b)
<1>1. ASSUME NEW c \in Bars \ {b} PROVE InvitedTo(c)' = InvitedTo(c)
  <2>1. /\ PendingFor(c)' = PendingFor(c)
        /\ \A t \in PendingFor(c) : transfer'[t] = transfer[t]
    BY DEF OnlyTransfersOf, PendingFor
  <2> QED BY <2>1, InvitedKept
<1> QED BY <1>1 DEF InvitedMoves

LEMMA assignIssues ==
  ASSUME IndInv, NEW b \in Bars, NEW u \in Users, assignCode(b, u, FALSE)
  PROVE  Title!Issue(b, u)
<1>1. /\ code[b] = "UNASSIGNED" /\ owner' = [owner EXCEPT ![b] = u]
      /\ UNCHANGED <<transfer, sale>>
  BY DEF assignCode
<1>2. owner[b] = NoUser /\ PendingFor(b) = {}
  BY <1>1, Settled DEF Story
<1>3. InvitedTo(b) = NoUser
  BY <1>2, InvitedIs
<1> QED BY <1>1, <1>2, <1>3, SameTransfers, SameSales DEF Title!Issue

\* A first assignment to another person, and a gift
LEMMA InviteInvites ==
  ASSUME IndInv, NEW b \in Bars, NEW u \in Users, NEW x \in Transfer,
         NEW t \in Transfers, x.status = "PENDING", x.bar = b, x.to = u,
         code[b] \in {"UNASSIGNED", "ASSIGNED"}, owner[b] # u,
         transfer[t].status = "none",
         transfer' = [transfer EXCEPT ![t] = x], UNCHANGED <<owner, sale>>
  PROVE  Title!Invite(b, u)
<1>1. PendingFor(b) = {} /\ Agreed(b) = NoPrice
  BY Settled, NotForSale
<1>2. /\ PendingFor(b)' = {t} /\ transfer'[t] = x
      /\ \A q \in Transfers \ {t} : transfer'[q] = transfer[q]
  BY <1>1, Invited
<1>3. InvitedTo(b) = NoUser /\ InvitedTo(b)' = u
  BY <1>1, <1>2, InvitedIs
<1>4. InvitedMoves(b)
  BY <1>2, OtherInvitations DEF OnlyTransfersOf
<1>5. [c \in Bars |-> InvitedTo(c)]' = [[c \in Bars |-> InvitedTo(c)] EXCEPT ![b] = u]
  BY <1>3, <1>4, Moves
<1> QED BY <1>1, <1>3, <1>5, SameSales DEF Title!Invite

LEMMA assignInvites ==
  ASSUME IndInv, NEW b \in Bars, NEW u \in Users,
         assignCode(b, u, TRUE) \/ initiate(b, u)
  PROVE  Title!Invite(b, u)
<1>1. CASE assignCode(b, u, TRUE)
  <2> DEFINE x == [status |-> "PENDING", bar |-> b, kind |-> "INITIAL_PURCHASE",
                   to |-> u, late |-> FALSE]
  <2>1. PICK t \in Transfers : /\ Next1(transfer, t)
                               /\ transfer' = [transfer EXCEPT ![t] = x]
    BY <1>1 DEF assignCode
  <2>2. /\ code[b] = "UNASSIGNED" /\ UNCHANGED <<owner, sale>>
        /\ transfer[t].status = "none"
    BY <1>1, <2>1 DEF assignCode, Next1
  <2>3. owner[b] # u
    BY <2>2, Settled, BullionAssumption DEF Story
  <2>4. x \in Transfer /\ x.status = "PENDING" /\ x.bar = b /\ x.to = u
    BY DEF Transfer
  <2> HIDE DEF x
  <2> QED BY <2>1, <2>2, <2>3, <2>4, InviteInvites
<1>2. CASE initiate(b, u)
  <2> DEFINE x == [status |-> "PENDING", bar |-> b, kind |-> "GIFT_TRANSFER",
                   to |-> u, late |-> FALSE]
  <2>1. PICK t \in Transfers : /\ Next1(transfer, t)
                               /\ transfer' = [transfer EXCEPT ![t] = x]
    BY <1>2 DEF initiate
  <2>2. /\ code[b] = "ASSIGNED" /\ UNCHANGED <<owner, sale>> /\ owner[b] # u
        /\ transfer[t].status = "none"
    BY <1>2, <2>1 DEF initiate, Next1
  <2>4. x \in Transfer /\ x.status = "PENDING" /\ x.bar = b /\ x.to = u
    BY DEF Transfer
  <2> HIDE DEF x
  <2> QED BY <2>1, <2>2, <2>4, InviteInvites
<1> QED BY <1>1, <1>2

\* What withdraws the pending transfer of b, if it has one
LEMMA Withdraws ==
  ASSUME IndInv, NEW b \in Bars, PendingFor(b)' = {}, OnlyTransfersOf(b),
         UNCHANGED <<owner, sale>>
  PROVE  Title!Withdraw(b) \/ UNCHANGED Title!vars
<1>1. InvitedTo(b)' = NoUser /\ InvitedMoves(b)
  BY InvitedIs, OtherInvitations
<1>2. [c \in Bars |-> InvitedTo(c)]' = [[c \in Bars |-> InvitedTo(c)] EXCEPT ![b] = NoUser]
  BY <1>1, Moves
<1>3. CASE InvitedTo(b) = NoUser
  <2>1. UNCHANGED [c \in Bars |-> InvitedTo(c)]
    BY <1>1, <1>3 DEF InvitedMoves
  <2> QED BY <2>1, SameSales DEF Title!vars
<1>4. CASE InvitedTo(b) # NoUser
  BY <1>2, <1>4, SameSales DEF Title!Withdraw
<1> QED BY <1>3, <1>4

LEMMA cancelWithdraws ==
  ASSUME IndInv, NEW b \in Bars, cancelPendingForCode(b), UNCHANGED <<owner, sale>>
  PROVE  Title!Withdraw(b) \/ UNCHANGED Title!vars
<1>1. PendingFor(b)' = {} /\ OnlyTransfersOf(b)
  BY Withdrawn DEF OnlyTransfersOf
<1> QED BY <1>1, Withdraws

LEMMA NotConfirmedWithdraws ==
  ASSUME IndInv, NEW t \in Transfers, NEW status \in {"REJECTED", "EXPIRED"},
         NotConfirmed(t, status)
  PROVE  (\E b \in Bars : Title!Withdraw(b)) \/ UNCHANGED Title!vars
<1>1. /\ transfer \in [Transfers -> Transfer] /\ transfer[t] \in Transfer
      /\ transfer[t].status = "PENDING" /\ transfer[t].bar \in Bars
      /\ transfer' = [transfer EXCEPT ![t].status = status]
      /\ UNCHANGED <<owner, sale>>
  BY DEF IndInv, TypeOK, NotConfirmed, TransferInv
<1>2. PICK b \in Bars : b = transfer[t].bar
  BY <1>1
<1>3. /\ transfer'[t].status = status /\ transfer'[t].bar = b
      /\ \A q \in Transfers \ {t} : transfer'[q] = transfer[q]
  BY <1>1, <1>2 DEF Transfer
<1>4. PendingFor(b) = {t}
  BY <1>1, <1>2, One DEF PendingFor
<1>5. PendingFor(b)' = {}
  BY <1>3, <1>4 DEF PendingFor
<1>6. OnlyTransfersOf(b)
  BY <1>2, <1>3 DEF OnlyTransfersOf
<1> QED BY <1>1, <1>5, <1>6, Withdraws

LEMMA FinishConfirmAccepts ==
  ASSUME IndInv, NEW s \in Sessions, FinishConfirm(s)
  PROVE  \E b \in Bars : Title!Accept(b)
<1>1. TypeOK /\ tx[s].step = "confirm"
  BY DEF IndInv, FinishConfirm
<1>2. PICK t \in Transfers : t = tx[s].id
  BY <1>1, Calls
<1>3. /\ transfer[t].status = "PENDING" /\ transfer[t] \in Transfer
      /\ transfer[t].bar \in Bars /\ transfer[t].to \in Users
  BY <1>1, <1>2 DEF IndInv, SessionInv, TypeOK, TransferInv
<1>4. PICK b \in Bars : b = transfer[t].bar
  BY <1>3
<1>5. /\ owner' = [owner EXCEPT ![b] = transfer[t].to]
      /\ transfer' = [transfer EXCEPT ![t].status = "CONFIRMED"]
      /\ UNCHANGED sale
  BY <1>2, <1>4 DEF FinishConfirm
<1>6. /\ transfer'[t].status = "CONFIRMED" /\ transfer'[t].bar = b
      /\ \A q \in Transfers \ {t} : transfer'[q] = transfer[q]
  BY <1>1, <1>3, <1>4, <1>5 DEF TypeOK, Transfer
<1>7. PendingFor(b) = {t}
  BY <1>3, <1>4, One DEF PendingFor
<1>8. PendingFor(b)' = {}
  BY <1>6, <1>7 DEF PendingFor
<1>9. OnlyTransfersOf(b)
  BY <1>4, <1>6 DEF OnlyTransfersOf
<1>10. /\ InvitedTo(b) = transfer[t].to /\ InvitedTo(b) # NoUser
       /\ InvitedTo(b)' = NoUser
  BY <1>3, <1>7, <1>8, InvitedIs, BullionAssumption
<1>11. [c \in Bars |-> InvitedTo(c)]' =
         [[c \in Bars |-> InvitedTo(c)] EXCEPT ![b] = NoUser]
  BY <1>9, <1>10, OtherInvitations, Moves
<1>12. Title!Accept(b)
  BY <1>5, <1>10, <1>11, SameSales DEF Title!Accept
<1> QED BY <1>12

LEMMA TransferDeadlineStutters ==
  ASSUME IndInv, NEW t \in Transfers, TransferDeadline(t)
  PROVE  UNCHANGED Title!vars
<1>1. /\ transfer \in [Transfers -> Transfer]
      /\ transfer' = [transfer EXCEPT ![t].late = TRUE]
      /\ UNCHANGED <<owner, sale>>
  BY DEF IndInv, TypeOK, TransferDeadline
<1>2. \A q \in Transfers : /\ transfer'[q].status = transfer[q].status
                           /\ transfer'[q].bar = transfer[q].bar
                           /\ transfer'[q].to = transfer[q].to
  BY <1>1 DEF Transfer
<1>3. ASSUME NEW b \in Bars PROVE InvitedTo(b)' = InvitedTo(b)
  <2>1. /\ PendingFor(b)' = PendingFor(b)
        /\ \A q \in PendingFor(b) : transfer'[q].to = transfer[q].to
    BY <1>2 DEF PendingFor
  <2> QED BY <2>1, InvitedKept
<1> QED BY <1>1, <1>3, SameSales DEF Title!vars

-----------------------------------------------------------------------------
(* The bar is sold back.                                                     *)

\* A step that writes one sale: the bars of the others are left alone.
LEMMA SaleWritten ==
  ASSUME IndInv, NEW k \in Sales, NEW b \in Bars, NEW x \in Sale,
         x.bar = b, sale[k].bar = b \/ sale[k].status \notin Firm,
         sale' = [sale EXCEPT ![k] = x]
  PROVE  /\ sale'[k] = x /\ AgreedMoves(b)
         /\ FirmSales(b)' = IF x.status \in Firm THEN FirmSales(b) \cup {k}
                                                 ELSE FirmSales(b) \ {k}
<1>1. sale'[k] = x /\ \A q \in Sales \ {k} : sale'[q] = sale[q]
  BY DEF IndInv, TypeOK
<1>2. ASSUME NEW c \in Bars \ {b} PROVE Agreed(c)' = Agreed(c)
  <2>1. /\ FirmSales(c)' = FirmSales(c)
        /\ \A q \in FirmSales(c) : sale'[q] = sale[q]
    BY <1>1 DEF FirmSales
  <2> QED BY <2>1, AgreedKept
<1>3. FirmSales(b)' = IF x.status \in Firm THEN FirmSales(b) \cup {k}
                                           ELSE FirmSales(b) \ {k}
  BY <1>1 DEF FirmSales
<1> QED BY <1>1, <1>2, <1>3 DEF AgreedMoves

\* A sale on which nobody has agreed, before and after
LEMMA SaleStutters ==
  ASSUME IndInv, NEW k \in Sales, NEW x \in Sale, x.bar \in Bars,
         sale[k].status \notin Firm, x.status \notin Firm,
         sale' = [sale EXCEPT ![k] = x], UNCHANGED <<owner, transfer>>
  PROVE  UNCHANGED Title!vars
<1>1. PICK b \in Bars : b = x.bar
  OBVIOUS
<1>2. AgreedMoves(b) /\ FirmSales(b)' = FirmSales(b) \ {k}
  BY <1>1, SaleWritten
<1>3. FirmSales(b)' = FirmSales(b) /\ \A q \in FirmSales(b) : q \in Sales \ {k}
  BY <1>2 DEF FirmSales
<1>4. \A q \in FirmSales(b) : sale'[q].agreed = sale[q].agreed
  BY <1>3
<1>5. Agreed(b)' = Agreed(b)
  BY <1>3, <1>4, AgreedKept
<1>6. UNCHANGED [c \in Bars |-> Agreed(c)]
  BY <1>2, <1>5 DEF AgreedMoves
<1> QED BY <1>6, SameTransfers DEF Title!vars

LEMMA createStutters ==
  ASSUME IndInv, NEW b \in Bars, createSale(b)
  PROVE  UNCHANGED Title!vars
<1> DEFINE x == [NoSale EXCEPT !.status = "SUBMITTED", !.bar = b, !.user = owner[b]]
<1>1. PICK k \in Sales : Next1(sale, k) /\ sale' = [sale EXCEPT ![k] = x]
  BY DEF createSale
<1>2. /\ sale[k].status = "none" /\ owner[b] \in Users
      /\ UNCHANGED <<owner, transfer>>
  BY <1>1 DEF createSale, Next1
<1>3. x \in Sale /\ x.bar = b /\ x.status = "SUBMITTED"
  BY <1>2 DEF NoSale, Sale, SaleStatuses
<1> HIDE DEF x
<1> QED BY <1>1, <1>2, <1>3, SaleStutters DEF Firm

\* A sale that moves on without being agreed to, or a bar given back
LEMMA ChangeStutters ==
  ASSUME IndInv, NEW k \in Sales, NEW to \in OPEN_STATUSES \cup {"CANCELLED",
         "REJECTED", "RETURNED"}, to \notin Firm,
         sale[k].status \in OPEN_STATUSES \ Firm,
         sale' = [sale EXCEPT ![k].status = to], UNCHANGED <<owner, transfer>>
  PROVE  UNCHANGED Title!vars
<1> DEFINE x == [sale[k] EXCEPT !.status = to]
<1>1. sale[k] \in Sale /\ sale[k].bar \in Bars /\ to \in SaleStatuses
  BY OpenSale DEF OPEN_STATUSES, SaleStatuses
<1>2. x \in Sale /\ x.bar = sale[k].bar /\ x.status = to
  BY <1>1 DEF Sale
<1>3. sale' = [sale EXCEPT ![k] = x]
  OBVIOUS
<1> HIDE DEF x
<1> QED BY <1>1, <1>2, <1>3, SaleStutters

\* What the price, the deadline or the admin's approval are written to
LEMMA offerStutters ==
  ASSUME IndInv, NEW k \in Sales, NEW p \in Prices, offer(k, p)
  PROVE  UNCHANGED Title!vars
<1> DEFINE x == [sale[k] EXCEPT !.status = "OFFERED", !.late = FALSE, !.price = p]
<1>1. /\ sale[k].status \in {"INSPECTION_PASSED", "OFFERED"}
      /\ sale' = [sale EXCEPT ![k] = x] /\ UNCHANGED <<owner, transfer>>
  BY DEF offer, Allowed
<1>2. sale[k] \in Sale /\ sale[k].bar \in Bars
  BY <1>1, OpenSale DEF OPEN_STATUSES, SaleStatuses
<1>3. x \in Sale /\ x.bar = sale[k].bar /\ x.status = "OFFERED"
  BY <1>2 DEF Sale, SaleStatuses
<1> HIDE DEF x
<1> QED BY <1>1, <1>2, <1>3, SaleStutters DEF Firm

LEMMA OfferDeadlineStutters ==
  ASSUME IndInv, NEW k \in Sales, OfferDeadline(k)
  PROVE  UNCHANGED Title!vars
<1> DEFINE x == [sale[k] EXCEPT !.late = TRUE]
<1>1. /\ sale[k].status = "OFFERED"
      /\ sale' = [sale EXCEPT ![k] = x] /\ UNCHANGED <<owner, transfer>>
  BY DEF OfferDeadline
<1>2. sale[k] \in Sale /\ sale[k].bar \in Bars
  BY <1>1, OpenSale DEF OPEN_STATUSES, SaleStatuses
<1>3. x \in Sale /\ x.bar = sale[k].bar /\ x.status = "OFFERED"
  BY <1>1, <1>2 DEF Sale
<1> HIDE DEF x
<1> QED BY <1>1, <1>2, <1>3, SaleStutters DEF Firm

\* An open sale that is agreed to is the only one of its bar.
LEMMA FirmOne ==
  ASSUME IndInv, NEW k \in Sales, sale[k].status \in OPEN_STATUSES
  PROVE  FirmSales(sale[k].bar) = IF sale[k].status \in Firm THEN {k} ELSE {}
<1>1. PICK b \in Bars : b = sale[k].bar /\ SalesOf(b) = {k}
  BY OpenSale
<1>2. FirmSales(b) \subseteq {k}
  BY <1>1, One
<1> QED BY <1>1, <1>2 DEF FirmSales

LEMMA AcceptAgrees ==
  ASSUME IndInv, NEW k \in Sales, AcceptOffer(k)
  PROVE  \E b \in Bars, p \in Prices : Title!Agree(b, p)
<1>1. PICK p \in Prices : p = sale[k].price
  BY DEF IndInv, SaleInv, AcceptOffer, Allowed
<1> DEFINE x == [sale[k] EXCEPT !.status = "ACCEPTED", !.agreed = p]
<1>2. /\ sale[k].status = "OFFERED" /\ UNCHANGED <<owner, transfer>>
      /\ sale' = [sale EXCEPT ![k] = x]
  BY <1>1 DEF AcceptOffer, Allowed
<1>3. sale[k].status \in OPEN_STATUSES
  BY <1>2 DEF OPEN_STATUSES, SaleStatuses
<1>4. PICK b \in Bars : /\ b = sale[k].bar /\ sale[k] \in Sale
                        /\ code[b] = "BUYBACK_PENDING" /\ owner[b] \in Users
  BY <1>3, OpenSale
<1>5. /\ x \in Sale /\ x.bar = b /\ x.status = "ACCEPTED" /\ x.agreed = p
  BY <1>4 DEF Sale, SaleStatuses
<1> HIDE DEF x
<1>6. FirmSales(b) = {} /\ PendingFor(b) = {}
  BY <1>2, <1>3, <1>4, FirmOne, Settled DEF Firm
<1>7. sale'[k] = x /\ AgreedMoves(b) /\ FirmSales(b)' = {k}
  <2>1. x.status \in Firm
    BY <1>5 DEF Firm
  <2>2. sale[k].bar = b /\ FirmSales(b) \cup {k} = {k}
    BY <1>4, <1>6
  <2> QED BY <1>2, <1>5, <2>1, <2>2, SaleWritten
<1>8. Agreed(b) = NoPrice /\ InvitedTo(b) = NoUser /\ Agreed(b)' = p
  BY <1>5, <1>6, <1>7, AgreedIs, InvitedIs
<1>9. [c \in Bars |-> Agreed(c)]' = [[c \in Bars |-> Agreed(c)] EXCEPT ![b] = p]
  BY <1>7, <1>8, Moves
<1>10. owner[b] # NoUser
  BY <1>4, BullionAssumption
<1>11. Title!Agree(b, p)
  BY <1>2, <1>8, <1>9, <1>10, SameTransfers DEF Title!Agree
<1> QED BY <1>11

LEMMA approveStutters ==
  ASSUME IndInv, NEW k \in Sales, NEW a \in Admins, approve(k, a)
  PROVE  UNCHANGED Title!vars
<1> DEFINE x == [sale[k] EXCEPT !.status = "APPROVED", !.approvedBy = a]
<1>1. /\ sale[k].status = "ACCEPTED" /\ UNCHANGED <<owner, transfer>>
      /\ sale' = [sale EXCEPT ![k] = x]
  BY DEF approve, Allowed
<1>2. sale[k].status \in OPEN_STATUSES
  BY <1>1 DEF OPEN_STATUSES, SaleStatuses
<1>3. PICK b \in Bars : b = sale[k].bar /\ sale[k] \in Sale
  BY <1>2, OpenSale
<1>4. /\ x \in Sale /\ x.bar = b /\ x.status = "APPROVED"
      /\ x.agreed = sale[k].agreed
  BY <1>3 DEF Sale, SaleStatuses
<1> HIDE DEF x
<1>5. FirmSales(b) = {k}
  BY <1>1, <1>2, <1>3, FirmOne DEF Firm
<1>6. sale'[k] = x /\ AgreedMoves(b) /\ FirmSales(b)' = {k}
  <2>1. x.status \in Firm
    BY <1>4 DEF Firm
  <2>2. sale[k].bar = b /\ FirmSales(b) \cup {k} = {k}
    BY <1>3, <1>5
  <2> QED BY <1>1, <1>4, <2>1, <2>2, SaleWritten
<1>7. Agreed(b)' = Agreed(b)
  BY <1>4, <1>5, <1>6, AgreedIs
<1>8. UNCHANGED [c \in Bars |-> Agreed(c)]
  BY <1>6, <1>7 DEF AgreedMoves
<1> QED BY <1>1, <1>8, SameTransfers DEF Title!vars

LEMMA returnFallsThrough ==
  ASSUME IndInv, NEW k \in Sales, requestReturn(k)
  PROVE  (\E b \in Bars : Title!FallThrough(b)) \/ UNCHANGED Title!vars
<1> DEFINE x == [sale[k] EXCEPT !.status = "RETURN_PENDING"]
<1>1. /\ sale[k].status \in {"RECEIVED", "INSPECTION_PASSED", "OFFERED",
                             "ACCEPTED", "APPROVED"}
      /\ UNCHANGED <<owner, transfer>>
      /\ sale' = [sale EXCEPT ![k] = x]
      /\ sale' = [sale EXCEPT ![k].status = "RETURN_PENDING"]
  BY DEF requestReturn, Move, Allowed
<1>2. sale[k].status \in OPEN_STATUSES /\ "RETURN_PENDING" \in OPEN_STATUSES
  BY <1>1 DEF OPEN_STATUSES, SaleStatuses
<1>3. CASE sale[k].status \notin Firm
  <2>1. "RETURN_PENDING" \notin Firm /\ sale[k].status \in OPEN_STATUSES \ Firm
    BY <1>2, <1>3 DEF Firm
  <2> QED BY <1>1, <1>2, <2>1, ChangeStutters
<1>4. CASE sale[k].status \in Firm
  <2>1. PICK b \in Bars : b = sale[k].bar /\ sale[k] \in Sale
    BY <1>2, OpenSale
  <2>2. x \in Sale /\ x.bar = b /\ x.status = "RETURN_PENDING"
    BY <2>1 DEF Sale, SaleStatuses
  <2> HIDE DEF x
  <2>3. FirmSales(b) = {k}
    BY <1>2, <1>4, <2>1, FirmOne
  <2>4. AgreedMoves(b) /\ FirmSales(b)' = {}
    <3>1. x.status \notin Firm
      BY <2>2 DEF Firm
    <3>2. sale[k].bar = b /\ FirmSales(b) \ {k} = {}
      BY <2>1, <2>3
    <3> QED BY <1>1, <2>2, <3>1, <3>2, SaleWritten
  <2>5. Agreed(b) = sale[k].agreed /\ Agreed(b)' = NoPrice
    BY <2>3, <2>4, AgreedIs
  <2>6. Agreed(b) # NoPrice
    BY <1>4, <2>5, BullionAssumption DEF IndInv, SaleInv, Firm
  <2>7. [c \in Bars |-> Agreed(c)]' = [[c \in Bars |-> Agreed(c)] EXCEPT ![b] = NoPrice]
    BY <2>4, <2>5, Moves
  <2>8. Title!FallThrough(b)
    BY <1>1, <2>6, <2>7, SameTransfers DEF Title!FallThrough
  <2> QED BY <2>8
<1> QED BY <1>3, <1>4

LEMMA FinishPayBuys ==
  ASSUME IndInv, NEW s \in Sessions, FinishPay(s)
  PROVE  \E b \in Bars : Title!Buy(b)
<1>1. TypeOK /\ tx[s].step = "pay" /\ SessionInv(s)
  BY DEF IndInv, FinishPay
<1>2. PICK k \in Sales, a \in Admins : k = tx[s].id /\ a = tx[s].admin
  BY <1>1, Calls
<1>3. sale[k].status = "APPROVED" /\ sale[k].status \in OPEN_STATUSES
  BY <1>1, <1>2 DEF SessionInv, OPEN_STATUSES, SaleStatuses
<1>4. PICK b \in Bars : /\ b = sale[k].bar /\ sale[k] \in Sale
                        /\ code[b] = "BUYBACK_PENDING"
  BY <1>3, OpenSale
<1> DEFINE x == [sale[k] EXCEPT !.status = "PAID", !.paidBy = a]
<1>5. /\ owner' = [owner EXCEPT ![b] = NoUser] /\ cancelPendingForCode(b)
      /\ sale' = [sale EXCEPT ![k] = x]
  BY <1>2, <1>4 DEF FinishPay
<1>6. x \in Sale /\ x.bar = b /\ x.status = "PAID"
  BY <1>4 DEF Sale, SaleStatuses
<1> HIDE DEF x
<1>7. FirmSales(b) = {k}
  BY <1>3, <1>4, FirmOne DEF Firm
<1>8. AgreedMoves(b) /\ FirmSales(b)' = {}
  <2>1. x.status \notin Firm
    BY <1>6 DEF Firm
  <2>2. sale[k].bar = b /\ FirmSales(b) \ {k} = {}
    BY <1>4, <1>7
  <2> QED BY <1>5, <1>6, <2>1, <2>2, SaleWritten
<1>9. Agreed(b) # NoPrice /\ Agreed(b)' = NoPrice
  BY <1>3, <1>7, <1>8, AgreedIs, BullionAssumption DEF IndInv, SaleInv
<1>10. [c \in Bars |-> Agreed(c)]' = [[c \in Bars |-> Agreed(c)] EXCEPT ![b] = NoPrice]
  BY <1>8, <1>9, Moves
<1>11. PendingFor(b) = {}
  BY <1>4, Settled
<1>12. UNCHANGED [c \in Bars |-> InvitedTo(c)]
  <2>1. \A t \in Transfers : transfer'[t] = transfer[t]
    BY <1>5, <1>11, Withdrawn
  <2>2. ASSUME NEW c \in Bars PROVE InvitedTo(c)' = InvitedTo(c)
    BY <2>1, InvitedKept DEF PendingFor
  <2> QED BY <2>2
<1>13. Title!Buy(b)
  BY <1>5, <1>9, <1>10, <1>12 DEF Title!Buy
<1> QED BY <1>13

-----------------------------------------------------------------------------
(* Every step.                                                               *)

\* The steps that move a sale on, or give the bar back, before it is agreed on
LEMMA MovesStutter ==
  ASSUME IndInv, NEW k \in Sales,
         \/ accept(k) \/ markReceived(k) \/ DeclineOffer(k) \/ expireOffers(k)
         \/ \E passed \in BOOLEAN : inspect(k, passed)
         \/ cancelByUser(k) \/ rejectSale(k) \/ markReturned(k)
  PROVE  UNCHANGED Title!vars
<1> DEFINE Before == {"SUBMITTED", "AWAITING_DELIVERY", "RECEIVED",
                      "INSPECTION_PASSED", "OFFERED", "RETURN_PENDING"}
           After == {"AWAITING_DELIVERY", "RECEIVED", "INSPECTION_PASSED",
                     "RETURN_PENDING", "CANCELLED", "REJECTED", "RETURNED"}
<1>1. /\ \E to \in After : sale' = [sale EXCEPT ![k].status = to]
      /\ sale[k].status \in Before /\ UNCHANGED <<owner, transfer>>
  <2>1. CASE accept(k) \/ markReceived(k) \/ DeclineOffer(k) \/ expireOffers(k)
    BY <2>1 DEF accept, markReceived, DeclineOffer, expireOffers, Move, Allowed
  <2>2. CASE \E passed \in BOOLEAN : inspect(k, passed)
    BY <2>2 DEF inspect, Move, Allowed
  <2>3. CASE cancelByUser(k) \/ rejectSale(k) \/ markReturned(k)
    BY <2>3 DEF cancelByUser, rejectSale, markReturned, Release, Allowed
  <2> QED BY <2>1, <2>2, <2>3
<1>2. PICK to \in After : sale' = [sale EXCEPT ![k].status = to]
  BY <1>1
<1>3. to \notin Firm /\ to \in OPEN_STATUSES \cup {"CANCELLED", "REJECTED", "RETURNED"}
  BY DEF Firm, OPEN_STATUSES, SaleStatuses
<1>4. sale[k].status \in OPEN_STATUSES \ Firm
  BY <1>1 DEF Firm, OPEN_STATUSES, SaleStatuses
<1> QED BY <1>1, <1>2, <1>3, <1>4, ChangeStutters

LEMMA FinishReportWithdraws ==
  ASSUME IndInv, NEW s \in Sessions, FinishReport(s)
  PROVE  (\E b \in Bars : Title!Withdraw(b)) \/ UNCHANGED Title!vars
<1>1. PICK b \in Bars : b = tx[s].bar
  BY Calls DEF IndInv, FinishReport
<1>2. UNCHANGED <<owner, sale>> /\ (cancelPendingForCode(b) \/ UNCHANGED transfer)
  BY <1>1 DEF FinishReport
<1> QED BY <1>2, cancelWithdraws, Stutter

LEMMA TitleInit == Init => Title!Init
<1> SUFFICES ASSUME Init PROVE Title!Init
  OBVIOUS
<1>1. IndInv
  BY InitInv
<1>2. /\ \A t \in Transfers : transfer[t].status = "none"
      /\ \A k \in Sales : sale[k].status = "none"
      /\ owner = [b \in Bars |-> NoUser]
  BY DEF Init, NoTransfer, NoSale
<1>3. ASSUME NEW b \in Bars PROVE InvitedTo(b) = NoUser /\ Agreed(b) = NoPrice
  <2>1. PendingFor(b) = {} /\ FirmSales(b) = {}
    BY <1>2 DEF PendingFor, FirmSales, Firm
  <2> QED BY <2>1, InvitedIs, AgreedIs
<1> QED BY <1>2, <1>3 DEF Title!Init

LEMMA TitleStep == IndInv /\ [Next]_vars => [Title!Next]_(Title!vars)
<1> SUFFICES ASSUME IndInv, [Next]_vars PROVE [Title!Next]_(Title!vars)
  OBVIOUS
<1>1. CASE UNCHANGED vars
  BY <1>1, Stutter DEF vars
<1>2. ASSUME NEW b \in Bars, NEW u \in Users,
             initiate(b, u) \/ assignCode(b, u, TRUE) \/ assignCode(b, u, FALSE)
      PROVE  Title!Next
  BY <1>2, assignIssues, assignInvites DEF Title!Next
<1>3. ASSUME NEW b \in Bars,
             \/ revokeCode(b) \/ createSale(b)
             \/ \E s \in Sessions : createByOwner(s, b) \/ createByAdmin(s, b)
      PROVE  [Title!Next]_(Title!vars)
  <2>1. CASE revokeCode(b)
    BY <2>1, cancelWithdraws DEF revokeCode, Title!Next
  <2>2. CASE createSale(b)
    BY <2>2, createStutters
  <2>3. CASE \E s \in Sessions : createByOwner(s, b) \/ createByAdmin(s, b)
    BY <2>3, Stutter DEF createByOwner, createByAdmin, LockReport
  <2> QED BY <1>3, <2>1, <2>2, <2>3
<1>4. ASSUME NEW t \in Transfers,
             \/ rejectTransfer(t) \/ expireOne(t) \/ TransferDeadline(t)
             \/ \E s \in Sessions : StartConfirm(s, t)
      PROVE  [Title!Next]_(Title!vars)
  <2>1. CASE rejectTransfer(t) \/ expireOne(t)
    BY <2>1, NotConfirmedWithdraws DEF rejectTransfer, expireOne, Title!Next
  <2>2. CASE TransferDeadline(t)
    BY <2>2, TransferDeadlineStutters
  <2>3. CASE \E s \in Sessions : StartConfirm(s, t)
    BY <2>3, Stutter DEF StartConfirm
  <2> QED BY <1>4, <2>1, <2>2, <2>3
<1>5. ASSUME NEW r \in Reports,
             NEW status \in {"CONFIRMED", "REJECTED", "RECOVERED", "CANCELLED"},
             Review(r, status)
      PROVE  UNCHANGED Title!vars
  BY <1>5, Stutter DEF Review
<1>6. ASSUME NEW k \in Sales,
             \/ cancelByUser(k) \/ accept(k) \/ rejectSale(k) \/ markReceived(k)
             \/ \E passed \in BOOLEAN : inspect(k, passed)
             \/ AcceptOffer(k) \/ DeclineOffer(k) \/ OfferDeadline(k)
             \/ expireOffers(k) \/ requestReturn(k) \/ markReturned(k)
             \/ \E a \in Admins : approve(k, a) \/ \E s \in Sessions : LockPay(s, k, a)
             \/ \E p \in Prices : offer(k, p)
      PROVE  [Title!Next]_(Title!vars)
  <2>1. CASE AcceptOffer(k)
    BY <2>1, AcceptAgrees DEF Title!Next
  <2>2. CASE requestReturn(k)
    BY <2>2, returnFallsThrough DEF Title!Next
  <2>3. CASE OfferDeadline(k) \/ \E p \in Prices : offer(k, p)
    BY <2>3, OfferDeadlineStutters, offerStutters
  <2>4. CASE \E a \in Admins : approve(k, a) \/ \E s \in Sessions : LockPay(s, k, a)
    BY <2>4, approveStutters, Stutter DEF LockPay
  <2>5. CASE \/ accept(k) \/ markReceived(k) \/ DeclineOffer(k) \/ expireOffers(k)
             \/ \E passed \in BOOLEAN : inspect(k, passed)
             \/ cancelByUser(k) \/ rejectSale(k) \/ markReturned(k)
    BY <2>5, MovesStutter
  <2> QED BY <1>6, <2>1, <2>2, <2>3, <2>4, <2>5
<1>7. ASSUME NEW s \in Sessions,
             \/ LockConfirm(s) \/ FinishConfirm(s) \/ FinishReport(s)
             \/ FinishPay(s) \/ Abort(s)
      PROVE  [Title!Next]_(Title!vars)
  <2>1. CASE LockConfirm(s) \/ Abort(s)
    BY <2>1, Stutter DEF LockConfirm, Abort
  <2>2. CASE FinishConfirm(s)
    BY <2>2, FinishConfirmAccepts DEF Title!Next
  <2>3. CASE FinishReport(s)
    BY <2>3, FinishReportWithdraws DEF Title!Next
  <2>4. CASE FinishPay(s)
    BY <2>4, FinishPayBuys DEF Title!Next
  <2> QED BY <1>7, <2>1, <2>2, <2>3, <2>4
<1> QED BY <1>1, <1>2, <1>3, <1>4, <1>5, <1>6, <1>7 DEF Next

\* Whatever the hologram, transfer and buyback services do together, the title
\* to a bar moves only as BarTitle allows: to its first buyer, to the one
\* person invited, and back to the treasury at a price its holder agreed to.
THEOREM TitleAlwaysKept == Spec => TitleKept
  BY TitleInit, TitleStep, BullionInvariance, PTL DEF Spec, TitleKept, Title!Spec
=============================================================================
