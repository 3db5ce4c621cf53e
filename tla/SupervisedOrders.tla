-------------------------- MODULE SupervisedOrders --------------------------
(***************************************************************************)
(* What reporting promises, to the buyer and to the trade supervisor: a     *)
(* price is sold once, to a request the supervisor has approved, and the    *)
(* request's record leads to the order from then on, or asks for a review;  *)
(* a record says approved only when the supervisor said so, and what he     *)
(* approved stays approved.  Nothing is left of reservations, calls that    *)
(* are lost or late, transactions that roll back, and handlers that work on *)
(* old copies of a record.                                                  *)
(***************************************************************************)

CONSTANTS Requests, Locks,
          Unreported   \* requests the supervisor need not know of

VARIABLES sold,      \* sold[l]: the requests to which the price was sold
          approved,  \* what the supervisor has approved
          claimed,   \* records that say so
          traced     \* records that lead to an order, or to a person

vars == <<sold, approved, claimed, traced>>

Init ==
  /\ sold = [l \in Locks |-> {}]
  /\ approved = {} /\ claimed = {} /\ traced = {}

Sold(r) == \E l \in Locks : r \in sold[l]

Approve(r) ==
  /\ approved' = approved \cup {r}
  /\ UNCHANGED <<sold, claimed, traced>>

\* A record may be written from an old copy: it may lose an approval, and
\* the way to an order that is still to be made, but never invents or hides.
Write(r) ==
  /\ claimed' \in {claimed \ {r}, (claimed \cup {r}) \cap approved}
  /\ \/ traced' = traced \cup {r}
     \/ traced' = traced \ {r} /\ (Sold(r) => r \in Unreported)
  /\ UNCHANGED <<sold, approved>>

Sell(r, l) ==
  /\ ~Sold(r) /\ sold[l] = {}
  /\ r \in Unreported \/ r \in approved \cap traced
  /\ sold' = [sold EXCEPT ![l] = {r}]
  /\ UNCHANGED <<approved, claimed, traced>>

Next == \E r \in Requests : \/ Approve(r) \/ Write(r)
                            \/ \E l \in Locks : Sell(r, l)

Spec == Init /\ [][Next]_vars
=============================================================================
