---------------------------- MODULE OrderPromise ----------------------------
(***************************************************************************)
(* What the shop promises of its orders, to the user, the storekeeper and   *)
(* the bookkeeper at once: an order takes a unit off the shelf when it is   *)
(* placed, earns its price once when it is sold, and gives both back, each  *)
(* once, when it is closed.  Nothing is left of how it is paid, of who      *)
(* closes it, or of what was attempted in between.                          *)
(***************************************************************************)
EXTENDS Integers

CONSTANTS Orders, Price, Stock

VARIABLES life,     \* where each order is
          shelf,    \* units left
          income    \* account 4020, credit positive

vars == <<life, shelf, income>>

Init ==
  /\ life = [o \in Orders |-> "none"]
  /\ shelf = Stock
  /\ income = 0

Move(o, from, to) ==
  /\ life[o] = from
  /\ life' = [life EXCEPT ![o] = to]

Place(o) ==
  /\ Move(o, "none", "open")
  /\ shelf > 0
  /\ shelf' = shelf - 1
  /\ UNCHANGED income

Sell(o) ==
  /\ Move(o, "open", "sold")
  /\ income' = income + Price
  /\ UNCHANGED shelf

Close(o) ==
  /\ Move(o, "open", "closed")
  /\ shelf' = shelf + 1
  /\ UNCHANGED income

\* A sold order that has not left the shop yet
Refund(o) ==
  /\ Move(o, "sold", "refunded")
  /\ shelf' = shelf + 1
  /\ income' = income - Price

HandOver(o) == Move(o, "sold", "sent") /\ UNCHANGED <<shelf, income>>

Next == \E o \in Orders : \/ Place(o) \/ Sell(o) \/ Close(o)
                          \/ Refund(o) \/ HandOver(o)

Spec == Init /\ [][Next]_vars
=============================================================================
