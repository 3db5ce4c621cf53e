------------------------------ MODULE BarTitle ------------------------------
(***************************************************************************)
(* What the hologram, transfer and buyback services promise about the title *)
(* to a bullion bar, seen from outside: who holds it, who is invited to     *)
(* take it over, and for how much its holder has agreed to sell it back.    *)
(* Bullion implements it.                                                   *)
(***************************************************************************)
CONSTANTS Bars, Users, Prices, NoUser, NoPrice

VARIABLES title,    \* the holder of a bar; NoUser: the treasury
          invited,  \* who may take the bar over; NoUser: nobody
          agreed    \* the price its holder has agreed to; NoPrice: none

vars == <<title, invited, agreed>>

Init ==
  /\ title = [b \in Bars |-> NoUser]
  /\ invited = [b \in Bars |-> NoUser]
  /\ agreed = [b \in Bars |-> NoPrice]

\* The treasury hands a bar to its buyer.
Issue(b, u) ==
  /\ title[b] = NoUser /\ invited[b] = NoUser
  /\ title' = [title EXCEPT ![b] = u]
  /\ UNCHANGED <<invited, agreed>>

\* The holder, or the treasury, invites one person; nobody else is invited
\* and the bar is not being sold back.
Invite(b, u) ==
  /\ invited[b] = NoUser /\ agreed[b] = NoPrice /\ title[b] # u
  /\ invited' = [invited EXCEPT ![b] = u]
  /\ UNCHANGED <<title, agreed>>

Withdraw(b) ==
  /\ invited[b] # NoUser
  /\ invited' = [invited EXCEPT ![b] = NoUser]
  /\ UNCHANGED <<title, agreed>>

\* The one who is invited takes the bar over.
Accept(b) ==
  /\ invited[b] # NoUser
  /\ title' = [title EXCEPT ![b] = invited[b]]
  /\ invited' = [invited EXCEPT ![b] = NoUser]
  /\ UNCHANGED agreed

\* The holder agrees to a price; the sale is paid at that price or falls through.
Agree(b, p) ==
  /\ title[b] # NoUser /\ invited[b] = NoUser /\ agreed[b] = NoPrice
  /\ agreed' = [agreed EXCEPT ![b] = p]
  /\ UNCHANGED <<title, invited>>

FallThrough(b) ==
  /\ agreed[b] # NoPrice
  /\ agreed' = [agreed EXCEPT ![b] = NoPrice]
  /\ UNCHANGED <<title, invited>>

Buy(b) ==
  /\ agreed[b] # NoPrice
  /\ title' = [title EXCEPT ![b] = NoUser]
  /\ agreed' = [agreed EXCEPT ![b] = NoPrice]
  /\ UNCHANGED invited

Next ==
  \E b \in Bars :
    \/ \E u \in Users : Issue(b, u) \/ Invite(b, u)
    \/ \E p \in Prices : Agree(b, p)
    \/ Withdraw(b) \/ Accept(b) \/ FallThrough(b) \/ Buy(b)

Spec == Init /\ [][Next]_vars
=============================================================================
