----------------------------- MODULE Settlement -----------------------------
(***************************************************************************)
(* What the billing backend promises about money: a prompt the subscriber  *)
(* confirmed on the phone may be booked, once, and nothing else ever is.   *)
(* PaymentSettlement (the callback handlers, their database transactions   *)
(* and their crashes) is shown to implement this specification.            *)
(***************************************************************************)
CONSTANT Payments

VARIABLES paid,    \* prompts the subscriber confirmed: the money has moved
          booked   \* payments that have their row in the transactions table

settlementVars == <<paid, booked>>

Init == paid = {} /\ booked = {}

Confirm(p) ==
    /\ p \notin paid
    /\ paid' = paid \cup {p}
    /\ UNCHANGED booked

Book(p) ==
    /\ p \in paid \ booked
    /\ booked' = booked \cup {p}
    /\ UNCHANGED paid

Next == \E p \in Payments : Confirm(p) \/ Book(p)

Spec == Init /\ [][Next]_settlementVars
=============================================================================
