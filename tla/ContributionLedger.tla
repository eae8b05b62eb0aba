-------------------------- MODULE ContributionLedger --------------------------
(***************************************************************************)
(* What the payment pipeline promises: each payment request fixes whom and *)
(* how much; a request is settled at most once; settling it, and nothing   *)
(* but settling it, adds its amount to what the guest has paid.            *)
(***************************************************************************)
EXTENDS Integers

CONSTANTS Guests, Refs, Amounts, None

VARIABLES invoice,  \* terms of each payment request, or None
          settled,  \* the payment requests whose money was counted
          paid      \* what each guest has paid

Init ==
    /\ invoice = [r \in Refs |-> None]
    /\ settled = {}
    /\ paid = [g \in Guests |-> 0]

Invoice(r) ==
    /\ invoice[r] = None
    /\ \E g \in Guests, a \in Amounts :
          invoice' = [invoice EXCEPT ![r] = [guest |-> g, amount |-> a]]
    /\ UNCHANGED <<settled, paid>>

Settle(r) ==
    /\ invoice[r] # None
    /\ r \notin settled
    /\ settled' = settled \cup {r}
    /\ paid' = [paid EXCEPT ![invoice[r].guest] = @ + invoice[r].amount]
    /\ UNCHANGED invoice

Next == \E r \in Refs : Invoice(r) \/ Settle(r)

Spec == Init /\ [][Next]_<<invoice, settled, paid>>
=============================================================================
