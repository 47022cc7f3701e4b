------------------------------ MODULE Vending ------------------------------
(***************************************************************************)
(* What NoGhost promises the customer of one requestId, without banks,     *)
(* members or ledgers: the debit comes first, a token is made against it,  *)
(* the token is recorded and dispensed once, and a debit that is refunded  *)
(* is never dispensed, before or after.  The record may come late, even    *)
(* after the refund: it says that a token was made, not that it was given. *)
(***************************************************************************)
CONSTANT Requests

VARIABLES
    money,     \* money[r]: what happened to the customer's payment
    goods      \* goods[r]: how far the energy has come

TypeOK ==
    /\ money \in [Requests -> {"none", "charged", "refunded"}]
    /\ goods \in [Requests -> {"none", "token", "recorded", "delivered"}]

Init ==
    /\ money = [r \in Requests |-> "none"]
    /\ goods = [r \in Requests |-> "none"]

Charge(r) ==
    /\ money[r] = "none"
    /\ money' = [money EXCEPT ![r] = "charged"]
    /\ UNCHANGED goods

Sign(r) ==
    /\ money[r] = "charged" /\ goods[r] = "none"
    /\ goods' = [goods EXCEPT ![r] = "token"]
    /\ UNCHANGED money

\* The receipt reaches the ledger without the sale being completed.
Record(r) ==
    /\ money[r] # "none" /\ goods[r] = "token"
    /\ goods' = [goods EXCEPT ![r] = "recorded"]
    /\ UNCHANGED money

Deliver(r) ==
    /\ money[r] = "charged" /\ goods[r] = "token"
    /\ goods' = [goods EXCEPT ![r] = "delivered"]
    /\ UNCHANGED money

Refund(r) ==
    /\ money[r] = "charged" /\ goods[r] # "delivered"
    /\ money' = [money EXCEPT ![r] = "refunded"]
    /\ UNCHANGED goods

Next == \E r \in Requests : Charge(r) \/ Sign(r) \/ Record(r) \/ Deliver(r) \/ Refund(r)

Spec == Init /\ [][Next]_<<money, goods>>
=============================================================================
