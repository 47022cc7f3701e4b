-------------------------- MODULE MCSignerService --------------------------
EXTENDS SignerService, TLC

CONSTANTS p1, p2, q1, q2, m1, m2

\* Both runs are of one requestId: its record was evicted in between.
SameRequest == [p \in {p1, p2} |-> [requestId |-> q1, meterId |-> m1, amountKwh |-> 1]]

TwoRequests == p1 :> [requestId |-> q1, meterId |-> m1, amountKwh |-> 1]
                @@ p2 :> [requestId |-> q2, meterId |-> m2, amountKwh |-> 2]
=============================================================================
