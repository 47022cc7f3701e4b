------------------------------ MODULE MoneyInv ------------------------------
(***************************************************************************)
(* The inductive invariant behind the theorems of MoneyProofs: what the    *)
(* bank, the meter and the records of the coordinator say of one debit.    *)
(***************************************************************************)
EXTENDS TwoWallsInv

\* The awaits of a run before the bank has confirmed its debit, and after.
Uncharged == {"idle", "preflight", "debit"}
Charged == {"publish", "approvers", "gather", "poll", "round1", "round2", "prepare",
            "fragment", "submit", "reverse"}

\* An answer of the bank is never ahead of the bank, a record is never ahead of
\* the answer, and a run that is over makes no further step.
MoneyRun(p) ==
    /\ pc[p] \in Charged \/ reply[p].is = "CONFIRMED" => Paid(p)
    /\ reply[p].is = "reversed" => p <= nruns /\ reversed[req[p]]
    /\ debitReversed[p] => Paid(p) /\ reversed[req[p]]
    /\ status[p] \in Terminal => pc[p] = "done"

\* What was dispensed was dispensed for one run, which is DELIVERED.
InvGoods ==
    /\ \A r \in Requests : dispensed[r] \in {0, 1}
    /\ \A r \in Requests : dispensed[r] = 1 =>
          \E p \in Runs : req[p] = r /\ status[p] = "DELIVERED"
    /\ \A p \in Runs : status[p] = "DELIVERED" => dispensed[req[p]] = 1
    /\ \A p, q \in Runs : /\ status[p] = "DELIVERED" /\ status[q] = "DELIVERED"
                          /\ req[p] = req[q]
                          => p = q

\* The bank is asked to reverse by runs that will not deliver any more.
GaveUp(p) == p <= nruns /\ pc[p] \in {"reverse", "done"} /\ status[p] # "DELIVERED"

InvReverse ==
    /\ \A m \in net : m.kind = "reverse" => GaveUp(m.run) /\ Paid(m.run)
    /\ \A r \in Requests : reversed[r] =>
          \E p \in Runs : req[p] = r /\ GaveUp(p) /\ Paid(p)

\* A receipt is its run's last act, whenever it lands.
InvRecorded ==
    \A p \in Runs : p \in receipts \/ Receipt(p) \in pending => pc[p] \in {"reverse", "done"}

\* As long as the store evicts nothing, a requestId has one run.
InvOneRun ==
    MaxRuns <= RequestCap =>
        \A p, q \in Runs : p <= nruns /\ q <= nruns /\ req[p] = req[q] => p = q

\* Nobody but the coordinator and the bank knows of run p, or will.
Unheard(p) ==
    /\ p \notin published /\ partials[p] = {} /\ ~token[p]
    /\ \A s \in Signers : approvals[p][s] = "none"
    /\ \A m \in net : m.run = p => m.kind \notin {"validate", "round2"}
    /\ \A h \in checking \cup signing : h.run # p
    /\ \A t \in pending : t.run # p

InvUnheard ==
    \A p \in Runs : pc[p] \in Uncharged \/ status[p] = "REJECTED" => Unheard(p)

\* Run p answers for the debit of its request: it has not lost the money.
Accounted(p) ==
    /\ p <= nruns
    /\ \/ pc[p] = "debit" /\ reply[p].is = "CONFIRMED"
       \/ pc[p] \in Charged
       \/ status[p] = "DELIVERED"
       \/ reversed[req[p]]

\* As long as no call is lost, every confirmed debit is accounted for.
InvBooks ==
    faults = 0 =>
        /\ \A m \in net : m.kind = "debit" => pc[m.run] = "debit" /\ reply[m.run] = NoReply
        /\ \A r \in Requests : debitLog[r] = "CONFIRMED" =>
              \E p \in Runs : req[p] = r /\ Accounted(p)

MInv ==
    /\ IInv
    /\ \A p \in Runs : MoneyRun(p)
    /\ InvGoods
    /\ InvReverse
    /\ InvRecorded
    /\ InvOneRun
    /\ InvUnheard
    /\ InvBooks
=============================================================================
