--------------------------- MODULE Reconciliation ---------------------------
(***************************************************************************)
(* The reconciliation panel of FR-12 and FR-D3, computeReconciliation and  *)
(* onTerminal in server/src/coordinator/store.ts, beside the vending path  *)
(* it watches.  It sums over the records that are still stored, and each   *)
(* transition to a terminal status recomputes and broadcasts the sums.     *)
(***************************************************************************)
EXTENDS TwoWalls

VARIABLES
    lastDelta,     \* the delta of the latest broadcast
    alerts         \* critical divergence alerts raised so far

reconVars == <<vars, lastDelta, alerts>>

ReconInit == Init /\ lastDelta = 0 /\ alerts = 0

RunsThat(st) == {p \in Stored : status[p] = st}

\* Mutant of StuckDebits: forgets the failed reversals.
NothingStuck == {}

\* FR-21 reversals that failed, as the records tell it.
StuckDebits ==
    {req[p] : p \in {q \in RunsThat("REJECTED_ABANDONED") : ~debitReversed[q]}}

\* Mutant of confirmedDebits: does not look at debitReversed.
DebitsEverTaken ==
    Cardinality({req[p] : p \in RunsThat("DELIVERED") \cup RunsThat("REJECTED_ABANDONED")})

\* Distinct confirmed debits that still back value: delivered or stuck.
confirmedDebits ==
    Cardinality({req[p] : p \in RunsThat("DELIVERED")} \cup StuckDebits)

tokensIssued == Cardinality({p \in RunsThat("DELIVERED") : token[p]})
onChainRecords == Cardinality(RunsThat("DELIVERED") \cap receipts)

Gap(m, n) == IF m > n THEN m - n ELSE n - m

Delta ==
    IF Gap(tokensIssued, confirmedDebits) > Gap(tokensIssued, onChainRecords)
    THEN Gap(tokensIssued, confirmedDebits)
    ELSE Gap(tokensIssued, onChainRecords)

\* Run p reaches a terminal status in this step.
Ends(p) == status[p] \notin Terminal /\ status'[p] \in Terminal

\* Mutant of OnTerminal: remembers the delta before it compares.
OnTerminalSwapped ==
    IF \E p \in Runs : Ends(p)
    THEN /\ lastDelta' = Delta'
         /\ alerts' = IF Delta' # 0 /\ Delta' # lastDelta' THEN alerts + 1 ELSE alerts
    ELSE UNCHANGED <<lastDelta, alerts>>

\* Mutant of OnTerminal: recomputes for deliveries only.
OnDelivered ==
    IF \E p \in Runs : Ends(p) /\ status'[p] = "DELIVERED"
    THEN /\ lastDelta' = Delta'
         /\ alerts' = IF Delta' # 0 /\ Delta' # lastDelta THEN alerts + 1 ELSE alerts
    ELSE UNCHANGED <<lastDelta, alerts>>

\* A divergence is alerted when the delta differs from the one broadcast last.
OnTerminal ==
    IF \E p \in Runs : Ends(p)
    THEN /\ lastDelta' = Delta'
         /\ alerts' = IF Delta' # 0 /\ Delta' # lastDelta THEN alerts + 1 ELSE alerts
    ELSE UNCHANGED <<lastDelta, alerts>>

ReconNext == Next /\ OnTerminal

ReconSpec == ReconInit /\ [][ReconNext]_reconVars
-----------------------------------------------------------------------------
\* FR-D3, "honest operation makes divergence impossible": while no call is lost
\* or late and the ledger client does not fail, the delta is zero, through every
\* refusal, revocation, refused receipt and evicted record.
HonestDelta == faults = 0 => Delta = 0

\* FR-12: when all runs are over and the delta is zero, the bank's unreversed
\* confirmed debits are those the meter has redeemed, whatever was lost, but for
\* the debits that were confirmed to a run that had been rejected.  It needs
\* MaxRuns <= RequestCap: an evicted record takes its debit out of the sums.
ZeroDeltaMeansBalanced ==
    (Delta = 0 /\ \A p \in Runs : pc[p] \in {"idle", "done"}) =>
        \A r \in Requests :
            \/ \E p \in Runs : req[p] = r /\ status[p] = "REJECTED"
            \/ (debitLog[r] = "CONFIRMED" /\ ~reversed[r]) <=> dispensed[r] = 1

\* While nothing is evicted, the panel that was broadcast last agrees with what
\* GET /api/reconciliation computes now.
PanelCurrent == lastDelta = Delta

\* FR-D3: while nothing is evicted, a debit that gets stuck is alerted at once.
StuckIsAlerted ==
    [][~(StuckDebits' \subseteq StuckDebits) => alerts' > alerts]_reconVars
=============================================================================
