------------------------------- MODULE Ledger -------------------------------
(***************************************************************************)
(* What the coordinator and the members read from and write to the XRP     *)
(* Ledger through server/src/common/chain.ts.  requestHash hashes the      *)
(* request with its server-side timestamp, so every run has a hash, hence  *)
(* a publication, approvals and a receipt, of its own.                     *)
(*                                                                         *)
(* submitAndWait throws when the connection is lost or the transaction is  *)
(* not validated in time.  Its caller then goes on as if nothing had been  *)
(* written, but the transaction has been sent: it lands later, or never.   *)
(***************************************************************************)
EXTENDS Calls

VARIABLES
    published,     \* runs whose encrypted request is on the ledger
    approvals,     \* approvals[p][s]: attestation of member s about run p
    receipts,      \* runs that have a multisigned receipt on the ledger
    authSeq,       \* Sequence of the authority account
    prepared,      \* prepared[p]: Sequence autofilled into run p's receipt
    pending        \* transactions whose submission threw and that may yet land

ledgerVars == <<published, approvals, receipts, authSeq>>
chainVars == <<ledgerVars, prepared, pending>>

Verdicts == {"APPROVE", "REJECT"}

Publication(p) == [what |-> "request", run |-> p]
Receipt(p) == [what |-> "receipt", run |-> p]
Attestation(p, s, verdict) == [what |-> verdict, run |-> p, by |-> s]

Transactions == [what : {"request", "receipt"}, run : Runs]
                    \cup [what : Verdicts, run : Runs, by : Signers]

TypeOKLedger ==
    /\ published \subseteq Runs
    /\ approvals \in [Runs -> [Signers -> Verdicts \cup {"none"}]]
    /\ receipts \subseteq Runs
    /\ authSeq \in Nat
    /\ prepared \in [Runs -> Nat]
    /\ pending \subseteq Transactions

InitLedger ==
    /\ published = {}
    /\ approvals = [p \in Runs |-> [s \in Signers |-> "none"]]
    /\ receipts = {}
    /\ authSeq = 0
    /\ prepared = [p \in Runs |-> 0]
    /\ pending = {}

\* readApprovals: the members whose attestation for run p is an APPROVE.
Approvers(p) == {s \in Signers : approvals[p][s] = "APPROVE"}

\* Mutant of HasQuorum: counts attestations, not approvals.
QuorumOfAny(p) == Cardinality({s \in Signers : approvals[p][s] # "none"}) >= T

HasQuorum(p) == Cardinality(Approvers(p)) >= T

PublishTx(p) ==
    /\ published' = published \cup {p}
    /\ UNCHANGED <<approvals, receipts, authSeq>>

AttestTx(p, s, verdict) ==
    /\ approvals' = [approvals EXCEPT ![p][s] = verdict]
    /\ UNCHANGED <<published, receipts, authSeq>>

\* The ledger accepts a transaction only at the account's current Sequence.
ReceiptTx(p) ==
    /\ prepared[p] = authSeq
    /\ authSeq' = authSeq + 1
    /\ receipts' = receipts \cup {p}
    /\ UNCHANGED <<published, approvals>>

\* The account's next Sequence in the open ledger, which may hold receipts that
\* are still to be validated.
OpenSequences ==
    {authSeq} \cup
        {prepared[q] + 1 : q \in {u \in Runs : Receipt(u) \in pending /\ prepared[u] >= authSeq}}

\* prepareReceipt autofills the Sequence of the open ledger.
PrepareTx(p) ==
    /\ \E n \in OpenSequences : prepared' = [prepared EXCEPT ![p] = n]
    /\ UNCHANGED <<ledgerVars, pending>>

\* The submission of transaction t throws.
Lose(t) ==
    /\ pending' = pending \cup {t}
    /\ UNCHANGED <<ledgerVars, prepared>>

\* A transaction given up by its submitter is validated after all.
LandsLate(t) ==
    /\ t \in pending
    /\ pending' = pending \ {t}
    /\ \/ t.what = "request" /\ PublishTx(t.run)
       \/ t.what = "receipt" /\ ReceiptTx(t.run)
       \/ t.what \in Verdicts /\ AttestTx(t.run, t.by, t.what)
    /\ UNCHANGED prepared
=============================================================================
