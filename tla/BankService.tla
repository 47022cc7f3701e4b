---------------------------- MODULE BankService ----------------------------
(***************************************************************************)
(* The mock bank, server/src/bank/index.ts.  debitRef is 12 random hex     *)
(* digits per requestId; the model identifies a debit with its requestId.  *)
(***************************************************************************)
EXTENDS Calls

VARIABLES
    mode,          \* the demo mode the operator sets
    debitLog,      \* debitLog[r]: outcome of the debit logged for requestId r
    reversed       \* reversed[r]: that debit has been reversed

bankVars == <<mode, debitLog, reversed>>

BankModes == {"CONFIRM", "DECLINE", "OMIT_SIGNATURE", "TIMEOUT"}
Outcomes == {"none", "CONFIRMED", "OMIT_SIGNATURE"}

TypeOKBank ==
    /\ mode \in BankModes
    /\ debitLog \in [Requests -> Outcomes]
    /\ reversed \in [Requests -> BOOLEAN]

InitBank ==
    /\ mode = "CONFIRM"
    /\ debitLog = [r \in Requests |-> "none"]
    /\ reversed = [r \in Requests |-> FALSE]

\* What the bank answers to a new debit, and whether it logs an entry.
FreshOutcome ==
    CASE mode = "CONFIRM"        -> "CONFIRMED"
      [] mode = "OMIT_SIGNATURE" -> "OMIT_SIGNATURE"
      [] mode = "DECLINE"        -> "declined"
      [] mode = "TIMEOUT"        -> "timeout"

\* POST /api/debits for requestId r.  A requestId that has an entry gets it
\* back verbatim, whatever the mode and even if it has been reversed.
BankDebit(m, r) ==
    /\ m \in net /\ m.kind = "debit"
    /\ net' = net \ {m}
    /\ \/ /\ debitLog[r] # "none"
          /\ Answer(m.run, "debit", Bank, debitLog[r])
          /\ UNCHANGED debitLog
       \/ /\ debitLog[r] = "none"
          /\ Answer(m.run, "debit", Bank, FreshOutcome)
          /\ debitLog' = [debitLog EXCEPT ![r] =
                             IF FreshOutcome \in Outcomes THEN FreshOutcome ELSE "none"]
    /\ UNCHANGED <<pc, waiting, failed, faults, mode, reversed>>

\* POST /api/debits/:debitRef/reverse, idempotent.
BankReverse(m, r) ==
    /\ m \in net /\ m.kind = "reverse"
    /\ net' = net \ {m}
    /\ reversed' = [reversed EXCEPT ![r] = TRUE]
    /\ Answer(m.run, "reverse", Bank, "reversed")
    /\ UNCHANGED <<pc, waiting, failed, faults, mode, debitLog>>

\* POST /api/admin/mode.
SetBankMode(b) ==
    /\ b # mode
    /\ mode' = b
    /\ UNCHANGED <<debitLog, reversed>>
=============================================================================
