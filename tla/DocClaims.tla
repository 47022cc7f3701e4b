----------------------------- MODULE DocClaims -----------------------------
(***************************************************************************)
(* Sentences of the repository's documents and comments, as properties of  *)
(* the vending path.  TLC refutes each of them, and README.md tells how.   *)
(***************************************************************************)
EXTENDS MCTwoWalls

\* pipeline.ts:49, "Pre-debit rejection - no funds ever moved": the bank holds
\* no confirmed debit for a rejected run.
RejectedMovedNoFunds ==
    \A p \in Runs : status[p] = "REJECTED" => ~Confirmed(p) \/ reversed[req[p]]

\* FRD.md FR-16, "no double-generation on retry", and FR-20: the request is
\* submitted again after the store has evicted it, and still no debit is both
\* dispensed and reversed.
RetryKeepsPromise == GoodsXorRefund
=============================================================================
