------------------------------ MODULE Pipeline ------------------------------
(***************************************************************************)
(* The coordinator: POST /api/requests, runPipeline, its request store and *)
(* the meter, which is a module of the coordinator's process               *)
(* (server/src/coordinator/index.ts, pipeline.ts, store.ts, meter.ts).     *)
(*                                                                         *)
(* The parameter reachable is the set of members whose health endpoint     *)
(* reports online.                                                         *)
(***************************************************************************)
EXTENDS Ledger

CONSTANT RequestCap     \* REQUEST_CAP: records the store keeps

ASSUME CapAssumption == RequestCap \in Nat \ {0}

VARIABLES
    nruns,         \* runs started so far; run p is the p-th
    req,           \* req[p]: the requestId that run p serves
    status,        \* status[p]: record.status
    online,        \* online[p]: members found by the poll before the ceremony
    refused,       \* refused[p]: members that refused to sign for run p
    chosen,        \* chosen[p]: participants of the ceremony, then the signerSet
    token,         \* token[p]: record.token is set
    debitReversed, \* debitReversed[p]: record.debitReversed
    dispensed,     \* dispensed[r]: times the meter credited the debit of r
    revoked,       \* members revoked in the governance overlay
    merchantRevoked

recordVars == <<nruns, req, status, online, refused, chosen, token, debitReversed>>
govVars == <<revoked, merchantRevoked>>
pipelineVars == <<recordVars, dispensed, govVars>>

Terminal == {"DELIVERED", "REJECTED", "REJECTED_ABANDONED"}
Statuses == {"NONE", "PENDING", "DEBIT_CONFIRMED", "PUBLISHED", "APPROVED",
             "SIGNED", "RECORDED"} \cup Terminal

TypeOKPipeline ==
    /\ nruns \in 0 .. MaxRuns
    /\ req \in [Runs -> Requests]
    /\ status \in [Runs -> Statuses]
    /\ online \in [Runs -> SUBSET Signers]
    /\ refused \in [Runs -> SUBSET Signers]
    /\ chosen \in [Runs -> SUBSET Signers]
    /\ token \in [Runs -> BOOLEAN]
    /\ debitReversed \in [Runs -> BOOLEAN]
    /\ dispensed \in [Requests -> Nat]
    /\ revoked \subseteq Signers
    /\ merchantRevoked \in BOOLEAN

\* req[p] means nothing before run p starts; it is any requestId.
InitPipeline ==
    /\ nruns = 0
    /\ req = [p \in Runs |-> CHOOSE r \in Requests : TRUE]
    /\ status = [p \in Runs |-> "NONE"]
    /\ online = [p \in Runs |-> {}]
    /\ refused = [p \in Runs |-> {}]
    /\ chosen = [p \in Runs |-> {}]
    /\ token = [p \in Runs |-> FALSE]
    /\ debitReversed = [p \in Runs |-> FALSE]
    /\ dispensed = [r \in Requests |-> 0]
    /\ revoked = {}
    /\ merchantRevoked = FALSE
-----------------------------------------------------------------------------
\* createRecord evicts the oldest records beyond the cap, finished or not.
Stored == {p \in Runs : p <= nruns /\ nruns < p + RequestCap}

SetStatus(p, st) == status' = [status EXCEPT ![p] = st]

\* reject: pre-debit rejection.
Reject(p) ==
    /\ SetStatus(p, "REJECTED")
    /\ Goto(p, "done")
    /\ UNCHANGED <<net, reply>>

\* abandon, up to its await: ask the bank to reverse the debit.
Abandon(p) == Goto(p, "reverse") /\ Ask(p, "reverse", Bank)

\* Mutant of Abandoned: takes the refund for granted.
AbandonedOptimist(p, confirmed) ==
    /\ debitReversed' = [debitReversed EXCEPT ![p] = TRUE]
    /\ SetStatus(p, "REJECTED_ABANDONED")
    /\ Goto(p, "done")

\* abandon, after its await.
Abandoned(p, confirmed) ==
    /\ debitReversed' = [debitReversed EXCEPT ![p] = confirmed]
    /\ SetStatus(p, "REJECTED_ABANDONED")
    /\ Goto(p, "done")

\* The policy gate, FR-19: an unknown or revoked merchant is turned away.
MerchantBlocked(known) == ~known \/ merchantRevoked

\* meter.ts: verifyTokenForMeter finds a replay, deliverToken credits the meter.
\* The nonce of a token is derived from its debitRef, so one list stands for both.
Redeemed(r) == dispensed[r] > 0
Dispense(r) == dispensed' = [dispensed EXCEPT ![r] = @ + 1]

\* pollOnlineActiveSigners: the active members that answer online in time.
Polled(S, reachable) ==
    /\ S \subseteq reachable \ revoked
    /\ IF S = reachable \ revoked THEN UNCHANGED faults ELSE Fault

\* Mutant of FirstT: an off-by-one in the slice.
FirstButOne(pool) ==
    {C \in SUBSET pool : /\ Cardinality(C) = T - 1
                         /\ \A s \in C, u \in pool \ C : s < u}

\* pool.slice(0, t): the t members of the pool with the lowest identifiers.
FirstT(pool) ==
    {C \in SUBSET pool : /\ Cardinality(C) = T
                         /\ \A s \in C, u \in pool \ C : s < u}

First(S) == CHOOSE s \in S : \A u \in S : s <= u
-----------------------------------------------------------------------------
\* POST /api/requests for a requestId that is not in the store; known says
\* whether the merchant is registered.  runPipeline runs through its policy
\* gate synchronously.
Submit(r, known) ==
    LET p == nruns + 1 IN
    /\ nruns < MaxRuns
    /\ \A q \in Stored : req[q] # r
    /\ nruns' = p
    /\ req' = [req EXCEPT ![p] = r]
    /\ IF MerchantBlocked(known)
       THEN SetStatus(p, "REJECTED") /\ Goto(p, "done")
       ELSE SetStatus(p, "PENDING") /\ Goto(p, "preflight")
    /\ UNCHANGED <<net, waiting, failed, reply, faults, chainVars, online, refused,
                   chosen, token, debitReversed, dispensed, govVars>>

\* Pre-flight quorum: decline before any debit, or ask the bank for the debit.
Preflight(p, S, reachable) ==
    /\ pc[p] = "preflight"
    /\ Polled(S, reachable)
    /\ \/ Cardinality(S) < T /\ Reject(p)
       \/ /\ Cardinality(S) >= T
          /\ Goto(p, "debit") /\ Ask(p, "debit", Bank)
          /\ UNCHANGED status
    /\ UNCHANGED <<waiting, failed, chainVars, nruns, req, online, refused, chosen,
                   token, debitReversed, dispensed, govVars>>

\* No answer within 10 s, or none at all: BANK_UNREACHABLE.
DebitTimesOut(p) ==
    /\ pc[p] = "debit"
    /\ Fault
    /\ Reject(p)
    /\ UNCHANGED <<waiting, failed, chainVars, nruns, req, online, refused, chosen,
                   token, debitReversed, dispensed, govVars>>

\* Mutant of DebitAnswered: the bank's word becomes the record's status.
DebitAnsweredVerbatim(p) ==
    /\ pc[p] = "debit" /\ reply[p] # NoReply
    /\ SetStatus(p, reply[p].is)
    /\ IF reply[p].is = "CONFIRMED" THEN Goto(p, "publish") ELSE Goto(p, "done")
    /\ UNCHANGED <<net, reply, waiting, failed, faults, chainVars, nruns, req, online,
                   refused, chosen, token, debitReversed, dispensed, govVars>>

\* The answer to the debit call.  Only a confirmation whose signature
\* verifies lets the run claim the debit and go on to publish.
DebitAnswered(p) ==
    /\ pc[p] = "debit" /\ reply[p] # NoReply
    /\ \/ reply[p].is # "CONFIRMED" /\ Reject(p)
       \/ /\ reply[p].is = "CONFIRMED"
          /\ SetStatus(p, "DEBIT_CONFIRMED")
          /\ Goto(p, "publish")
          /\ UNCHANGED <<net, reply>>
    /\ UNCHANGED <<waiting, failed, faults, chainVars, nruns, req, online, refused,
                   chosen, token, debitReversed, dispensed, govVars>>

Publish(p) ==
    /\ pc[p] = "publish"
    /\ PublishTx(p)
    /\ SetStatus(p, "PUBLISHED")
    /\ Goto(p, "approvers")
    /\ UNCHANGED <<net, waiting, failed, reply, faults, prepared, pending, nruns, req,
                   online, refused, chosen, token, debitReversed, dispensed, govVars>>

\* Mutant of PublishThrows: rejects where it should abandon.
PublishThrowsRejects(p) ==
    /\ pc[p] = "publish"
    /\ Fault
    /\ Lose(Publication(p))
    /\ Reject(p)
    /\ UNCHANGED <<waiting, failed, nruns, req, online, refused, chosen, token,
                   debitReversed, dispensed, govVars>>

\* publishOnChain throws.
PublishThrows(p) ==
    /\ pc[p] = "publish"
    /\ Fault
    /\ Lose(Publication(p))
    /\ Abandon(p)
    /\ UNCHANGED <<waiting, failed, recordVars, dispensed, govVars>>

\* Poll the members, then ask each of those online to validate and attest.
AskApprovers(p, S, reachable) ==
    /\ pc[p] = "approvers"
    /\ Polled(S, reachable)
    /\ \/ Cardinality(S) < T /\ Abandon(p) /\ UNCHANGED waiting
       \/ /\ Cardinality(S) >= T
          /\ Goto(p, "gather")
          /\ net' = net \cup {CallMsg("validate", p, s) : s \in S}
          /\ waiting' = [waiting EXCEPT ![p] = S]
          /\ UNCHANGED reply
    /\ UNCHANGED <<failed, chainVars, recordVars, dispensed, govVars>>

\* Mutant of MemberTimesOut: repeats the call.
MemberCalledAgain(p, s) ==
    /\ pc[p] \in {"gather", "round1"} /\ s \in waiting[p]
    /\ Fault
    /\ net' = net \cup {CallMsg(IF pc[p] = "gather" THEN "validate" ELSE "round1", p, s)}
    /\ UNCHANGED <<pc, waiting, failed, reply, chainVars, pipelineVars>>

\* A fan-out call to member s times out: gatherApprovals does not mind, a
\* ceremony fails for it.
MemberTimesOut(p, s) ==
    /\ pc[p] \in {"gather", "round1"} /\ s \in waiting[p]
    /\ Fault
    /\ waiting' = [waiting EXCEPT ![p] = @ \ {s}]
    /\ failed' = [failed EXCEPT ![p] = pc[p] = "round1"]
    /\ UNCHANGED <<pc, net, reply, chainVars, pipelineVars>>

\* Every validate call has settled; the approvals are read from the ledger.
ApprovalsRead(p) ==
    /\ pc[p] = "gather" /\ waiting[p] = {}
    /\ \/ ~HasQuorum(p) /\ Abandon(p) /\ UNCHANGED status
       \/ /\ HasQuorum(p)
          /\ SetStatus(p, "APPROVED") /\ Goto(p, "poll")
          /\ UNCHANGED <<net, reply>>
    /\ UNCHANGED <<waiting, failed, faults, chainVars, nruns, req, online, refused,
                   chosen, token, debitReversed, dispensed, govVars>>

\* readApprovals throws (the FR-17 backstop abandons), or reads a ledger that
\* does not show the latest attestations yet.
ApprovalsUnread(p) ==
    /\ pc[p] = "gather" /\ waiting[p] = {}
    /\ Fault
    /\ Abandon(p)
    /\ UNCHANGED <<waiting, failed, chainVars, recordVars, dispensed, govVars>>

\* One turn of the ceremony loop: round 1 with the first T of the pool that has
\* not refused, or no spare signer.
Ceremony(p, found, notWilling) ==
    LET pool == found \ notWilling IN
    \/ /\ Cardinality(pool) < T
       /\ Abandon(p)
       /\ UNCHANGED <<waiting, failed, chosen>>
    \/ \E C \in FirstT(pool) :
       /\ Goto(p, "round1")
       /\ net' = net \cup {CallMsg("round1", p, s) : s \in C}
       /\ waiting' = [waiting EXCEPT ![p] = C]
       /\ failed' = [failed EXCEPT ![p] = FALSE]
       /\ chosen' = [chosen EXCEPT ![p] = C]
       /\ UNCHANGED reply

StartCeremony(p, S, reachable) ==
    /\ pc[p] = "poll"
    /\ Polled(S, reachable)
    /\ online' = [online EXCEPT ![p] = S]
    /\ Ceremony(p, S, {})
    /\ UNCHANGED <<chainVars, nruns, req, status, refused, token, debitReversed,
                   dispensed, govVars>>

Round1Settled(p) ==
    /\ pc[p] = "round1" /\ waiting[p] = {}
    /\ \/ failed[p] /\ Abandon(p) /\ UNCHANGED waiting
       \/ /\ ~failed[p]
          /\ Goto(p, "round2") /\ Ask(p, "round2", First(chosen[p]))
          /\ waiting' = [waiting EXCEPT ![p] = chosen[p]]
    /\ UNCHANGED <<failed, faults, chainVars, recordVars, dispensed, govVars>>

\* A partial arrives and verifies; ask the next participant.
PartialArrives(p) ==
    LET rest == waiting[p] \ {reply[p].from} IN
    /\ pc[p] = "round2" /\ reply[p].is = "partial"
    /\ rest # {}
    /\ waiting' = [waiting EXCEPT ![p] = rest]
    /\ Ask(p, "round2", First(rest))
    /\ UNCHANGED <<pc, failed, faults, chainVars, recordVars, dispensed, govVars>>

\* Mutant of TokenSigned: does not wait for the last partial.
TokenSignedEarly(p) ==
    /\ pc[p] = "round2" /\ reply[p].is = "partial"
    /\ waiting' = [waiting EXCEPT ![p] = {}]
    /\ token' = [token EXCEPT ![p] = TRUE]
    /\ SetStatus(p, "SIGNED")
    /\ Goto(p, "prepare")
    /\ UNCHANGED <<net, reply, failed, faults, chainVars, nruns, req, online, refused,
                   chosen, debitReversed, dispensed, govVars>>

\* The last partial arrives: the aggregate is the token.  The meter verifies it
\* before anything is written; a debit it has redeemed already is a replay.
TokenSigned(p) ==
    /\ pc[p] = "round2" /\ reply[p].is = "partial"
    /\ waiting[p] \subseteq {reply[p].from}
    /\ waiting' = [waiting EXCEPT ![p] = {}]
    /\ token' = [token EXCEPT ![p] = TRUE]
    /\ SetStatus(p, "SIGNED")
    /\ \/ Redeemed(req[p]) /\ Abandon(p)
       \/ ~Redeemed(req[p]) /\ Goto(p, "prepare") /\ UNCHANGED <<net, reply>>
    /\ UNCHANGED <<failed, faults, chainVars, nruns, req, online, refused, chosen,
                   debitReversed, dispensed, govVars>>

\* FR-9: log the refusal and retry with the spare, from the same poll.
SignerRefused(p) ==
    LET seen == refused[p] \cup {reply[p].from} IN
    /\ pc[p] = "round2" /\ reply[p].is = "refused"
    /\ refused' = [refused EXCEPT ![p] = seen]
    /\ Ceremony(p, online[p], seen)
    /\ UNCHANGED <<faults, chainVars, nruns, req, status, online, token, debitReversed,
                   dispensed, govVars>>

\* Mutant of CeremonyFails: a failed ceremony rejects and keeps the money.
CeremonyFailsRejects(p) ==
    /\ pc[p] = "round2"
    /\ \/ reply[p].is = "error" /\ UNCHANGED faults
       \/ Fault
    /\ Reject(p)
    /\ UNCHANGED <<waiting, failed, chainVars, nruns, req, online, refused, chosen,
                   token, debitReversed, dispensed, govVars>>

CeremonyFails(p) ==
    /\ pc[p] = "round2"
    /\ \/ reply[p].is = "error" /\ UNCHANGED faults
       \/ Fault                                   \* ROUND2_UNREACHABLE
    /\ Abandon(p)
    /\ UNCHANGED <<waiting, failed, chainVars, recordVars, dispensed, govVars>>

\* prepareReceipt, then one sign-receipt call after the other.
PrepareReceipt(p) ==
    /\ pc[p] = "prepare"
    /\ PrepareTx(p)
    /\ Goto(p, "fragment")
    /\ waiting' = [waiting EXCEPT ![p] = chosen[p]]
    /\ UNCHANGED <<net, failed, reply, faults, recordVars, dispensed, govVars>>

\* The member in turn is online and finds the quorum; it keeps no state.
FragmentSigned(p, reachable) ==
    LET rest == waiting[p] \ {First(waiting[p])} IN
    /\ pc[p] = "fragment"
    /\ First(waiting[p]) \in reachable /\ HasQuorum(p)
    /\ waiting' = [waiting EXCEPT ![p] = rest]
    /\ IF rest = {} THEN Goto(p, "submit") ELSE UNCHANGED pc
    /\ UNCHANGED <<net, failed, reply, faults, chainVars, recordVars, dispensed, govVars>>

\* Mutant of ReceiptAccepted: delivers first and records if it can.
DeliveredFirst(p) ==
    LET r == req[p] IN
    /\ pc[p] = "submit"
    /\ ReceiptTx(p) \/ UNCHANGED ledgerVars
    /\ ~Redeemed(r)
    /\ Dispense(r)
    /\ SetStatus(p, "DELIVERED") /\ Goto(p, "done")
    /\ UNCHANGED <<net, reply, waiting, failed, faults, prepared, pending, nruns, req,
                   online, refused, chosen, token, debitReversed, govVars>>

\* Mutant of ReceiptAccepted: the meter keeps no list of redeemed debits.
ForgetfulMeter(p) ==
    LET r == req[p] IN
    /\ pc[p] = "submit"
    /\ ReceiptTx(p)
    /\ Dispense(r)
    /\ SetStatus(p, "DELIVERED") /\ Goto(p, "done")
    /\ UNCHANGED <<net, reply, waiting, failed, faults, prepared, pending, nruns, req,
                   online, refused, chosen, token, debitReversed, govVars>>

\* The ledger accepts the receipt: RECORDED, and with no await in between the
\* meter redeems the token, or finds that the debit has been redeemed.
ReceiptAccepted(p) ==
    LET r == req[p] IN
    /\ pc[p] = "submit"
    /\ ReceiptTx(p)
    /\ \/ /\ ~Redeemed(r)
          /\ Dispense(r)
          /\ SetStatus(p, "DELIVERED") /\ Goto(p, "done")
          /\ UNCHANGED <<net, reply>>
       \/ /\ Redeemed(r)
          /\ SetStatus(p, "RECORDED") /\ Abandon(p)
          /\ UNCHANGED dispensed
    /\ UNCHANGED <<waiting, failed, faults, prepared, pending, nruns, req, online,
                   refused, chosen, token, debitReversed, govVars>>

\* Mutant of ReceiptFails: asks for the refund and tries the receipt again.
ReceiptRetried(p, reachable) ==
    /\ \/ pc[p] = "submit" /\ prepared[p] # authSeq /\ UNCHANGED faults
       \/ pc[p] = "submit" /\ Fault
    /\ Goto(p, "prepare") /\ Ask(p, "reverse", Bank)
    /\ UNCHANGED <<waiting, failed, chainVars, recordVars, dispensed, govVars>>

\* multisignReceipt throws: a member is offline, the ledger client fails, or the
\* Sequence is not the account's, because another receipt has used it or one
\* that is still pending comes first.
ReceiptFails(p, reachable) ==
    /\ \/ /\ pc[p] = "fragment" /\ First(waiting[p]) \notin reachable
          /\ UNCHANGED <<faults, chainVars>>
       \/ pc[p] \in {"prepare", "fragment"} /\ Fault /\ UNCHANGED chainVars
       \/ /\ pc[p] = "submit"
          /\ Fault \/ (prepared[p] # authSeq /\ UNCHANGED faults)
          /\ Lose(Receipt(p))
    /\ Abandon(p)
    /\ UNCHANGED <<waiting, failed, recordVars, dispensed, govVars>>

\* Mutant of ReverseSettled: waits for the bank without a deadline.
ReverseAwaited(p) ==
    /\ pc[p] = "reverse"
    /\ reply[p].is = "reversed" /\ Abandoned(p, TRUE)
    /\ UNCHANGED <<faults, net, waiting, failed, reply, chainVars, nruns, req, online,
                   refused, chosen, token, dispensed, govVars>>

\* The bank's answer to the reversal, or none within 3 s.
ReverseSettled(p) ==
    /\ pc[p] = "reverse"
    /\ \/ reply[p].is = "reversed" /\ Abandoned(p, TRUE) /\ UNCHANGED faults
       \/ Fault /\ Abandoned(p, FALSE)
    /\ UNCHANGED <<net, waiting, failed, reply, chainVars, nruns, req, online, refused,
                   chosen, token, dispensed, govVars>>
-----------------------------------------------------------------------------
(* POST /api/governance/members/:id, POST /api/merchants/:id *)

SetMemberStatus(s) ==
    /\ revoked' = IF s \in revoked THEN revoked \ {s} ELSE revoked \cup {s}
    /\ UNCHANGED <<recordVars, dispensed, merchantRevoked>>

SetMerchantRevoked ==
    /\ merchantRevoked' = ~merchantRevoked
    /\ UNCHANGED <<recordVars, dispensed, revoked>>
=============================================================================
