------------------------------ MODULE TwoWalls ------------------------------
(***************************************************************************)
(* The whole vending path of NoGhost: the coordinator's pipeline, the bank *)
(* (wall 1), the consortium's signers (wall 2) and the ledger, with the    *)
(* operator changing demo and governance switches at any moment.           *)
(***************************************************************************)
EXTENDS BankService, Members, Pipeline

CONSTANT MaxChanges     \* bound: switches thrown by the operator

ASSUME ChangesAssumption == MaxChanges \in Nat

VARIABLE changes        \* switches thrown so far

vars == <<callVars, bankVars, chainVars, memberVars, pipelineVars, changes>>

TypeOK ==
    /\ TypeOKCalls
    /\ TypeOKBank
    /\ TypeOKLedger
    /\ TypeOKMembers
    /\ TypeOKPipeline
    /\ changes \in 0 .. MaxChanges

Init ==
    /\ InitCalls
    /\ InitBank
    /\ InitLedger
    /\ InitMembers
    /\ InitPipeline
    /\ changes = 0

\* The bank has confirmed and signed the debit of run p's request.
Confirmed(p) == debitLog[req[p]] = "CONFIRMED"

\* Identifies the nonces run p's current ceremony asked for in round 1.
CeremonyOf(p) == [run |-> p, refused |-> refused[p]]
-----------------------------------------------------------------------------
BankStep ==
    /\ \E m \in net :
          \/ BankDebit(m, req[m.run])
          \/ BankReverse(m, req[m.run])
    /\ UNCHANGED <<chainVars, memberVars, pipelineVars, changes>>

MemberCall ==
    /\ \E m \in net :
          \/ ValidateBegin(m, Confirmed(m.run))
          \/ Round1(m, req[m.run], CeremonyOf(m.run))
          \/ Round2Offline(m)
          \/ Round2Refuse(m, req[m.run])
          \/ Round2Reject(m, req[m.run], Confirmed(m.run))
          \/ Round2Begin(m, req[m.run], Confirmed(m.run), CeremonyOf(m.run))
    /\ UNCHANGED <<bankVars, pipelineVars, changes>>

MemberResume ==
    /\ \/ \E h \in checking : ValidateEnd(h) \/ ValidateThrows(h)
       \/ \E h \in signing :
             \/ Round2Sign(h, req[h.run])
             \/ Round2NoPartial(h, req[h.run])
             \/ Round2Throws(h)
    /\ UNCHANGED <<bankVars, pipelineVars, changes>>

\* What the event loop of the coordinator does for run p.
RunStep(p) ==
    /\ \/ \E S \in SUBSET Signers :
             \/ Preflight(p, S, up)
             \/ AskApprovers(p, S, up)
             \/ StartCeremony(p, S, up)
       \/ \E s \in Signers : MemberTimesOut(p, s)
       \/ DebitTimesOut(p)
       \/ DebitAnswered(p)
       \/ Publish(p)
       \/ PublishThrows(p)
       \/ ApprovalsRead(p)
       \/ ApprovalsUnread(p)
       \/ Round1Settled(p)
       \/ PartialArrives(p)
       \/ TokenSigned(p)
       \/ SignerRefused(p)
       \/ CeremonyFails(p)
       \/ PrepareReceipt(p)
       \/ FragmentSigned(p, up)
       \/ ReceiptAccepted(p)
       \/ ReceiptFails(p, up)
       \/ ReverseSettled(p)
    /\ UNCHANGED <<bankVars, memberVars, changes>>

LedgerStep ==
    /\ \E t \in pending : LandsLate(t)
    /\ UNCHANGED <<callVars, bankVars, memberVars, pipelineVars, changes>>

ClientStep ==
    /\ \E r \in Requests, known \in BOOLEAN : Submit(r, known)
    /\ UNCHANGED <<bankVars, memberVars, changes>>

OperatorStep ==
    /\ changes < MaxChanges
    /\ changes' = changes + 1
    /\ UNCHANGED <<callVars, chainVars>>
    /\ \/ \E b \in BankModes : SetBankMode(b) /\ UNCHANGED <<memberVars, pipelineVars>>
       \/ \E s \in Signers :
             \/ ToggleOnline(s) /\ UNCHANGED <<bankVars, pipelineVars>>
             \/ ToggleRefuse(s) /\ UNCHANGED <<bankVars, pipelineVars>>
             \/ SetMemberStatus(s) /\ UNCHANGED <<bankVars, memberVars>>
       \/ SetMerchantRevoked /\ UNCHANGED <<bankVars, memberVars>>

Next ==
    \/ ClientStep
    \/ OperatorStep
    \/ BankStep
    \/ MemberCall
    \/ MemberResume
    \/ LedgerStep
    \/ \E p \in Runs : RunStep(p)

Spec == Init /\ [][Next]_vars

\* Every await of a run ends: a fetch answers or is aborted at its deadline,
\* the ledger client resolves or throws.  Nothing is assumed of the peers.
FairSpec == Spec /\ \A p \in Runs : WF_vars(RunStep(p))
-----------------------------------------------------------------------------
(* What holds whatever is lost, and however often a requestId is run again *)

\* Wall 2 stands behind wall 1 (FR-2, FR-8): before any member has released a
\* partial for a run, the bank has signed the debit of its request and T members
\* have approved the run on the ledger.
PartialNeedsQuorum ==
    \A p \in Runs : partials[p] # {} => Confirmed(p) /\ Cardinality(Approvers(p)) >= T

\* FR-5, FR-7: a token exists only if T distinct members, the recorded signer
\* set, have each released a partial for it.
TokenNeedsThreshold ==
    \A p \in Runs : token[p] => /\ Cardinality(chosen[p]) = T
                                /\ chosen[p] \subseteq partials[p]

\* FR-10, FR-15: the ledger holds receipts of runs that have a token only, and
\* energy is credited only for a run whose receipt it holds.
LedgerBacksDelivery ==
    /\ \A p \in receipts : token[p]
    /\ \A p \in Runs : status[p] = "DELIVERED" => p \in receipts

\* FR-20: the meter credits a debit at most once, and does so for the one run
\* that ends DELIVERED.
DispensedOnce ==
    \A r \in Requests :
        /\ dispensed[r] <= 1
        /\ dispensed[r] = Cardinality({p \in Runs : req[p] = r /\ status[p] = "DELIVERED"})

\* FR-21: a record says that the customer was refunded only if the bank has
\* reversed a debit that it had confirmed.
RefundIsReal ==
    \A p \in Runs : debitReversed[p] => Confirmed(p) /\ reversed[req[p]]

\* FR-4: a run that is rejected before its debit leaves nothing on the ledger,
\* gets no partial and has no token, even if the bank confirms the debit later.
RejectedHasNoToken ==
    \A p \in Runs : status[p] = "REJECTED" =>
        p \notin published /\ Approvers(p) = {} /\ partials[p] = {} /\ ~token[p]

\* What a member has attested about a run is final, though attestations may land
\* after the coordinator has given the call up and refuse may change meanwhile: a
\* run calls validate once for each member.  SignerService has repeated calls.
AttestationsFinal ==
    [][\A p \in Runs, s \in Signers :
          approvals[p][s] # "none" => approvals'[p][s] = approvals[p][s]]_vars
-----------------------------------------------------------------------------
(* What holds while the store has evicted no requestId: MaxRuns <= RequestCap *)

\* FR-16, FR-20, FR-21: no debit is both dispensed and reversed.
GoodsXorRefund ==
    \A r \in Requests : ~(dispensed[r] > 0 /\ reversed[r])

\* FR-12: when all runs are over and no call has been lost, the bank's
\* unreversed confirmed debits are exactly the debits the meter has redeemed.
Reconciled ==
    (faults = 0 /\ \A p \in Runs : pc[p] \in {"idle", "done"}) =>
        \A r \in Requests :
            (debitLog[r] = "CONFIRMED" /\ ~reversed[r]) <=> dispensed[r] = 1

\* The customer's view of requestId r, in the terms of module Vending.
RunsOf(r) == {p \in 1 .. nruns : req[p] = r}

MoneyOf(r) ==
    IF debitLog[r] # "CONFIRMED" THEN "none"
    ELSE IF reversed[r] THEN "refunded" ELSE "charged"

GoodsOf(r) ==
    IF dispensed[r] > 0 THEN "delivered"
    ELSE IF RunsOf(r) \cap receipts # {} THEN "recorded"
    ELSE IF \E p \in RunsOf(r) : token[p] THEN "token"
    ELSE "none"

V == INSTANCE Vending WITH money <- [r \in Requests |-> MoneyOf(r)],
                           goods <- [r \in Requests |-> GoodsOf(r)]

\* The services together implement the abstract promise to a customer: pay, then
\* get the energy or the money back, never both.
ImplementsVending == V!Spec
-----------------------------------------------------------------------------
(* Liveness, under FairSpec *)

\* FR-17: every run that starts reaches a terminal status, even if no peer ever
\* answers.
EveryRunEnds ==
    \A p \in Runs : pc[p] # "idle" ~> status[p] \in Terminal
=============================================================================
