--------------------------- MODULE TwoWallsProofs ---------------------------
(***************************************************************************)
(* Theorems about TwoWalls, for every set of requests, every t-of-n        *)
(* consortium and every value of the bounds.                               *)
(***************************************************************************)
EXTENDS TwoWallsInv, FiniteSetTheorems, WellFoundedInduction, TLAPS

USE RequestsAssumption, ConsortiumAssumption, BoundsAssumption, CapAssumption, ChangesAssumption

LEMMA TypeInit == Init => TypeOK
<1> SUFFICES ASSUME Init PROVE TypeOK
  OBVIOUS
<1>1. TypeOKCalls
  BY DEF Init, InitCalls, TypeOKCalls, Steps, BankAnswers, Replies, NoReply, Bank, Signers, Runs
<1>2. TypeOKBank
  BY DEF Init, InitBank, TypeOKBank, BankModes, Outcomes
<1>3. TypeOKLedger
  BY DEF Init, InitLedger, TypeOKLedger, Verdicts
<1>4. TypeOKMembers
  BY DEF Init, InitMembers, TypeOKMembers, NoSession
<1>5. TypeOKPipeline
  <2>1. req \in [Runs -> Requests]
    <3>1. (CHOOSE r \in Requests : TRUE) \in Requests
      BY Zenon
    <3> QED
      BY <3>1 DEF Init, InitPipeline
  <2>2. merchantRevoked \in BOOLEAN /\ token \in [Runs -> BOOLEAN]
           /\ debitReversed \in [Runs -> BOOLEAN]
    BY Zenon DEF Init, InitPipeline
  <2> QED
    BY <2>1, <2>2 DEF Init, InitPipeline, TypeOKPipeline, Statuses, Terminal
<1> QED
  BY <1>1, <1>2, <1>3, <1>4, <1>5 DEF Init, TypeOK
-----------------------------------------------------------------------------
(* Types of what the shared helpers leave behind. *)

LEMMA AnswerType ==
    ASSUME TypeOKCalls, NEW p \in Runs, NEW step, NEW from, NEW what,
           Answer(p, step, from, what),
           \/ from = Bank /\ what \in BankAnswers
           \/ from \in Signers /\ what \in MemberAnswers
    PROVE  reply' \in [Runs -> Replies]
<1>1. [from |-> from, is |-> what] \in Replies
  BY DEF Replies
<1> QED
  BY <1>1 DEF TypeOKCalls, Answer

LEMMA SettleType ==
    ASSUME TypeOKCalls, NEW p \in Runs, NEW step, NEW s, NEW bad \in BOOLEAN,
           Settle(p, step, s, bad)
    PROVE  waiting' \in [Runs -> SUBSET Signers] /\ failed' \in [Runs -> BOOLEAN]
<1>1. CASE pc[p] = step /\ s \in waiting[p]
  <2>1. waiting' = [waiting EXCEPT ![p] = @ \ {s}]
    BY <1>1 DEF Settle
  <2>2. failed' = [failed EXCEPT ![p] = @ \/ bad]
    BY <1>1 DEF Settle
  <2>3. (failed[p] \/ bad) \in BOOLEAN
    BY Zenon
  <2> QED
    BY <2>1, <2>2, <2>3 DEF TypeOKCalls
<1>2. CASE ~(pc[p] = step /\ s \in waiting[p])
  BY <1>2 DEF Settle, TypeOKCalls
<1> QED
  BY <1>1, <1>2

LEMMA AskType ==
    ASSUME TypeOKCalls, NEW p \in Runs, NEW kind, NEW to, CallMsg(kind, p, to) \in Messages,
           Ask(p, kind, to)
    PROVE  net' \subseteq Messages /\ reply' \in [Runs -> Replies]
<1>1. NoReply \in Replies
  BY DEF NoReply, Replies, BankAnswers
<1> QED
  BY <1>1 DEF TypeOKCalls, Ask

LEMMA FaultType ==
    ASSUME TypeOKCalls, Fault
    PROVE  faults' \in 0 .. MaxFaults
BY DEF TypeOKCalls, Fault

LEMMA MessageType ==
    ASSUME NEW p \in Runs, NEW s \in Signers
    PROVE  /\ CallMsg("debit", p, Bank) \in Messages
           /\ CallMsg("reverse", p, Bank) \in Messages
           /\ \A kind \in {"validate", "round1", "round2"} : CallMsg(kind, p, s) \in Messages
BY DEF CallMsg, Messages

LEMMA NetType ==
    ASSUME TypeOKCalls, NEW m \in net
    PROVE  /\ m.run \in Runs
           /\ m.kind \in {"debit", "reverse"} => m.to = Bank
           /\ m.kind \in {"validate", "round1", "round2"} => m.to \in Signers
BY DEF TypeOKCalls, Messages

\* Every action that leaves a component's variables alone keeps their types.
LEMMA TypeUnchanged ==
    /\ TypeOKBank /\ UNCHANGED bankVars => TypeOKBank'
    /\ TypeOKLedger /\ UNCHANGED chainVars => TypeOKLedger'
    /\ TypeOKMembers /\ UNCHANGED memberVars => TypeOKMembers'
    /\ TypeOKPipeline /\ UNCHANGED pipelineVars => TypeOKPipeline'
    /\ TypeOKCalls /\ UNCHANGED callVars => TypeOKCalls'
BY DEF TypeOKBank, TypeOKLedger, TypeOKMembers, TypeOKPipeline, TypeOKCalls, bankVars,
       chainVars, ledgerVars, memberVars, pipelineVars, callVars, recordVars, govVars

\* The transactions that may be pending, and their parts.
LEMMA TransactionType ==
    ASSUME NEW p \in Runs, NEW s \in Signers, NEW verdict \in Verdicts
    PROVE  /\ Publication(p) \in Transactions /\ Receipt(p) \in Transactions
           /\ Attestation(p, s, verdict) \in Transactions
BY DEF Publication, Receipt, Attestation, Transactions

LEMMA PendingType ==
    ASSUME TypeOKLedger, NEW t \in pending
    PROVE  /\ t.run \in Runs
           /\ t.what \in {"request", "receipt"} \cup Verdicts
           /\ t.what \in Verdicts => t.by \in Signers
BY DEF TypeOKLedger, Transactions, Verdicts

LEMMA AttestType ==
    ASSUME TypeOKLedger, NEW p \in Runs, NEW s \in Signers, NEW verdict \in Verdicts,
           AttestTx(p, s, verdict), prepared' = prepared, pending' \subseteq pending
    PROVE  TypeOKLedger'
<1>1. approvals' \in [Runs -> [Signers -> Verdicts \cup {"none"}]]
  BY DEF AttestTx, TypeOKLedger
<1> QED
  BY <1>1 DEF AttestTx, TypeOKLedger

LEMMA LoseType ==
    ASSUME TypeOKLedger, NEW t \in Transactions, Lose(t)
    PROVE  TypeOKLedger'
BY DEF Lose, ledgerVars, TypeOKLedger
-----------------------------------------------------------------------------
LEMMA TypeBank == TypeOK /\ BankStep => TypeOK'
<1> SUFFICES ASSUME TypeOK, BankStep PROVE TypeOK'
  OBVIOUS
<1>1. PICK m \in net : BankDebit(m, req[m.run]) \/ BankReverse(m, req[m.run])
  BY DEF BankStep
<1>2. m.run \in Runs /\ req[m.run] \in Requests
  BY NetType DEF TypeOK, TypeOKPipeline
<1>3. TypeOKLedger' /\ TypeOKMembers' /\ TypeOKPipeline' /\ changes' \in 0 .. MaxChanges
  BY TypeUnchanged DEF TypeOK, BankStep
<1>4. CASE BankDebit(m, req[m.run])
  <2>1. TypeOKBank'
    BY <1>2, <1>4 DEF BankDebit, Outcomes, TypeOK, TypeOKBank
  <2>2. FreshOutcome \in BankAnswers /\ debitLog[req[m.run]] \in BankAnswers
    BY <1>2 DEF FreshOutcome, BankModes, Outcomes, BankAnswers, TypeOK, TypeOKBank
  <2>3. reply' \in [Runs -> Replies]
    BY <1>2, <1>4, <2>2, AnswerType DEF BankDebit, TypeOK
  <2>4. TypeOKCalls'
    BY <1>4, <2>3 DEF BankDebit, TypeOK, TypeOKCalls
  <2> QED
    BY <1>3, <2>1, <2>4 DEF TypeOK
<1>5. CASE BankReverse(m, req[m.run])
  <2>1. TypeOKBank'
    BY <1>2, <1>5 DEF BankReverse, TypeOK, TypeOKBank
  <2>2. reply' \in [Runs -> Replies]
    BY <1>2, <1>5, AnswerType DEF BankReverse, TypeOK, BankAnswers
  <2>3. TypeOKCalls'
    BY <1>5, <2>2 DEF BankReverse, TypeOK, TypeOKCalls
  <2> QED
    BY <1>3, <2>1, <2>3 DEF TypeOK
<1> QED
  BY <1>1, <1>4, <1>5

LEMMA TypeMemberCall == TypeOK /\ MemberCall => TypeOK'
<1> SUFFICES ASSUME TypeOK, MemberCall PROVE TypeOK'
  OBVIOUS
<1>1. PICK m \in net : \/ ValidateBegin(m, Confirmed(m.run))
                       \/ Round1(m, req[m.run], CeremonyOf(m.run))
                       \/ Round2Offline(m)
                       \/ Round2Refuse(m, req[m.run])
                       \/ Round2Reject(m, req[m.run], Confirmed(m.run))
                       \/ Round2Begin(m, req[m.run], Confirmed(m.run), CeremonyOf(m.run))
  BY DEF MemberCall
<1> DEFINE p == m.run
           r == req[m.run]
<1>2. p \in Runs /\ r \in Requests
  BY NetType DEF TypeOK, TypeOKPipeline
<1>3. CeremonyOf(p) \in Nonces
  BY <1>2 DEF CeremonyOf, Nonces, TypeOK, TypeOKPipeline
<1>4. TypeOKBank' /\ TypeOKPipeline' /\ changes' \in 0 .. MaxChanges
  BY TypeUnchanged DEF TypeOK, MemberCall
<1>5. CASE ValidateBegin(m, Confirmed(p))
  <2>1. m.to \in Signers
    BY <1>5, NetType DEF ValidateBegin, TypeOK
  <2>2. TypeOKLedger'
    BY <1>5, TypeUnchanged DEF ValidateBegin, TypeOK
  <2>3. waiting' \in [Runs -> SUBSET Signers] /\ failed' \in [Runs -> BOOLEAN]
    <3>1. CASE m.to \notin up \/ p \in approvedOnChain[m.to]
      <4>1. Settle(p, "gather", m.to, FALSE)
        BY <1>5, <3>1 DEF ValidateBegin
      <4> QED
        BY <1>2, <4>1, SettleType DEF TypeOK
    <3>2. CASE ~(m.to \notin up \/ p \in approvedOnChain[m.to])
      BY <1>5, <3>2 DEF ValidateBegin, TypeOK, TypeOKCalls
    <3> QED
      BY <3>1, <3>2
  <2>4. TypeOKCalls'
    BY <1>5, <2>3 DEF ValidateBegin, TypeOK, TypeOKCalls
  <2>5. checking' \subseteq [run : Runs, by : Signers, verdict : Verdicts]
    <3> DEFINE v == IF Confirmed(p) /\ m.to \notin refusing THEN "APPROVE" ELSE "REJECT"
    <3>1. v \in Verdicts
      BY DEF Verdicts
    <3>2. \/ checking' = checking
          \/ checking' = checking \cup {[run |-> p, by |-> m.to, verdict |-> v]}
      BY <1>5, Zenon DEF ValidateBegin
    <3> HIDE DEF v
    <3> QED
      BY <1>2, <2>1, <3>1, <3>2 DEF TypeOK, TypeOKMembers
  <2>6. TypeOKMembers'
    BY <1>5, <2>5 DEF ValidateBegin, TypeOK, TypeOKMembers
  <2> QED
    BY <1>4, <2>2, <2>4, <2>6 DEF TypeOK
<1>6. CASE Round1(m, r, CeremonyOf(p))
  <2>1. m.to \in Signers
    BY <1>6, NetType DEF Round1, TypeOK
  <2>2. TypeOKLedger'
    BY <1>6, TypeUnchanged DEF Round1, TypeOK
  <2>3. Settle(p, "round1", m.to, m.to \notin up) /\ (m.to \notin up) \in BOOLEAN
    BY <1>6, Zenon DEF Round1
  <2>4. waiting' \in [Runs -> SUBSET Signers] /\ failed' \in [Runs -> BOOLEAN]
    BY <1>2, <2>3, SettleType DEF TypeOK
  <2>5. TypeOKCalls'
    BY <1>6, <2>4 DEF Round1, TypeOK, TypeOKCalls
  <2>6. TypeOKMembers'
    BY <1>2, <1>3, <1>6, <2>1 DEF Round1, TypeOK, TypeOKMembers
  <2> QED
    BY <1>4, <2>2, <2>5, <2>6 DEF TypeOK
<1>7. ASSUME Round2Call(m) PROVE m.to \in Signers
  BY <1>7, NetType DEF Round2Call, TypeOK
<1>8. CASE Round2Offline(m)
  <2>1. reply' \in [Runs -> Replies]
    BY <1>2, <1>7, <1>8, AnswerType DEF Round2Offline, TypeOK, MemberAnswers
  <2>2. TypeOKCalls'
    BY <1>8, <2>1 DEF Round2Offline, Round2Call, TypeOK, TypeOKCalls
  <2> QED
    BY <1>4, <1>8, <2>2, TypeUnchanged DEF Round2Offline, TypeOK
<1>9. CASE Round2Refuse(m, r)
  <2>1. reply' \in [Runs -> Replies]
    BY <1>2, <1>7, <1>9, AnswerType DEF Round2Refuse, TypeOK, MemberAnswers
  <2>2. TypeOKCalls'
    BY <1>9, <2>1 DEF Round2Refuse, Round2Call, TypeOK, TypeOKCalls
  <2>3. TypeOKMembers'
    BY <1>2, <1>7, <1>9 DEF Round2Refuse, DropSession, TypeOK, TypeOKMembers
  <2> QED
    BY <1>4, <1>9, <2>2, <2>3, TypeUnchanged DEF Round2Refuse, TypeOK
<1>10. CASE Round2Reject(m, r, Confirmed(p))
  <2>1. reply' \in [Runs -> Replies]
    BY <1>2, <1>7, <1>10, AnswerType DEF Round2Reject, TypeOK, MemberAnswers
  <2>2. TypeOKCalls'
    BY <1>10, <2>1 DEF Round2Reject, Round2Call, TypeOK, TypeOKCalls
  <2>3. TypeOKMembers'
    BY <1>2, <1>7, <1>10 DEF Round2Reject, DropSession, TypeOK, TypeOKMembers
  <2> QED
    BY <1>4, <1>10, <2>2, <2>3, TypeUnchanged DEF Round2Reject, TypeOK
<1>11. CASE Round2Begin(m, r, Confirmed(p), CeremonyOf(p))
  <2>1. m.to \in Signers /\ sessions[m.to][r] \in Nonces
    BY <1>2, <1>7, <1>11 DEF Round2Begin, TypeOK, TypeOKMembers
  <2>2. TypeOKCalls'
    BY <1>11 DEF Round2Begin, Round2Call, TypeOK, TypeOKCalls
  <2>3. TypeOKMembers'
    BY <1>2, <1>3, <1>11, <2>1 DEF Round2Begin, TypeOK, TypeOKMembers
  <2> QED
    BY <1>4, <1>11, <2>2, <2>3, TypeUnchanged DEF Round2Begin, TypeOK
<1> QED
  BY <1>1, <1>5, <1>6, <1>8, <1>9, <1>10, <1>11

LEMMA TypeMemberResume == TypeOK /\ MemberResume => TypeOK'
<1> SUFFICES ASSUME TypeOK, MemberResume PROVE TypeOK'
  OBVIOUS
<1>1. TypeOKBank' /\ TypeOKPipeline' /\ changes' \in 0 .. MaxChanges
  BY TypeUnchanged DEF TypeOK, MemberResume
<1>2. ASSUME NEW h \in checking
      PROVE  h.run \in Runs /\ h.by \in Signers /\ h.verdict \in Verdicts
  BY DEF TypeOK, TypeOKMembers
<1>3. ASSUME NEW h \in checking, Settle(h.run, "gather", h.by, FALSE)
      PROVE  waiting' \in [Runs -> SUBSET Signers] /\ failed' \in [Runs -> BOOLEAN]
  BY <1>3, SettleType DEF TypeOK, TypeOKMembers
<1>4. ASSUME NEW h \in checking, ValidateEnd(h) PROVE TypeOK'
  <2>1. TypeOKCalls'
    BY <1>3, <1>4 DEF ValidateEnd, TypeOK, TypeOKCalls
  <2>2. TypeOKMembers'
    BY <1>2, <1>4 DEF ValidateEnd, TypeOK, TypeOKMembers
  <2>3. TypeOKLedger'
    BY <1>2, <1>4, AttestType DEF ValidateEnd, TypeOK
  <2> QED
    BY <1>1, <2>1, <2>2, <2>3 DEF TypeOK
<1>5. ASSUME NEW h \in checking, ValidateThrows(h) PROVE TypeOK'
  <2>1. TypeOKCalls'
    BY <1>3, <1>5, FaultType DEF ValidateThrows, TypeOK, TypeOKCalls
  <2>2. TypeOKMembers'
    BY <1>5 DEF ValidateThrows, TypeOK, TypeOKMembers
  <2>3. TypeOKLedger'
    BY <1>2, <1>5, TransactionType, LoseType DEF ValidateThrows, TypeOK
  <2> QED
    BY <1>1, <2>1, <2>2, <2>3 DEF TypeOK
<1>6. ASSUME NEW h \in signing
      PROVE  h.run \in Runs /\ h.by \in Signers /\ req[h.run] \in Requests
  BY DEF TypeOK, TypeOKMembers, TypeOKPipeline
<1>7. ASSUME NEW h \in signing, Round2Sign(h, req[h.run]) PROVE TypeOK'
  <2>1. reply' \in [Runs -> Replies]
    BY <1>6, <1>7, AnswerType DEF Round2Sign, TypeOK, MemberAnswers
  <2>2. TypeOKCalls'
    BY <1>7, <2>1 DEF Round2Sign, TypeOK, TypeOKCalls
  <2>3. TypeOKMembers'
    BY <1>6, <1>7 DEF Round2Sign, DropSession, TypeOK, TypeOKMembers
  <2> QED
    BY <1>1, <1>7, <2>2, <2>3, TypeUnchanged DEF Round2Sign, TypeOK
<1>8. ASSUME NEW h \in signing, Round2NoPartial(h, req[h.run]) PROVE TypeOK'
  <2>1. reply' \in [Runs -> Replies]
    BY <1>6, <1>8, AnswerType DEF Round2NoPartial, TypeOK, MemberAnswers
  <2>2. faults' \in 0 .. MaxFaults
    BY <1>8, FaultType DEF Round2NoPartial, TypeOK, TypeOKCalls
  <2>3. TypeOKCalls'
    BY <1>8, <2>1, <2>2 DEF Round2NoPartial, TypeOK, TypeOKCalls
  <2>4. TypeOKMembers'
    BY <1>6, <1>8 DEF Round2NoPartial, DropSession, TypeOK, TypeOKMembers
  <2> QED
    BY <1>1, <1>8, <2>3, <2>4, TypeUnchanged DEF Round2NoPartial, TypeOK
<1>9. ASSUME NEW h \in signing, Round2Throws(h) PROVE TypeOK'
  <2>1. TypeOKCalls'
    BY <1>9, FaultType DEF Round2Throws, TypeOK, TypeOKCalls
  <2>2. TypeOKMembers'
    BY <1>9 DEF Round2Throws, TypeOK, TypeOKMembers
  <2> QED
    BY <1>1, <1>9, <2>1, <2>2, TypeUnchanged DEF Round2Throws, TypeOK
<1> QED
  BY <1>4, <1>5, <1>7, <1>8, <1>9 DEF MemberResume
-----------------------------------------------------------------------------
(* The coordinator. *)

\* A set of members has a first element.
LEMMA FirstIn ==
    ASSUME NEW S \in SUBSET Signers, S # {}
    PROVE  First(S) \in S
<1>1. S \subseteq Nat
  BY DEF Signers
<1>2. PICK x \in S : \A y \in S : ~ (<<y, x>> \in OpToRel(<, Nat))
  BY <1>1, NatLessThanWellFounded, WFMin, Zenon
<1>3. \A y \in S : ~ (y < x)
  BY <1>1, <1>2 DEF OpToRel
<1>4. \A y \in S : x <= y
  BY <1>1, <1>3
<1> QED
  BY <1>4, Zenon DEF First

\* The members are finitely many, so every set of them has a cardinality.
LEMMA SignersFinite ==
    ASSUME NEW S \in SUBSET Signers
    PROVE  IsFiniteSet(S) /\ Cardinality(S) \in Nat
<1>1. IsFiniteSet(Signers)
  BY FS_Interval DEF Signers
<1> QED
  BY <1>1, FS_Subset, FS_CardinalityType

LEMMA GotoType ==
    ASSUME TypeOKCalls, NEW p \in Runs, NEW step \in Steps, Goto(p, step)
    PROVE  pc' \in [Runs -> Steps]
BY DEF TypeOKCalls, Goto

LEMMA PolledType ==
    ASSUME TypeOKCalls, NEW S, NEW reachable, Polled(S, reachable)
    PROVE  faults' \in 0 .. MaxFaults
BY FaultType DEF Polled, TypeOKCalls

LEMMA StatusType ==
    ASSUME TypeOKPipeline, NEW p \in Runs, NEW st \in Statuses, SetStatus(p, st)
    PROVE  status' \in [Runs -> Statuses]
BY DEF SetStatus, TypeOKPipeline

LEMMA RejectType ==
    ASSUME TypeOKCalls, TypeOKPipeline, NEW p \in Runs, Reject(p)
    PROVE  /\ pc' \in [Runs -> Steps]
           /\ net' \subseteq Messages
           /\ reply' \in [Runs -> Replies]
           /\ status' \in [Runs -> Statuses]
<1>1. "done" \in Steps /\ "REJECTED" \in Statuses
  BY DEF Steps, Statuses, Terminal
<1> QED
  BY <1>1, GotoType, StatusType DEF Reject, TypeOKCalls

LEMMA AbandonType ==
    ASSUME TypeOKCalls, NEW p \in Runs, Abandon(p)
    PROVE  /\ pc' \in [Runs -> Steps]
           /\ net' \subseteq Messages
           /\ reply' \in [Runs -> Replies]
<1>1. "reverse" \in Steps
  BY DEF Steps
<1>2. CallMsg("reverse", p, Bank) \in Messages
  BY DEF CallMsg, Messages
<1> QED
  BY <1>1, <1>2, GotoType, AskType DEF Abandon

LEMMA FanOutType ==
    ASSUME TypeOKCalls, NEW p \in Runs, NEW kind \in {"validate", "round1", "round2"},
           NEW S \in SUBSET Signers, net' = net \cup {CallMsg(kind, p, s) : s \in S}
    PROVE  net' \subseteq Messages
<1>1. \A s \in S : CallMsg(kind, p, s) \in Messages
  BY MessageType
<1> QED
  BY <1>1 DEF TypeOKCalls

LEMMA CeremonyType ==
    ASSUME TypeOKCalls, TypeOKPipeline, NEW p \in Runs, NEW found \in SUBSET Signers,
           NEW notWilling, Ceremony(p, found, notWilling)
    PROVE  /\ pc' \in [Runs -> Steps]
           /\ net' \subseteq Messages
           /\ reply' \in [Runs -> Replies]
           /\ waiting' \in [Runs -> SUBSET Signers]
           /\ failed' \in [Runs -> BOOLEAN]
           /\ chosen' \in [Runs -> SUBSET Signers]
<1> DEFINE pool == found \ notWilling
<1>1. CASE Cardinality(pool) < T /\ Abandon(p) /\ UNCHANGED <<waiting, failed, chosen>>
  BY <1>1, AbandonType DEF TypeOKCalls, TypeOKPipeline
<1>2. ASSUME NEW C \in FirstT(pool),
             /\ Goto(p, "round1")
             /\ net' = net \cup {CallMsg("round1", p, s) : s \in C}
             /\ waiting' = [waiting EXCEPT ![p] = C]
             /\ failed' = [failed EXCEPT ![p] = FALSE]
             /\ chosen' = [chosen EXCEPT ![p] = C]
             /\ UNCHANGED reply
      PROVE  /\ pc' \in [Runs -> Steps]
             /\ net' \subseteq Messages
             /\ reply' \in [Runs -> Replies]
             /\ waiting' \in [Runs -> SUBSET Signers]
             /\ failed' \in [Runs -> BOOLEAN]
             /\ chosen' \in [Runs -> SUBSET Signers]
  <2>1. C \in SUBSET Signers
    BY DEF FirstT
  <2>2. pc' \in [Runs -> Steps]
    BY <1>2, GotoType DEF Steps
  <2>3. net' \subseteq Messages
    BY <1>2, <2>1, FanOutType
  <2>4. waiting' \in [Runs -> SUBSET Signers] /\ chosen' \in [Runs -> SUBSET Signers]
    BY <1>2, <2>1 DEF TypeOKCalls, TypeOKPipeline
  <2>5. failed' \in [Runs -> BOOLEAN] /\ reply' \in [Runs -> Replies]
    BY <1>2 DEF TypeOKCalls
  <2> QED
    BY <2>2, <2>3, <2>4, <2>5
<1> QED
  BY <1>1, <1>2 DEF Ceremony

LEMMA LedgerType ==
    ASSUME TypeOKLedger, NEW p \in Runs,
           \/ PrepareTx(p)
           \/ (PublishTx(p) \/ ReceiptTx(p)) /\ prepared' = prepared /\ pending' \subseteq pending
    PROVE  TypeOKLedger'
<1>1. CASE PublishTx(p) /\ prepared' = prepared /\ pending' \subseteq pending
  BY <1>1 DEF PublishTx, TypeOKLedger
<1>2. CASE PrepareTx(p)
  <2>1. OpenSequences \subseteq Nat
    BY DEF OpenSequences, TypeOKLedger
  <2> QED
    BY <1>2, <2>1 DEF PrepareTx, ledgerVars, TypeOKLedger
<1>3. CASE ReceiptTx(p) /\ prepared' = prepared /\ pending' \subseteq pending
  BY <1>3 DEF ReceiptTx, TypeOKLedger
<1> QED
  BY <1>1, <1>2, <1>3

\* One step of the event loop on behalf of run p keeps the types, action by action.
LEMMA TypeRunStep ==
    ASSUME TypeOK, InvChosen, NEW p \in Runs, RunStep(p)
    PROVE  TypeOK'
<1>1. TypeOKBank' /\ TypeOKMembers' /\ changes' \in 0 .. MaxChanges
  BY TypeUnchanged DEF TypeOK, RunStep
<1> DEFINE Untouched == /\ UNCHANGED <<waiting, failed>>
                        /\ UNCHANGED chainVars
                        /\ UNCHANGED <<nruns, req, online, refused, chosen, token,
                                       debitReversed, dispensed, govVars>>
<1>2. ASSUME Untouched, faults' \in 0 .. MaxFaults, pc' \in [Runs -> Steps],
             net' \subseteq Messages, reply' \in [Runs -> Replies],
             status' \in [Runs -> Statuses]
      PROVE  TypeOK'
  <2>1. TypeOKCalls'
    BY <1>2 DEF TypeOK, TypeOKCalls
  <2>2. TypeOKPipeline'
    BY <1>2 DEF TypeOK, TypeOKPipeline, govVars
  <2> QED
    BY <1>1, <1>2, <2>1, <2>2, TypeUnchanged DEF TypeOK
<1>3. ASSUME NEW step \in Steps, NEW st \in Statuses, Goto(p, step), SetStatus(p, st),
             UNCHANGED <<net, reply>>
      PROVE  /\ pc' \in [Runs -> Steps] /\ net' \subseteq Messages
             /\ reply' \in [Runs -> Replies] /\ status' \in [Runs -> Statuses]
  BY <1>3, GotoType, StatusType DEF TypeOK, TypeOKCalls
<1>4. \A step \in Steps : Goto(p, step) => pc' \in [Runs -> Steps]
  BY GotoType DEF TypeOK
<1>5. Reject(p) => /\ pc' \in [Runs -> Steps] /\ net' \subseteq Messages
                   /\ reply' \in [Runs -> Replies] /\ status' \in [Runs -> Statuses]
  BY RejectType DEF TypeOK
<1>6. Abandon(p) => /\ pc' \in [Runs -> Steps] /\ net' \subseteq Messages
                    /\ reply' \in [Runs -> Replies]
  BY AbandonType DEF TypeOK
<1>7. /\ Fault => faults' \in 0 .. MaxFaults
      /\ UNCHANGED faults => faults' \in 0 .. MaxFaults
      /\ UNCHANGED status => status' \in [Runs -> Statuses]
      /\ \A S, reachable : Polled(S, reachable) => faults' \in 0 .. MaxFaults
  BY FaultType, PolledType DEF TypeOK, TypeOKCalls, TypeOKPipeline
<1>8. ASSUME UNCHANGED <<waiting, failed>>, UNCHANGED <<recordVars, dispensed, govVars>>,
             Abandon(p), faults' \in 0 .. MaxFaults, TypeOKLedger'
      PROVE  TypeOK'
  <2>1. TypeOKCalls'
    BY <1>6, <1>8 DEF TypeOK, TypeOKCalls
  <2>2. TypeOKPipeline'
    BY <1>8, TypeUnchanged DEF TypeOK, pipelineVars
  <2> QED
    BY <1>1, <1>8, <2>1, <2>2 DEF TypeOK
<1>9. ASSUME NEW S \in SUBSET Signers, Preflight(p, S, up) PROVE TypeOK'
  <2>1. CASE Reject(p)
    BY <1>2, <1>5, <1>7, <1>9, <2>1 DEF Preflight
  <2>2. CASE Goto(p, "debit") /\ Ask(p, "debit", Bank) /\ UNCHANGED status
    <3>1. net' \subseteq Messages /\ reply' \in [Runs -> Replies]
      BY <2>2, AskType DEF CallMsg, Messages, TypeOK
    <3>2. pc' \in [Runs -> Steps]
      BY <1>4, <2>2 DEF Steps
    <3> QED
      BY <1>2, <1>7, <1>9, <2>2, <3>1, <3>2 DEF Preflight
  <2> QED
    BY <1>9, <2>1, <2>2 DEF Preflight
<1>10. CASE DebitTimesOut(p)
  BY <1>2, <1>5, <1>7, <1>10 DEF DebitTimesOut
<1>11. CASE DebitAnswered(p)
  <2>1. CASE Reject(p)
    BY <1>2, <1>5, <1>7, <1>11, <2>1 DEF DebitAnswered
  <2>2. CASE SetStatus(p, "DEBIT_CONFIRMED") /\ Goto(p, "publish") /\ UNCHANGED <<net, reply>>
    <3>1. "DEBIT_CONFIRMED" \in Statuses /\ "publish" \in Steps
      BY DEF Statuses, Steps
    <3> QED
      BY <1>2, <1>3, <1>7, <1>11, <2>2, <3>1 DEF DebitAnswered
  <2> QED
    BY <1>11, <2>1, <2>2 DEF DebitAnswered
<1>12. CASE Publish(p)
  <2>1. "PUBLISHED" \in Statuses /\ "approvers" \in Steps
    BY DEF Statuses, Steps
  <2>2. TypeOKCalls'
    BY <1>3, <1>12, <2>1 DEF Publish, TypeOK, TypeOKCalls
  <2>3. TypeOKPipeline'
    BY <1>3, <1>12, <2>1 DEF Publish, TypeOK, TypeOKPipeline, govVars
  <2> QED
    BY <1>1, <1>12, <2>2, <2>3, LedgerType DEF Publish, TypeOK
<1>13. CASE PublishThrows(p)
  <2>1. TypeOKLedger'
    BY <1>13, LoseType DEF PublishThrows, Publication, Transactions, TypeOK
  <2> QED
    BY <1>7, <1>8, <1>13, <2>1 DEF PublishThrows
<1>14. ASSUME NEW S \in SUBSET Signers, AskApprovers(p, S, up) PROVE TypeOK'
  <2>1. CASE Abandon(p) /\ UNCHANGED waiting
    BY <1>7, <1>8, <1>14, <2>1, TypeUnchanged DEF AskApprovers, TypeOK
  <2>2. CASE /\ Goto(p, "gather")
             /\ net' = net \cup {CallMsg("validate", p, s) : s \in S}
             /\ waiting' = [waiting EXCEPT ![p] = S]
             /\ UNCHANGED reply
    <3>1. net' \subseteq Messages
      BY <2>2, FanOutType DEF TypeOK
    <3>2. pc' \in [Runs -> Steps]
      BY <1>4, <2>2 DEF Steps
    <3>3. TypeOKCalls'
      BY <1>7, <1>14, <2>2, <3>1, <3>2 DEF AskApprovers, TypeOK, TypeOKCalls
    <3> QED
      BY <1>1, <1>14, <3>3, TypeUnchanged DEF AskApprovers, TypeOK, pipelineVars
  <2> QED
    BY <1>14, <2>1, <2>2 DEF AskApprovers
<1>15. ASSUME NEW s \in Signers, MemberTimesOut(p, s) PROVE TypeOK'
  <2>1. (pc[p] = "round1") \in BOOLEAN
    BY Zenon
  <2>2. failed' \in [Runs -> BOOLEAN]
    BY <1>15, <2>1 DEF MemberTimesOut, TypeOK, TypeOKCalls
  <2>3. TypeOKCalls'
    BY <1>7, <1>15, <2>2 DEF MemberTimesOut, TypeOK, TypeOKCalls
  <2> QED
    BY <1>1, <1>15, <2>3, TypeUnchanged DEF MemberTimesOut, TypeOK
<1>16. CASE ApprovalsRead(p)
  <2>1. CASE Abandon(p) /\ UNCHANGED status
    BY <1>2, <1>6, <1>7, <1>16, <2>1 DEF ApprovalsRead
  <2>2. CASE SetStatus(p, "APPROVED") /\ Goto(p, "poll") /\ UNCHANGED <<net, reply>>
    <3>1. "APPROVED" \in Statuses /\ "poll" \in Steps
      BY DEF Statuses, Steps
    <3> QED
      BY <1>2, <1>3, <1>7, <1>16, <2>2, <3>1 DEF ApprovalsRead
  <2> QED
    BY <1>16, <2>1, <2>2 DEF ApprovalsRead
<1>17. CASE ApprovalsUnread(p)
  BY <1>7, <1>8, <1>17, TypeUnchanged DEF ApprovalsUnread, TypeOK
<1>18. ASSUME NEW S \in SUBSET Signers, StartCeremony(p, S, up) PROVE TypeOK'
  <2>1. S \in SUBSET Signers /\ online' \in [Runs -> SUBSET Signers]
    BY <1>18 DEF StartCeremony, TypeOK, TypeOKPipeline
  <2>2. TypeOKCalls' /\ chosen' \in [Runs -> SUBSET Signers]
    BY <1>7, <1>18, CeremonyType DEF StartCeremony, TypeOK, TypeOKCalls
  <2>3. TypeOKPipeline'
    BY <1>18, <2>1, <2>2 DEF StartCeremony, TypeOK, TypeOKPipeline, govVars
  <2> QED
    BY <1>1, <1>18, <2>2, <2>3, TypeUnchanged DEF StartCeremony, TypeOK
<1>19. CASE Round1Settled(p)
  <2>1. CASE Abandon(p) /\ UNCHANGED waiting
    BY <1>7, <1>8, <1>19, <2>1, TypeUnchanged DEF Round1Settled, TypeOK
  <2>2. CASE /\ Goto(p, "round2") /\ Ask(p, "round2", First(chosen[p]))
             /\ waiting' = [waiting EXCEPT ![p] = chosen[p]]
    <3>1. chosen[p] \in SUBSET Signers /\ chosen[p] # {}
      <4>1. chosen[p] \in SUBSET Signers
        BY DEF TypeOK, TypeOKPipeline
      <4>2. Cardinality(chosen[p]) = T
        BY <1>19 DEF Round1Settled, InvChosen
      <4>3. Cardinality({}) = 0
        BY FS_EmptySet
      <4> QED
        BY <4>1, <4>2, <4>3
    <3>2. First(chosen[p]) \in Signers
      BY <3>1, FirstIn
    <3>3. net' \subseteq Messages /\ reply' \in [Runs -> Replies]
      BY <2>2, <3>2, AskType, MessageType DEF TypeOK
    <3>4. pc' \in [Runs -> Steps]
      BY <1>4, <2>2 DEF Steps
    <3>5. TypeOKCalls'
      BY <1>7, <1>19, <2>2, <3>1, <3>3, <3>4 DEF Round1Settled, TypeOK, TypeOKCalls
    <3> QED
      BY <1>1, <1>19, <3>5, TypeUnchanged DEF Round1Settled, TypeOK, pipelineVars
  <2> QED
    BY <1>19, <2>1, <2>2 DEF Round1Settled
<1>20. CASE PartialArrives(p)
  <2> DEFINE rest == waiting[p] \ {reply[p].from}
  <2>1. rest \in SUBSET Signers /\ First(rest) \in Signers
    BY <1>20, FirstIn DEF PartialArrives, TypeOK, TypeOKCalls
  <2>2. net' \subseteq Messages /\ reply' \in [Runs -> Replies]
    BY <1>20, <2>1, AskType, MessageType DEF PartialArrives, TypeOK
  <2>3. TypeOKCalls'
    BY <1>20, <2>1, <2>2 DEF PartialArrives, TypeOK, TypeOKCalls
  <2> QED
    BY <1>1, <1>20, <2>3, TypeUnchanged DEF PartialArrives, TypeOK, pipelineVars
<1>21. CASE TokenSigned(p)
  <2>1. "prepare" \in Steps /\ "SIGNED" \in Statuses
    BY DEF Steps, Statuses
  <2>2. pc' \in [Runs -> Steps] /\ net' \subseteq Messages /\ reply' \in [Runs -> Replies]
    BY <1>4, <1>6, <1>21, <2>1 DEF TokenSigned, TypeOK, TypeOKCalls
  <2>3. TypeOKCalls'
    BY <1>21, <2>2 DEF TokenSigned, TypeOK, TypeOKCalls
  <2>4. status' \in [Runs -> Statuses]
    BY <1>21, <2>1, StatusType DEF TokenSigned, TypeOK
  <2>5. TypeOKPipeline'
    BY <1>21, <2>4 DEF TokenSigned, TypeOK, TypeOKPipeline, govVars
  <2> QED
    BY <1>1, <1>21, <2>3, <2>5, TypeUnchanged DEF TokenSigned, TypeOK
<1>22. CASE SignerRefused(p)
  <2> DEFINE seen == refused[p] \cup {reply[p].from}
  <2>1. reply[p] \in Replies
    BY DEF TypeOK, TypeOKCalls
  <2>2. reply[p].from \in Signers
    BY <1>22, <2>1 DEF SignerRefused, Replies, BankAnswers
  <2>3. refused' \in [Runs -> SUBSET Signers]
    BY <1>22, <2>2 DEF SignerRefused, TypeOK, TypeOKPipeline
  <2>4. online[p] \in SUBSET Signers
    BY DEF TypeOK, TypeOKPipeline
  <2>5. Ceremony(p, online[p], seen)
    BY <1>22 DEF SignerRefused
  <2>6. TypeOKCalls' /\ chosen' \in [Runs -> SUBSET Signers]
    BY <1>7, <1>22, <2>4, <2>5, CeremonyType DEF SignerRefused, TypeOK, TypeOKCalls
  <2>7. TypeOKPipeline'
    BY <1>22, <2>3, <2>6 DEF SignerRefused, TypeOK, TypeOKPipeline, govVars
  <2> QED
    BY <1>1, <1>22, <2>6, <2>7, TypeUnchanged DEF SignerRefused, TypeOK
<1>23. CASE CeremonyFails(p)
  BY <1>7, <1>8, <1>23, TypeUnchanged DEF CeremonyFails, TypeOK
<1>24. CASE PrepareReceipt(p)
  <2>1. "fragment" \in Steps
    BY DEF Steps
  <2>2. TypeOKCalls'
    BY <1>4, <1>24, <2>1 DEF PrepareReceipt, TypeOK, TypeOKCalls, TypeOKPipeline
  <2> QED
    BY <1>1, <1>24, <2>2, LedgerType, TypeUnchanged DEF PrepareReceipt, TypeOK, pipelineVars
<1>25. CASE FragmentSigned(p, up)
  <2>1. "submit" \in Steps
    BY DEF Steps
  <2>2. pc' \in [Runs -> Steps]
    BY <1>4, <1>25, <2>1 DEF FragmentSigned, TypeOK, TypeOKCalls
  <2>3. TypeOKCalls'
    BY <1>25, <2>2 DEF FragmentSigned, TypeOK, TypeOKCalls
  <2> QED
    BY <1>1, <1>25, <2>3, TypeUnchanged DEF FragmentSigned, TypeOK, pipelineVars
<1>26. CASE ReceiptAccepted(p)
  <2>1. "done" \in Steps /\ "DELIVERED" \in Statuses /\ "RECORDED" \in Statuses
    BY DEF Steps, Statuses, Terminal
  <2>2. pc' \in [Runs -> Steps] /\ net' \subseteq Messages /\ reply' \in [Runs -> Replies]
    BY <1>4, <1>6, <1>26, <2>1 DEF ReceiptAccepted, TypeOK, TypeOKCalls
  <2>3. TypeOKCalls'
    BY <1>26, <2>2 DEF ReceiptAccepted, TypeOK, TypeOKCalls
  <2>4. status' \in [Runs -> Statuses]
    BY <1>26, <2>1, StatusType DEF ReceiptAccepted, TypeOK
  <2>5. dispensed' \in [Requests -> Nat]
    BY <1>26 DEF ReceiptAccepted, Dispense, TypeOK, TypeOKPipeline
  <2>6. TypeOKPipeline'
    BY <1>26, <2>4, <2>5 DEF ReceiptAccepted, TypeOK, TypeOKPipeline, govVars
  <2> QED
    BY <1>1, <1>26, <2>3, <2>6, LedgerType DEF ReceiptAccepted, TypeOK
<1>27. CASE ReceiptFails(p, up)
  <2>1. TypeOKLedger'
    BY <1>27, LoseType, TypeUnchanged DEF ReceiptFails, Receipt, Transactions, TypeOK
  <2>2. faults' \in 0 .. MaxFaults
    BY <1>7, <1>27 DEF ReceiptFails
  <2> QED
    BY <1>8, <1>27, <2>1, <2>2 DEF ReceiptFails
<1>28. CASE ReverseSettled(p)
  <2>1. PICK confirmed \in BOOLEAN : Abandoned(p, confirmed)
    BY <1>28, Zenon DEF ReverseSettled
  <2>2. "done" \in Steps /\ "REJECTED_ABANDONED" \in Statuses
    BY DEF Steps, Statuses, Terminal
  <2>3. TypeOKCalls'
    BY <1>4, <1>7, <1>28, <2>1, <2>2 DEF ReverseSettled, Abandoned, TypeOK, TypeOKCalls
  <2>4. status' \in [Runs -> Statuses]
    BY <2>1, <2>2, StatusType DEF Abandoned, TypeOK
  <2>5. debitReversed' \in [Runs -> BOOLEAN]
    BY <2>1 DEF Abandoned, TypeOK, TypeOKPipeline
  <2>6. TypeOKPipeline'
    BY <1>28, <2>4, <2>5 DEF ReverseSettled, TypeOK, TypeOKPipeline, govVars
  <2> QED
    BY <1>1, <1>28, <2>3, <2>6, TypeUnchanged DEF ReverseSettled, TypeOK
<1> QED
  BY <1>9, <1>10, <1>11, <1>12, <1>13, <1>14, <1>15, <1>16, <1>17, <1>18, <1>19, <1>20,
     <1>21, <1>22, <1>23, <1>24, <1>25, <1>26, <1>27, <1>28 DEF RunStep

LEMMA TypeClient == TypeOK /\ ClientStep => TypeOK'
<1> SUFFICES ASSUME TypeOK, ClientStep PROVE TypeOK'
  OBVIOUS
<1>1. PICK r \in Requests, known \in BOOLEAN : Submit(r, known)
  BY DEF ClientStep
<1> DEFINE p == nruns + 1
<1>2. p \in Runs /\ p \in 0 .. MaxRuns
  BY <1>1 DEF Submit, Runs, TypeOK, TypeOKPipeline
<1>3. TypeOKBank' /\ TypeOKLedger' /\ TypeOKMembers' /\ changes' \in 0 .. MaxChanges
  BY <1>1, TypeUnchanged DEF ClientStep, Submit, TypeOK
<1>4. \E step \in {"done", "preflight"} : Goto(p, step)
  BY <1>1 DEF Submit
<1>5. \E st \in {"REJECTED", "PENDING"} : SetStatus(p, st)
  BY <1>1 DEF Submit
<1>6. pc' \in [Runs -> Steps]
  BY <1>2, <1>4, GotoType DEF Steps, TypeOK
<1>7. status' \in [Runs -> Statuses]
  BY <1>2, <1>5, StatusType DEF Statuses, Terminal, TypeOK
<1>8. TypeOKCalls'
  BY <1>1, <1>6 DEF Submit, TypeOK, TypeOKCalls
<1>9. TypeOKPipeline'
  BY <1>1, <1>2, <1>7 DEF Submit, TypeOK, TypeOKPipeline, govVars
<1> QED
  BY <1>3, <1>8, <1>9 DEF TypeOK

LEMMA TypeLedger == TypeOK /\ LedgerStep => TypeOK'
<1> SUFFICES ASSUME TypeOK, NEW t \in pending, LandsLate(t),
                    UNCHANGED <<callVars, bankVars, memberVars, pipelineVars, changes>>
             PROVE  TypeOK'
  BY DEF LedgerStep
<1>1. /\ t.run \in Runs
      /\ t.what \in Verdicts => t.by \in Signers
  BY PendingType DEF TypeOK
<1>2. prepared' = prepared /\ pending' \subseteq pending
  BY DEF LandsLate
<1>3. TypeOKLedger'
  BY <1>1, <1>2, LedgerType, AttestType DEF LandsLate, TypeOK
<1> QED
  BY <1>3, TypeUnchanged DEF TypeOK

LEMMA TypeOperator == TypeOK /\ OperatorStep => TypeOK'
<1> SUFFICES ASSUME TypeOK, OperatorStep PROVE TypeOK'
  OBVIOUS
<1>1. TypeOKCalls' /\ TypeOKLedger'
  BY TypeUnchanged DEF OperatorStep, TypeOK
<1>2. changes' \in 0 .. MaxChanges
  BY DEF OperatorStep, TypeOK
<1>3. ASSUME NEW b \in BankModes, SetBankMode(b) PROVE TypeOKBank'
  BY <1>3 DEF SetBankMode, TypeOK, TypeOKBank
<1>4. ASSUME NEW s \in Signers, ToggleOnline(s) \/ ToggleRefuse(s) PROVE TypeOKMembers'
  BY <1>4 DEF ToggleOnline, ToggleRefuse, TypeOK, TypeOKMembers
<1>5. ASSUME NEW s \in Signers, SetMemberStatus(s) PROVE TypeOKPipeline'
  BY <1>5 DEF SetMemberStatus, TypeOK, TypeOKPipeline, recordVars
<1>6. SetMerchantRevoked => TypeOKPipeline'
  <2>1. SetMerchantRevoked => merchantRevoked' \in BOOLEAN
    BY Zenon DEF SetMerchantRevoked
  <2> QED
    BY <2>1 DEF SetMerchantRevoked, TypeOK, TypeOKPipeline, recordVars
<1> QED
  BY <1>1, <1>2, <1>3, <1>4, <1>5, <1>6, TypeUnchanged DEF OperatorStep, TypeOK
-----------------------------------------------------------------------------
(* What a step on behalf of run p can touch. *)

\* A step of the coordinator works for a run that has started, sends calls for
\* that run only, attests nothing and leaves the other runs alone.  It asks for
\* attestations once, and the run is not early any more afterwards.
RunFrame(p) ==
    /\ pc[p] # "idle" /\ pc'[p] # "idle"
    /\ nruns' = nruns /\ req' = req /\ approvals' = approvals
    /\ \A q \in Runs \ {p} : /\ pc'[q] = pc[q] /\ status'[q] = status[q]
                             /\ chosen'[q] = chosen[q] /\ token'[q] = token[q]
                             /\ waiting'[q] = waiting[q] /\ reply'[q] = reply[q]
    /\ receipts \subseteq receipts' /\ receipts' \subseteq receipts \cup {p}
    /\ \A t \in pending' : t \in pending \/ (t.run = p /\ t.what \notin Verdicts)
    /\ pc'[p] \in Early => pending' = pending
    /\ \A m \in net' : m \in net \/ m.run = p
    /\ pc'[p] \in Early => pc[p] \in Early
    /\ \A m \in net' : m.kind = "validate" /\ m \notin net =>
          m.run = p /\ m.to \in Signers /\ pc[p] = "approvers" /\ pc'[p] = "gather"

LEMMA StepFrame ==
    ASSUME TypeOK, NEW p \in Runs, RunStep(p)
    PROVE  RunFrame(p)
<1> USE DEF RunFrame, TypeOK, TypeOKCalls, TypeOKPipeline, Goto, SetStatus, Ask, CallMsg, Early,
            ledgerVars
<1>1. ASSUME NEW S \in SUBSET Signers, Preflight(p, S, up) PROVE RunFrame(p)
  BY <1>1 DEF Preflight, Reject, chainVars
<1>2. ASSUME NEW S \in SUBSET Signers, AskApprovers(p, S, up) PROVE RunFrame(p)
  BY <1>2 DEF AskApprovers, Abandon, chainVars, recordVars
<1>3. ASSUME NEW S \in SUBSET Signers, StartCeremony(p, S, up) PROVE RunFrame(p)
  BY <1>3 DEF StartCeremony, Ceremony, Abandon, FirstT, chainVars
<1>4. ASSUME NEW s \in Signers, MemberTimesOut(p, s) PROVE RunFrame(p)
  BY <1>4 DEF MemberTimesOut, chainVars, pipelineVars, recordVars
<1>5. CASE DebitTimesOut(p)
  BY <1>5 DEF DebitTimesOut, Reject, chainVars, recordVars
<1>6. CASE DebitAnswered(p)
  BY <1>6 DEF DebitAnswered, Reject, chainVars, recordVars
<1>7. CASE Publish(p)
  BY <1>7 DEF Publish, PublishTx, chainVars, recordVars
<1>8. CASE PublishThrows(p)
  BY <1>8 DEF PublishThrows, Abandon, Lose, Publication, Verdicts, chainVars, recordVars
<1>9. CASE ApprovalsRead(p)
  BY <1>9 DEF ApprovalsRead, Abandon, chainVars, recordVars
<1>10. CASE ApprovalsUnread(p)
  BY <1>10 DEF ApprovalsUnread, Abandon, chainVars, recordVars
<1>11. CASE Round1Settled(p)
  BY <1>11 DEF Round1Settled, Abandon, chainVars, recordVars
<1>12. CASE PartialArrives(p)
  BY <1>12 DEF PartialArrives, chainVars, recordVars
<1>13. CASE TokenSigned(p)
  BY <1>13 DEF TokenSigned, Abandon, chainVars, recordVars
<1>14. CASE SignerRefused(p)
  BY <1>14 DEF SignerRefused, Ceremony, Abandon, FirstT, chainVars, recordVars
<1>15. CASE CeremonyFails(p)
  BY <1>15 DEF CeremonyFails, Abandon, chainVars, recordVars
<1>16. CASE PrepareReceipt(p)
  BY <1>16 DEF PrepareReceipt, PrepareTx, chainVars, recordVars
<1>17. CASE FragmentSigned(p, up)
  BY <1>17 DEF FragmentSigned, chainVars, recordVars
<1>18. CASE ReceiptAccepted(p)
  BY <1>18 DEF ReceiptAccepted, Abandon, ReceiptTx, chainVars, recordVars
<1>19. CASE ReceiptFails(p, up)
  BY <1>19 DEF ReceiptFails, Abandon, Lose, Receipt, Verdicts, chainVars, recordVars
<1>20. CASE ReverseSettled(p)
  BY <1>20 DEF ReverseSettled, Abandoned, chainVars, recordVars
<1> QED
  BY <1>1, <1>2, <1>3, <1>4, <1>5, <1>6, <1>7, <1>8, <1>9, <1>10, <1>11, <1>12, <1>13, <1>14, <1>15, <1>16, <1>17, <1>18, <1>19, <1>20 DEF RunStep

\* The bank and the members answer calls; they move no run and send nothing.
ServiceFrame ==
    /\ net' \subseteq net
    /\ UNCHANGED <<pc, recordVars, published, receipts>>
    /\ \A t \in pending' : t \in pending \/ t.what \in Verdicts
    /\ \A q \in Runs : waiting'[q] \subseteq waiting[q]
    /\ \A q \in Runs : pc[q] \notin {"gather", "round1"} => waiting'[q] = waiting[q]

LEMMA BankFrame ==
    ASSUME TypeOK, BankStep
    PROVE  ServiceFrame /\ UNCHANGED <<approvals, pending, checking, signing, partials>>
BY DEF BankStep, BankDebit, BankReverse, ServiceFrame, TypeOK, TypeOKCalls, memberVars,
       chainVars, ledgerVars, pipelineVars

LEMMA CallFrame ==
    ASSUME TypeOK, MemberCall
    PROVE  ServiceFrame /\ UNCHANGED <<approvals, pending, partials, bankVars>>
<1> USE DEF ServiceFrame, MemberCall, TypeOK, TypeOKCalls, memberVars, chainVars, ledgerVars,
            pipelineVars, Settle
<1> SUFFICES ASSUME NEW m \in net,
                    \/ ValidateBegin(m, Confirmed(m.run))
                    \/ Round1(m, req[m.run], CeremonyOf(m.run))
                    \/ Round2Offline(m)
                    \/ Round2Refuse(m, req[m.run])
                    \/ Round2Reject(m, req[m.run], Confirmed(m.run))
                    \/ Round2Begin(m, req[m.run], Confirmed(m.run), CeremonyOf(m.run))
             PROVE  ServiceFrame /\ UNCHANGED <<approvals, pending, partials, bankVars>>
  OBVIOUS
<1>1. CASE ValidateBegin(m, Confirmed(m.run))
  BY <1>1 DEF ValidateBegin
<1>2. CASE Round1(m, req[m.run], CeremonyOf(m.run))
  BY <1>2 DEF Round1
<1>3. CASE Round2Offline(m)
  BY <1>3 DEF Round2Offline, Round2Call
<1>4. CASE Round2Refuse(m, req[m.run])
  BY <1>4 DEF Round2Refuse, Round2Call
<1>5. CASE Round2Reject(m, req[m.run], Confirmed(m.run))
  BY <1>5 DEF Round2Reject, Round2Call
<1>6. CASE Round2Begin(m, req[m.run], Confirmed(m.run), CeremonyOf(m.run))
  BY <1>6 DEF Round2Begin, Round2Call
<1> QED
  BY <1>1, <1>2, <1>3, <1>4, <1>5, <1>6

LEMMA ResumeFrame ==
    ASSUME TypeOK, MemberResume
    PROVE  ServiceFrame /\ UNCHANGED bankVars
<1> USE DEF ServiceFrame, TypeOK, TypeOKCalls, chainVars, ledgerVars, pipelineVars, Settle
<1>1. ASSUME NEW h \in checking, ValidateEnd(h) PROVE ServiceFrame
  BY <1>1 DEF ValidateEnd, AttestTx, MemberResume
<1>2. ASSUME NEW h \in checking, ValidateThrows(h) PROVE ServiceFrame
  <2>1. h.verdict \in Verdicts
    BY DEF TypeOKMembers
  <2> QED
    BY <1>2, <2>1 DEF ValidateThrows, Lose, Attestation, MemberResume
<1>3. ASSUME NEW h \in signing, \/ Round2Sign(h, req[h.run])
                                \/ Round2NoPartial(h, req[h.run])
                                \/ Round2Throws(h)
      PROVE  ServiceFrame
  BY <1>3 DEF Round2Sign, Round2NoPartial, Round2Throws, MemberResume
<1> QED
  BY <1>1, <1>2, <1>3 DEF MemberResume

\* What lands late was pending; everything else stays.
LEMMA LedgerFrame ==
    ASSUME TypeOK, LedgerStep
    PROVE  /\ UNCHANGED <<callVars, bankVars, memberVars, pipelineVars>>
           /\ pending' \subseteq pending
           /\ receipts \subseteq receipts'
           /\ \A p \in receipts' : p \in receipts \/ Receipt(p) \in pending
<1>1. PICK t \in pending : LandsLate(t)
  BY DEF LedgerStep
<1>2. t.what = "receipt" => t = Receipt(t.run)
  BY DEF TypeOK, TypeOKLedger, Transactions, Receipt, Verdicts
<1>3. \/ receipts' = receipts
      \/ t.what = "receipt" /\ receipts' = receipts \cup {t.run}
  BY <1>1 DEF LandsLate, PublishTx, ReceiptTx, AttestTx
<1>4. pending' \subseteq pending
  BY <1>1 DEF LandsLate
<1> QED
  BY <1>2, <1>3, <1>4 DEF LedgerStep

\* Switches touch neither calls nor records nor what anybody has signed.
LEMMA OperatorFrame ==
    ASSUME OperatorStep
    PROVE  UNCHANGED <<callVars, chainVars, recordVars, debitLog, checking, signing, partials>>
BY DEF OperatorStep, SetBankMode, ToggleOnline, ToggleRefuse, SetMemberStatus,
       SetMerchantRevoked, bankVars, memberVars, pipelineVars

\* A new run starts; nothing else happens.
LEMMA ClientFrame ==
    ASSUME TypeOK, ClientStep
    PROVE  /\ nruns' = nruns + 1 /\ nruns + 1 \in Runs
           /\ \A q \in Runs \ {nruns + 1} : /\ pc'[q] = pc[q] /\ status'[q] = status[q]
                                            /\ req'[q] = req[q]
           /\ pc'[nruns + 1] \in {"preflight", "done"}
           /\ status'[nruns + 1] \in {"PENDING", "REJECTED"}
           /\ UNCHANGED <<net, waiting, reply, chainVars, chosen, token, bankVars, memberVars>>
BY DEF ClientStep, Submit, Goto, SetStatus, TypeOK, TypeOKCalls, TypeOKPipeline, Runs

-----------------------------------------------------------------------------
(* Each part of the invariant is kept by every step. *)

LEMMA KeepsStarted == IInv /\ Next => InvStarted'
<1> SUFFICES ASSUME IInv, Next PROVE InvStarted'
  OBVIOUS
<1>1. TypeOK /\ InvStarted
  BY DEF IInv
<1>2. nruns \in Nat
  BY <1>1 DEF TypeOK, TypeOKPipeline
<1>3. \A m \in net : m.run \in Runs /\ m.run \in Nat
  BY <1>1, NetType DEF TypeOK, Runs
<1>4. CASE ClientStep
  BY <1>1, <1>2, <1>3, <1>4, ClientFrame DEF InvStarted, Runs
<1>5. CASE OperatorStep
  BY <1>1, <1>5, OperatorFrame DEF InvStarted, callVars, recordVars
<1>6. CASE BankStep \/ MemberCall \/ MemberResume
  <2>1. ServiceFrame
    BY <1>1, <1>6, BankFrame, CallFrame, ResumeFrame
  <2> QED
    BY <1>1, <2>1 DEF ServiceFrame, InvStarted, recordVars
<1>7. CASE LedgerStep
  BY <1>1, <1>7, LedgerFrame DEF InvStarted, callVars, pipelineVars, recordVars
<1>8. ASSUME NEW p \in Runs, RunStep(p) PROVE InvStarted'
  BY <1>1, <1>8, StepFrame DEF RunFrame, InvStarted
<1> QED
  BY <1>4, <1>5, <1>6, <1>7, <1>8 DEF Next

\* The bank never takes a confirmation back, and a run keeps its requestId.
LEMMA PaidStays ==
    ASSUME TypeOK, Next, NEW p \in Runs, Paid(p)
    PROVE  Paid(p)'
<1>1. nruns \in Nat /\ req[p] \in Requests
  BY DEF TypeOK, TypeOKPipeline
<1>2. CASE ClientStep
  BY <1>1, <1>2, ClientFrame DEF Paid, Confirmed, Runs, bankVars
<1>3. CASE OperatorStep
  BY <1>3, OperatorFrame DEF Paid, Confirmed, recordVars
<1>4. CASE BankStep
  <2>1. \A r \in Requests : debitLog[r] = "CONFIRMED" => debitLog'[r] = "CONFIRMED"
    BY <1>4 DEF BankStep, BankDebit, BankReverse, TypeOK, TypeOKBank
  <2> QED
    BY <1>1, <1>4, <2>1, BankFrame DEF ServiceFrame, Paid, Confirmed, recordVars
<1>5. CASE MemberCall \/ MemberResume
  BY <1>5, CallFrame, ResumeFrame DEF ServiceFrame, Paid, Confirmed, recordVars, bankVars
<1>6. CASE LedgerStep
  BY <1>6, LedgerFrame DEF Paid, Confirmed, bankVars, pipelineVars, recordVars
<1>7. ASSUME NEW q \in Runs, RunStep(q) PROVE Paid(p)'
  BY <1>7, StepFrame DEF RunFrame, RunStep, Paid, Confirmed, bankVars
<1> QED
  BY <1>2, <1>3, <1>4, <1>5, <1>6, <1>7 DEF Next

LEMMA KeepsPaid == IInv /\ Next => InvPaid'
<1> SUFFICES ASSUME IInv, Next PROVE InvPaid'
  OBVIOUS
<1>1. TypeOK /\ InvStarted /\ InvPaid
  BY DEF IInv
<1>2. \A p \in Runs : Paid(p) => Paid(p)'
  BY <1>1, PaidStays
<1>3. \A h \in signing : h.run \in Runs
  BY <1>1 DEF TypeOK, TypeOKMembers
<1>4. UNCHANGED <<signing, partials>> => InvPaid'
  BY <1>1, <1>2, <1>3 DEF InvPaid
<1>5. CASE MemberCall
  <2>1. \A h \in signing' : \/ h \in signing
                            \/ h.run \in Runs /\ Paid(h.run)
    <3>1. ASSUME NEW m \in net, Round2Begin(m, req[m.run], Confirmed(m.run), CeremonyOf(m.run))
          PROVE  \A h \in signing' : h \in signing \/ (h.run \in Runs /\ Paid(h.run))
      <4>1. Confirmed(m.run)
        BY <3>1, Zenon DEF Round2Begin
      <4>2. m.run \in Runs /\ Paid(m.run)
        BY <1>1, <4>1, NetType DEF InvStarted, Paid, TypeOK
      <4>3. \A h \in signing' : h \in signing \/ h.run = m.run
        BY <3>1 DEF Round2Begin
      <4> QED
        BY <4>2, <4>3, Zenon DEF Paid, Confirmed
    <3>2. ASSUME NEW m \in net, \/ ValidateBegin(m, Confirmed(m.run))
                                \/ Round1(m, req[m.run], CeremonyOf(m.run))
                                \/ Round2Offline(m)
                                \/ Round2Refuse(m, req[m.run])
                                \/ Round2Reject(m, req[m.run], Confirmed(m.run))
          PROVE  UNCHANGED signing
      BY <3>2 DEF ValidateBegin, Round1, Round2Offline, Round2Refuse, Round2Reject, memberVars
    <3>3. PICK m \in net : \/ ValidateBegin(m, Confirmed(m.run))
                           \/ Round1(m, req[m.run], CeremonyOf(m.run))
                           \/ Round2Offline(m)
                           \/ Round2Refuse(m, req[m.run])
                           \/ Round2Reject(m, req[m.run], Confirmed(m.run))
                           \/ Round2Begin(m, req[m.run], Confirmed(m.run), CeremonyOf(m.run))
      BY <1>5, Zenon DEF MemberCall
    <3> QED
      BY <3>1, <3>2, <3>3, Zenon
  <2> QED
    BY <1>1, <1>2, <1>3, <1>5, <2>1, CallFrame DEF InvPaid
<1>6. CASE MemberResume
  <2>1. signing' \subseteq signing
    BY <1>6 DEF MemberResume, ValidateEnd, ValidateThrows, Round2Sign, Round2NoPartial,
       Round2Throws
  <2>2. \A p \in Runs : \/ partials'[p] = partials[p]
                        \/ \E h \in signing : h.run = p
    BY <1>1, <1>6 DEF MemberResume, ValidateEnd, ValidateThrows, Round2Sign, Round2NoPartial,
       Round2Throws, TypeOK, TypeOKMembers
  <2> QED
    BY <1>1, <1>2, <1>3, <2>1, <2>2 DEF InvPaid
<1>7. CASE BankStep
  BY <1>1, <1>4, <1>7, BankFrame
<1>8. CASE ClientStep
  BY <1>1, <1>4, <1>8, ClientFrame DEF memberVars
<1>9. CASE OperatorStep
  BY <1>4, <1>9, OperatorFrame
<1>10. CASE LedgerStep
  BY <1>1, <1>4, <1>10, LedgerFrame DEF memberVars
<1>11. ASSUME NEW p \in Runs, RunStep(p) PROVE InvPaid'
  BY <1>4, <1>11 DEF RunStep, memberVars
<1> QED
  BY <1>5, <1>6, <1>7, <1>8, <1>9, <1>10, <1>11 DEF Next

LEMMA KeepsAttest == IInv /\ Next => InvAttest'
<1> SUFFICES ASSUME IInv, Next PROVE InvAttest'
  OBVIOUS
<1>1. TypeOK /\ InvStarted /\ InvAttest
  BY DEF IInv
<1>2. ASSUME UNCHANGED <<pc, approvals, checking, pending>>, net' \subseteq net PROVE InvAttest'
  BY <1>1, <1>2 DEF InvAttest, Attesting
<1>3. CASE ClientStep
  <2>1. pc[nruns + 1] = "idle"
    BY <1>1, <1>3, ClientFrame DEF InvStarted, TypeOK, TypeOKPipeline
  <2>2. \A q \in Runs : pc'[q] \in Early => pc[q] \in Early
    BY <1>1, <1>3, <2>1, ClientFrame DEF Early
  <2>3. UNCHANGED <<net, approvals, checking, pending>>
    BY <1>1, <1>3, ClientFrame DEF chainVars, ledgerVars, memberVars
  <2> QED
    BY <1>1, <2>2, <2>3 DEF InvAttest, Attesting
<1>4. CASE OperatorStep
  BY <1>2, <1>4, OperatorFrame DEF callVars, chainVars, ledgerVars
<1>5. CASE BankStep
  BY <1>1, <1>2, <1>5, BankFrame DEF ServiceFrame
<1>6. ASSUME NEW m \in net, ValidateBegin(m, Confirmed(m.run)), ServiceFrame,
             UNCHANGED <<approvals, pending>>
      PROVE  InvAttest'
  <2>1. m.run \in Runs /\ m.to \in Signers /\ m.kind = "validate"
    BY <1>1, <1>6, NetType DEF ValidateBegin, TypeOK
  <2>2. \A n \in net : n.kind = "validate" /\ n.run = m.run /\ n.to = m.to => n = m
    BY <1>1, <2>1 DEF TypeOK, TypeOKCalls, Messages
  <2>3. net' = net \ {m} /\ pc' = pc
    BY <1>6 DEF ValidateBegin
  <2>4. \A h \in checking' : h \in checking \/ (h.run = m.run /\ h.by = m.to)
    <3>1. PICK v : \/ checking' = checking
                   \/ checking' = checking \cup {[run |-> m.run, by |-> m.to, verdict |-> v]}
      BY <1>6, Zenon DEF ValidateBegin
    <3> QED
      BY <3>1
  <2>5. \A g, h \in checking' : g.run = h.run /\ g.by = h.by => g = h
    <3>1. \A h \in checking : ~(h.run = m.run /\ h.by = m.to)
      BY <1>1, <2>1 DEF InvAttest
    <3>2. \A g, h \in checking' : g \notin checking /\ h \notin checking => g = h
      BY <1>6 DEF ValidateBegin
    <3> QED
      BY <1>1, <2>4, <3>1, <3>2 DEF InvAttest
  <2>6. \A h \in checking' : approvals'[h.run][h.by] = "none"
    BY <1>1, <1>6, <2>1, <2>4 DEF InvAttest
  <2>7. \A p \in Runs : pc'[p] \in Early => \A h \in checking' : h.run # p
    BY <1>1, <2>1, <2>3, <2>4 DEF InvAttest
  <2>8. \A n \in net' : n.kind = "validate" =>
                          \A h \in checking' : h.run # n.run \/ h.by # n.to
    BY <1>1, <2>2, <2>3, <2>4 DEF InvAttest
  <2>9. \A h \in checking' : \A t \in Attesting' : t.run # h.run \/ t.by # h.by
    BY <1>1, <1>6, <2>1, <2>4 DEF InvAttest, Attesting
  <2>10. Attesting' = Attesting
    BY <1>6 DEF Attesting
  <2> QED
    BY <1>1, <1>6, <2>3, <2>5, <2>6, <2>7, <2>8, <2>9, <2>10 DEF InvAttest
<1>7. CASE MemberCall
  <2>1. ServiceFrame /\ UNCHANGED <<approvals, pending, pc>>
    BY <1>1, <1>7, CallFrame DEF ServiceFrame
  <2>2. \/ UNCHANGED checking
        \/ \E m \in net : ValidateBegin(m, Confirmed(m.run))
    BY <1>7 DEF MemberCall, Round1, Round2Offline, Round2Refuse, Round2Reject, Round2Begin,
       memberVars
  <2> QED
    BY <1>2, <1>6, <2>1, <2>2 DEF ServiceFrame
<1>8. \A t \in Attesting : t.run \in Runs /\ t.by \in Signers
  BY <1>1, PendingType DEF Attesting, TypeOK
<1>9. \A h \in checking : h.run \in Runs /\ h.by \in Signers /\ pc[h.run] \notin Early
  BY <1>1 DEF InvAttest, TypeOK, TypeOKMembers
<1>10. \A n \in net : n.kind = "validate" => n.run \in Runs /\ n.to \in Signers
  BY <1>1, NetType DEF TypeOK
<1>11. ASSUME NEW h \in checking, ValidateEnd(h) PROVE InvAttest'
  <2>1. \A p \in Runs, s \in Signers : \/ approvals'[p][s] = approvals[p][s]
                                       \/ p = h.run /\ s = h.by
    BY <1>1, <1>9, <1>11 DEF ValidateEnd, AttestTx, TypeOK, TypeOKLedger
  <2>2. checking' = checking \ {h} /\ UNCHANGED <<pc, net, pending>>
    BY <1>11 DEF ValidateEnd
  <2>3. \A g \in checking' : g \in checking /\ ~(g.run = h.run /\ g.by = h.by)
    BY <1>1, <2>2 DEF InvAttest
  <2>4. \A n \in net : n.kind = "validate" => ~(n.run = h.run /\ n.to = h.by)
    BY <1>1 DEF InvAttest
  <2>5. \A t \in Attesting : ~(t.run = h.run /\ t.by = h.by)
    BY <1>1 DEF InvAttest
  <2>6. Attesting' = Attesting
    BY <2>2 DEF Attesting
  <2> QED
    BY <1>1, <1>8, <1>9, <1>10, <2>1, <2>2, <2>3, <2>4, <2>5, <2>6 DEF InvAttest
<1>12. ASSUME NEW h \in checking, ValidateThrows(h) PROVE InvAttest'
  <2> DEFINE a == Attestation(h.run, h.by, h.verdict)
  <2>1. UNCHANGED <<pc, net, approvals>> /\ checking' = checking \ {h}
        /\ pending' = pending \cup {a}
    BY <1>12 DEF ValidateThrows, Lose, ledgerVars
  <2>2. a.run = h.run /\ a.by = h.by
    BY DEF Attestation
  <2> HIDE DEF a
  <2>3. \A t \in Attesting' : t \in Attesting \/ t = a
    BY <2>1 DEF Attesting
  <2>4. \A t \in pending' : t \in pending \/ t = a
    BY <2>1
  <2>5. \A g \in checking' : g \in checking /\ ~(g.run = h.run /\ g.by = h.by)
    BY <1>1, <2>1 DEF InvAttest
  <2>6. \A n \in net : n.kind = "validate" => ~(n.run = h.run /\ n.to = h.by)
    BY <1>1 DEF InvAttest
  <2>7. \A t \in Attesting : ~(t.run = h.run /\ t.by = h.by)
    BY <1>1 DEF InvAttest
  <2>8. approvals[h.run][h.by] = "none"
    BY <1>1 DEF InvAttest
  <2> QED
    BY <1>1, <1>8, <1>9, <1>10, <2>1, <2>2, <2>3, <2>4, <2>5, <2>6, <2>7, <2>8 DEF InvAttest
<1>13. CASE MemberResume
  <2>1. ASSUME NEW h \in signing, \/ Round2Sign(h, req[h.run])
                                  \/ Round2NoPartial(h, req[h.run])
                                  \/ Round2Throws(h)
        PROVE  InvAttest'
    BY <1>2, <2>1 DEF Round2Sign, Round2NoPartial, Round2Throws, chainVars, ledgerVars
  <2> QED
    BY <1>11, <1>12, <1>13, <2>1 DEF MemberResume
<1>14. CASE LedgerStep
  <2>1. PICK t \in pending : LandsLate(t)
    BY <1>14 DEF LedgerStep
  <2>2. UNCHANGED <<pc, net, checking>> /\ pending' = pending \ {t}
    BY <1>14, <2>1 DEF LedgerStep, LandsLate, callVars, memberVars
  <2>3. CASE approvals' = approvals
    BY <1>1, <2>2, <2>3 DEF InvAttest, Attesting
  <2>4. CASE t.what \in Verdicts /\ AttestTx(t.run, t.by, t.what)
    <3>1. t \in Attesting
      BY <2>4 DEF Attesting
    <3>2. \A p \in Runs, s \in Signers : \/ approvals'[p][s] = approvals[p][s]
                                         \/ p = t.run /\ s = t.by
      BY <1>1, <1>8, <2>4, <3>1 DEF AttestTx, TypeOK, TypeOKLedger
    <3>3. pc[t.run] \notin Early
      BY <1>1, <1>8, <3>1 DEF InvAttest
    <3>4. \A u \in Attesting' : u \in Attesting /\ ~(u.run = t.run /\ u.by = t.by)
      BY <1>1, <2>2, <3>1 DEF InvAttest, Attesting
    <3>5. \A n \in net : n.kind = "validate" => ~(n.run = t.run /\ n.to = t.by)
      BY <1>1, <3>1 DEF InvAttest
    <3>6. \A h \in checking : ~(h.run = t.run /\ h.by = t.by)
      BY <1>1, <3>1 DEF InvAttest
    <3> QED
      BY <1>1, <1>8, <1>9, <1>10, <2>2, <3>2, <3>3, <3>4, <3>5, <3>6 DEF InvAttest
  <2> QED
    BY <2>1, <2>3, <2>4 DEF LandsLate, PublishTx, ReceiptTx
<1>15. ASSUME NEW p \in Runs, RunStep(p) PROVE InvAttest'
  <2>1. RunFrame(p) /\ UNCHANGED checking
    BY <1>1, <1>15, StepFrame DEF RunStep, memberVars
  <2>2. \A q \in Runs : pc'[q] \in Early => pc[q] \in Early
    BY <2>1 DEF RunFrame
  <2>3. \A m \in net' : m.kind = "validate" =>
           \/ m \in net
           \/ m.run = p /\ m.to \in Signers /\ pc[p] \in Early /\ pc'[p] \notin Early
    BY <2>1 DEF RunFrame, Early
  <2>4. \A t \in Attesting' : t \in Attesting
    BY <2>1 DEF RunFrame, Attesting
  <2>5. \A q \in Runs : pc'[q] \in Early => \A t \in pending' : t.run # q
    BY <1>1, <2>1, <2>2 DEF RunFrame, InvAttest
  <2>6. approvals' = approvals
    BY <2>1 DEF RunFrame
  <2>7. \A m \in net' : m.kind = "validate" => \A t \in Attesting' : t.run # m.run \/ t.by # m.to
    BY <1>1, <2>3, <2>4 DEF InvAttest, Attesting
  <2> QED
    BY <1>1, <2>1, <2>2, <2>3, <2>4, <2>5, <2>6, <2>7 DEF InvAttest
<1> QED
  BY <1>3, <1>4, <1>5, <1>7, <1>13, <1>14, <1>15 DEF Next

\* No step changes an attestation that is on the ledger.
LEMMA FinalStep ==
    ASSUME TypeOK, InvAttest, Next, NEW p \in Runs, NEW s \in Signers, approvals[p][s] # "none"
    PROVE  approvals'[p][s] = approvals[p][s]
<1>1. ASSUME NEW h \in checking, AttestTx(h.run, h.by, h.verdict)
      PROVE  approvals'[p][s] = approvals[p][s]
  <2>1. h.run \in Runs /\ h.by \in Signers /\ ~(h.run = p /\ h.by = s)
    BY DEF TypeOK, TypeOKMembers, InvAttest
  <2> QED
    BY <1>1, <2>1 DEF AttestTx, TypeOK, TypeOKLedger
<1>2. CASE MemberResume
  BY <1>1, <1>2 DEF MemberResume, ValidateEnd, ValidateThrows, Lose, Round2Sign,
     Round2NoPartial, Round2Throws, chainVars, ledgerVars
<1>3. CASE ClientStep
  BY <1>3, ClientFrame DEF chainVars, ledgerVars
<1>4. CASE OperatorStep
  BY <1>4, OperatorFrame DEF chainVars, ledgerVars
<1>5. CASE BankStep \/ MemberCall
  BY <1>5, BankFrame, CallFrame
<1>6. ASSUME NEW q \in Runs, RunStep(q) PROVE approvals' = approvals
  BY <1>6, StepFrame DEF RunFrame
<1>7. ASSUME NEW t \in Attesting, AttestTx(t.run, t.by, t.what)
      PROVE  approvals'[p][s] = approvals[p][s]
  <2>1. t.run \in Runs /\ t.by \in Signers /\ ~(t.run = p /\ t.by = s)
    BY PendingType DEF TypeOK, Attesting, InvAttest
  <2> QED
    BY <1>7, <2>1 DEF AttestTx, TypeOK, TypeOKLedger
<1>8. CASE LedgerStep
  <2>1. PICK t \in pending : LandsLate(t)
    BY <1>8 DEF LedgerStep
  <2>2. CASE t.what \in Verdicts /\ AttestTx(t.run, t.by, t.what)
    BY <1>7, <2>2 DEF Attesting
  <2>3. CASE approvals' = approvals
    BY <2>3
  <2> QED
    BY <2>1, <2>2, <2>3 DEF LandsLate, PublishTx, ReceiptTx
<1> QED
  BY <1>2, <1>3, <1>4, <1>5, <1>6, <1>8 DEF Next

LEMMA QuorumStays ==
    ASSUME TypeOK, InvAttest, Next, NEW p \in Runs, Cardinality(Approvers(p)) >= T
    PROVE  Cardinality(Approvers(p)') >= T
<1>1. Approvers(p) \subseteq Approvers(p)'
  BY FinalStep DEF Approvers
<1>2. Approvers(p)' \in SUBSET Signers
  BY DEF Approvers
<1>3. Cardinality(Approvers(p)) <= Cardinality(Approvers(p)')
  BY <1>1, <1>2, SignersFinite, FS_Subset
<1>4. Cardinality(Approvers(p)) \in Nat /\ Cardinality(Approvers(p)') \in Nat
  BY <1>1, <1>2, SignersFinite
<1> QED
  BY <1>3, <1>4

LEMMA KeepsQuorum == IInv /\ Next => InvQuorum'
<1> SUFFICES ASSUME IInv, Next, NEW p \in Runs, partials'[p] # {}
             PROVE  Cardinality(Approvers(p)') >= T
  BY DEF InvQuorum
<1>1. TypeOK /\ InvAttest /\ InvQuorum
  BY DEF IInv
<1>2. CASE Cardinality(Approvers(p)) >= T
  BY <1>1, <1>2, QuorumStays
<1>3. CASE partials'[p] = partials[p]
  BY <1>1, <1>2, <1>3 DEF InvQuorum
<1>4. CASE MemberResume
  <2>1. \/ partials'[p] = partials[p]
        \/ \E h \in signing : h.run = p /\ HasQuorum(h.run)
    BY <1>1, <1>4 DEF MemberResume, ValidateEnd, ValidateThrows, Round2Sign, Round2NoPartial,
       Round2Throws, TypeOK, TypeOKMembers
  <2> QED
    BY <1>2, <1>3, <2>1 DEF HasQuorum
<1>5. CASE MemberCall \/ BankStep
  BY <1>1, <1>3, <1>5, CallFrame, BankFrame
<1>6. CASE ClientStep
  BY <1>1, <1>3, <1>6, ClientFrame DEF memberVars
<1>7. CASE OperatorStep
  BY <1>3, <1>7, OperatorFrame
<1>8. CASE LedgerStep
  BY <1>1, <1>3, <1>8, LedgerFrame DEF memberVars
<1>9. ASSUME NEW q \in Runs, RunStep(q) PROVE partials' = partials
  BY <1>9 DEF RunStep, memberVars
<1> QED
  BY <1>3, <1>4, <1>5, <1>6, <1>7, <1>8, <1>9 DEF Next

\* What InvChosen, InvCeremony and InvReceipt say of one run.
RunInv(p) ==
    /\ pc[p] \in {"round1", "round2"} => Cardinality(chosen[p]) = T /\ ~token[p]
    /\ pc[p] = "round2" => chosen[p] \ waiting[p] \subseteq partials[p]
    /\ reply[p].is = "partial" => reply[p].from \in partials[p]
    /\ pc[p] \in Early \cup {"gather", "poll"} => ~token[p]
    /\ token[p] => Cardinality(chosen[p]) = T /\ chosen[p] \subseteq partials[p]
    /\ pc[p] \in {"prepare", "fragment", "submit"} => token[p]
    /\ p \in receipts \/ Receipt(p) \in pending => token[p]
    /\ status[p] = "DELIVERED" => p \in receipts

LEMMA RunInvEquiv ==
    ASSUME TypeOK
    PROVE  InvChosen /\ InvCeremony /\ InvReceipt <=> \A p \in Runs : RunInv(p)
BY DEF InvChosen, InvCeremony, InvReceipt, RunInv, TypeOK, TypeOKLedger

\* A step on behalf of run p keeps what is known of run p.
LEMMA StepRunInv ==
    ASSUME TypeOK, NEW p \in Runs, RunInv(p), RunStep(p)
    PROVE  RunInv(p)'
<1> USE DEF RunInv, TypeOK, TypeOKCalls, TypeOKPipeline, Goto, SetStatus, Ask, NoReply, Early,
            ledgerVars
<1>0. partials' = partials
  BY DEF RunStep, memberVars
<1>1. ASSUME NEW S \in SUBSET Signers, Preflight(p, S, up) PROVE RunInv(p)'
  BY <1>0, <1>1 DEF Preflight, Reject, chainVars
<1>2. ASSUME NEW S \in SUBSET Signers, AskApprovers(p, S, up) PROVE RunInv(p)'
  BY <1>0, <1>2 DEF AskApprovers, Abandon, chainVars, recordVars
<1>3. ASSUME NEW S \in SUBSET Signers, StartCeremony(p, S, up) PROVE RunInv(p)'
  BY <1>0, <1>3 DEF StartCeremony, Ceremony, Abandon, FirstT, chainVars
<1>4. ASSUME NEW s \in Signers, MemberTimesOut(p, s) PROVE RunInv(p)'
  BY <1>0, <1>4 DEF MemberTimesOut, chainVars, pipelineVars, recordVars
<1>5. CASE DebitTimesOut(p)
  BY <1>0, <1>5 DEF DebitTimesOut, Reject, chainVars, recordVars
<1>6. CASE DebitAnswered(p)
  BY <1>0, <1>6 DEF DebitAnswered, Reject, chainVars, recordVars
<1>7. CASE Publish(p)
  BY <1>0, <1>7 DEF Publish, PublishTx, chainVars, recordVars
<1>8. CASE PublishThrows(p)
  BY <1>0, <1>8 DEF PublishThrows, Abandon, Lose, Publication, Receipt, chainVars, recordVars
<1>9. CASE ApprovalsRead(p)
  BY <1>0, <1>9 DEF ApprovalsRead, Abandon, chainVars, recordVars
<1>10. CASE ApprovalsUnread(p)
  BY <1>0, <1>10 DEF ApprovalsUnread, Abandon, chainVars, recordVars
<1>11. CASE Round1Settled(p)
  BY <1>0, <1>11 DEF Round1Settled, Abandon, chainVars, recordVars
<1>12. CASE PartialArrives(p)
  BY <1>0, <1>12 DEF PartialArrives, chainVars, recordVars
<1>13. CASE TokenSigned(p)
  BY <1>0, <1>13 DEF TokenSigned, Abandon, chainVars, recordVars
<1>14. CASE SignerRefused(p)
  BY <1>0, <1>14 DEF SignerRefused, Ceremony, Abandon, FirstT, chainVars, recordVars
<1>15. CASE CeremonyFails(p)
  BY <1>0, <1>15 DEF CeremonyFails, Abandon, chainVars, recordVars
<1>16. CASE PrepareReceipt(p)
  BY <1>0, <1>16 DEF PrepareReceipt, PrepareTx, chainVars, recordVars
<1>17. CASE FragmentSigned(p, up)
  BY <1>0, <1>17 DEF FragmentSigned, chainVars, recordVars
<1>18. CASE ReceiptAccepted(p)
  BY <1>0, <1>18 DEF ReceiptAccepted, Abandon, ReceiptTx, chainVars, recordVars
<1>19. CASE ReceiptFails(p, up)
  BY <1>0, <1>19 DEF ReceiptFails, Abandon, Lose, Receipt, chainVars, recordVars
<1>20. CASE ReverseSettled(p)
  BY <1>0, <1>20 DEF ReverseSettled, Abandoned, chainVars, recordVars
<1> QED
  BY <1>1, <1>2, <1>3, <1>4, <1>5, <1>6, <1>7, <1>8, <1>9, <1>10, <1>11, <1>12,
     <1>13, <1>14, <1>15, <1>16, <1>17, <1>18, <1>19, <1>20 DEF RunStep

\* A partial that a run has been answered is one that its member released.
LEMMA ServiceRunInv ==
    ASSUME TypeOK, BankStep \/ MemberCall \/ MemberResume, NEW p \in Runs, RunInv(p)
    PROVE  RunInv(p)'
<1>1. ServiceFrame
  BY BankFrame, CallFrame, ResumeFrame
<1>2. /\ partials[p] \subseteq partials'[p]
      /\ reply'[p].is = "partial" => reply'[p].from \in partials'[p]
  <2> DEFINE NoNewPartial == reply'[p].is = "partial" => reply'[p] = reply[p]
  <2>0. ASSUME NEW q \in Runs, NEW step, NEW from, NEW what, what # "partial",
               Answer(q, step, from, what)
        PROVE  NoNewPartial
    BY <2>0 DEF Answer, TypeOK, TypeOKCalls
  <2>1. CASE BankStep
    <3>1. PICK m \in net : BankDebit(m, req[m.run]) \/ BankReverse(m, req[m.run])
      BY <2>1 DEF BankStep
    <3>2. m.run \in Runs /\ req[m.run] \in Requests
      BY NetType DEF TypeOK, TypeOKPipeline
    <3>3. CASE BankDebit(m, req[m.run])
      <4>1. FreshOutcome # "partial" /\ debitLog[req[m.run]] # "partial"
        BY <3>2 DEF FreshOutcome, BankModes, Outcomes, TypeOK, TypeOKBank
      <4>2. NoNewPartial
        BY <2>0, <3>2, <3>3, <4>1 DEF BankDebit
      <4> QED
        BY <2>1, <4>2, BankFrame DEF RunInv
    <3>4. CASE BankReverse(m, req[m.run])
      <4>1. NoNewPartial
        BY <2>0, <3>2, <3>4 DEF BankReverse
      <4> QED
        BY <2>1, <4>1, BankFrame DEF RunInv
    <3> QED
      BY <3>1, <3>3, <3>4
  <2>2. CASE MemberCall
    <3>1. PICK m \in net : \/ ValidateBegin(m, Confirmed(m.run))
                           \/ Round1(m, req[m.run], CeremonyOf(m.run))
                           \/ Round2Offline(m)
                           \/ Round2Refuse(m, req[m.run])
                           \/ Round2Reject(m, req[m.run], Confirmed(m.run))
                           \/ Round2Begin(m, req[m.run], Confirmed(m.run), CeremonyOf(m.run))
      BY <2>2, Zenon DEF MemberCall
    <3>2. m.run \in Runs
      BY NetType DEF TypeOK
    <3>3. ASSUME \/ ValidateBegin(m, Confirmed(m.run))
                 \/ Round1(m, req[m.run], CeremonyOf(m.run))
                 \/ Round2Begin(m, req[m.run], Confirmed(m.run), CeremonyOf(m.run))
          PROVE  reply' = reply
      BY <3>3, Zenon DEF ValidateBegin, Round1, Round2Begin
    <3>4. ASSUME \/ Round2Offline(m)
                 \/ Round2Refuse(m, req[m.run])
                 \/ Round2Reject(m, req[m.run], Confirmed(m.run))
          PROVE  NoNewPartial
      <4>1. \/ Answer(m.run, "round2", m.to, "error")
            \/ Answer(m.run, "round2", m.to, "refused")
        BY <3>4, Zenon DEF Round2Offline, Round2Refuse, Round2Reject
      <4> QED
        BY <2>0, <3>2, <4>1
    <3>5. NoNewPartial
      BY <3>1, <3>3, <3>4, Zenon
    <3> QED
      BY <2>2, <3>5, CallFrame DEF RunInv
  <2>3. ASSUME NEW h \in checking, ValidateEnd(h) \/ ValidateThrows(h)
        PROVE  UNCHANGED <<reply, partials>>
    BY <2>3 DEF ValidateEnd, ValidateThrows
  <2>4. ASSUME NEW h \in signing, Round2Sign(h, req[h.run])
        PROVE  /\ partials[p] \subseteq partials'[p]
               /\ reply'[p].is = "partial" => reply'[p].from \in partials'[p]
    BY <2>4 DEF Round2Sign, Answer, RunInv, TypeOK, TypeOKCalls, TypeOKMembers
  <2>5. ASSUME NEW h \in signing, Round2NoPartial(h, req[h.run]) \/ Round2Throws(h)
        PROVE  /\ partials[p] \subseteq partials'[p]
               /\ reply'[p].is = "partial" => reply'[p].from \in partials'[p]
    BY <2>5 DEF Round2NoPartial, Round2Throws, Answer, RunInv, TypeOK, TypeOKCalls
  <2> QED
    BY <2>1, <2>2, <2>3, <2>4, <2>5 DEF MemberResume, RunInv
<1>3. Receipt(p) \in pending' => Receipt(p) \in pending
  BY <1>1 DEF ServiceFrame, Receipt, Verdicts
<1> QED
  BY <1>1, <1>2, <1>3 DEF ServiceFrame, RunInv, recordVars

LEMMA KeepsRunInv ==
    ASSUME IInv, Next, NEW p \in Runs
    PROVE  RunInv(p)'
<1>1. TypeOK /\ InvStarted /\ RunInv(p)
  BY RunInvEquiv DEF IInv
<1>2. CASE ClientStep
  <2>1. pc[nruns + 1] = "idle"
    BY <1>1, <1>2, ClientFrame DEF InvStarted, TypeOK, TypeOKPipeline
  <2> QED
    BY <1>1, <1>2, <2>1, ClientFrame DEF RunInv, Early, chainVars, ledgerVars, memberVars
<1>3. CASE OperatorStep
  BY <1>1, <1>3, OperatorFrame DEF RunInv, callVars, chainVars, ledgerVars, recordVars
<1>4. CASE BankStep \/ MemberCall \/ MemberResume
  BY <1>1, <1>4, ServiceRunInv
<1>5. ASSUME NEW q \in Runs, RunStep(q) PROVE RunInv(p)'
  <2>1. CASE q = p
    BY <1>1, <1>5, <2>1, StepRunInv
  <2>2. CASE q # p
    <3>1. RunFrame(q) /\ partials' = partials
      BY <1>1, <1>5, StepFrame DEF RunStep, memberVars
    <3>2. Receipt(p) \in pending' => Receipt(p) \in pending
      BY <2>2, <3>1 DEF RunFrame, Receipt
    <3> QED
      BY <1>1, <2>2, <3>1, <3>2 DEF RunFrame, RunInv
  <2> QED
    BY <2>1, <2>2
<1>6. CASE LedgerStep
  BY <1>1, <1>6, LedgerFrame DEF RunInv, callVars, memberVars, pipelineVars, recordVars
<1> QED
  BY <1>2, <1>3, <1>4, <1>5, <1>6 DEF Next

-----------------------------------------------------------------------------
(* The invariant, and the theorems that follow from it. *)

LEMMA InitInv == Init => IInv
<1> SUFFICES ASSUME Init PROVE IInv
  OBVIOUS
<1>1. TypeOK
  BY TypeInit
<1>2. InvStarted /\ InvPaid /\ InvAttest /\ InvQuorum
  BY DEF Init, InitCalls, InitLedger, InitMembers, InvStarted, InvPaid, InvAttest, Attesting,
     InvQuorum
<1>3. InvChosen /\ InvCeremony /\ InvReceipt
  BY DEF Init, InitCalls, InitLedger, InitPipeline, NoReply, InvChosen, InvCeremony, InvReceipt
<1> QED
  BY <1>1, <1>2, <1>3 DEF IInv

LEMMA KeepsType == IInv /\ Next => TypeOK'
<1> SUFFICES ASSUME IInv, Next PROVE TypeOK'
  OBVIOUS
<1>1. TypeOK /\ InvChosen
  BY DEF IInv
<1> QED
  BY <1>1, TypeBank, TypeMemberCall, TypeMemberResume, TypeRunStep, TypeLedger, TypeClient,
     TypeOperator
  DEF Next

LEMMA Stutter == IInv /\ UNCHANGED vars => IInv'
<1> SUFFICES ASSUME IInv, UNCHANGED vars PROVE IInv'
  OBVIOUS
<1>1. TypeOK'
  BY TypeUnchanged DEF IInv, TypeOK, vars
<1>2. UNCHANGED <<callVars, debitLog, chainVars, signing, checking, partials, recordVars>>
  BY DEF vars, bankVars, memberVars, pipelineVars
<1>3. InvStarted' /\ InvPaid' /\ InvAttest' /\ InvQuorum'
  BY <1>2 DEF IInv, InvStarted, InvPaid, InvAttest, Attesting, InvQuorum, Paid, Confirmed,
     Approvers, callVars, chainVars, ledgerVars, recordVars
<1>4. InvChosen' /\ InvCeremony' /\ InvReceipt'
  BY <1>2 DEF IInv, InvChosen, InvCeremony, InvReceipt, callVars, chainVars, ledgerVars,
     recordVars
<1> QED
  BY <1>1, <1>3, <1>4 DEF IInv

LEMMA Inductive == IInv /\ [Next]_vars => IInv'
<1> SUFFICES ASSUME IInv, Next PROVE IInv'
  BY Stutter
<1>1. TypeOK'
  BY KeepsType
<1>2. InvStarted' /\ InvPaid' /\ InvAttest' /\ InvQuorum'
  BY KeepsStarted, KeepsPaid, KeepsAttest, KeepsQuorum
<1>3. \A p \in Runs : RunInv(p)'
  BY KeepsRunInv
<1>4. InvChosen' /\ InvCeremony' /\ InvReceipt'
  BY <1>1, <1>3 DEF InvChosen, InvCeremony, InvReceipt, RunInv, TypeOK, TypeOKLedger
<1> QED
  BY <1>1, <1>2, <1>4 DEF IInv

\* IInv holds in every reachable state, for every consortium, set of requests,
\* store capacity and value of the bounds.
THEOREM InvCorrect == Spec => []IInv
BY InitInv, Inductive, PTL DEF Spec

\* Type correctness: in particular a ceremony never calls a participant that
\* does not exist, and a record never leaves the statuses of types.ts.
THEOREM TypeCorrect == Spec => []TypeOK
<1>1. IInv => TypeOK
  BY DEF IInv
<1> QED
  BY <1>1, InvCorrect, PTL

\* Wall 2 stands behind wall 1 (FR-2, FR-8), whatever is lost and however often a
\* requestId is run again: no partial without the bank's signature and an
\* on-ledger quorum.
THEOREM WallsCorrect == Spec => []PartialNeedsQuorum
<1>1. IInv => PartialNeedsQuorum
  BY DEF IInv, InvPaid, InvQuorum, Paid, PartialNeedsQuorum
<1> QED
  BY <1>1, InvCorrect, PTL

\* FR-5, FR-7 for every t-of-n consortium: no token without T partials of the
\* recorded signer set.
THEOREM ThresholdCorrect == Spec => []TokenNeedsThreshold
<1>1. IInv => TokenNeedsThreshold
  BY DEF IInv, InvCeremony, TokenNeedsThreshold
<1> QED
  BY <1>1, InvCorrect, PTL

\* FR-10, FR-15: no receipt without a token, no delivery without a receipt.
THEOREM DeliveryCorrect == Spec => []LedgerBacksDelivery
<1>1. IInv => LedgerBacksDelivery
  BY DEF IInv, InvReceipt, LedgerBacksDelivery, TypeOK, TypeOKLedger
<1> QED
  BY <1>1, InvCorrect, PTL

\* No attestation of a member about a run is ever replaced by another
\* (signer/index.ts, called as gatherApprovals does).
THEOREM AttestationsCorrect == Spec => AttestationsFinal
<1> DEFINE Kept == \A p \in Runs, s \in Signers :
                      approvals[p][s] # "none" => approvals'[p][s] = approvals[p][s]
<1>1. IInv /\ [Next]_vars => [Kept]_vars
  <2> SUFFICES ASSUME IInv, Next PROVE Kept
    OBVIOUS
  <2> QED
    BY FinalStep DEF IInv
<1> QED
  BY <1>1, InvCorrect, PTL DEF AttestationsFinal, Spec
=============================================================================
