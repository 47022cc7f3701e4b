----------------------------- MODULE MoneyProofs -----------------------------
(***************************************************************************)
(* Theorems about TwoWalls and the customer's money, for every set of      *)
(* requests, every t-of-n consortium and every value of the bounds; that   *)
(* TwoWalls implements Vending; and what the reconciliation panel shows.   *)
(***************************************************************************)
EXTENDS MoneyInv, Reconciliation, TwoWallsProofs

USE RequestsAssumption, ConsortiumAssumption, BoundsAssumption, CapAssumption, ChangesAssumption

-----------------------------------------------------------------------------
(* What a step on behalf of run p does: to its await, to the energy, to    *)
(* the refund, and to what others know of the run.                         *)

MovesOn(p) ==
    /\ pc[p] \notin {"idle", "done"}
    /\ pc[p] = "reverse" => pc'[p] = "done"
    /\ pc'[p] \in Charged => pc[p] \in Charged \/ reply[p].is = "CONFIRMED"
    /\ status'[p] \in Terminal => status'[p] = status[p] \/ pc'[p] = "done"
    /\ reply'[p] \in {reply[p], NoReply}
    /\ \A m \in net' : m.kind = "reverse" => m \in net \/ (m.run = p /\ pc'[p] = "reverse")

Credits(p) ==
    /\ dispensed[req[p]] = 0
    /\ dispensed' = [dispensed EXCEPT ![req[p]] = 1]
    /\ status'[p] = "DELIVERED" /\ pc[p] = "submit"

GoodsStep(p) ==
    Credits(p) \/ (UNCHANGED dispensed /\ (status'[p] = "DELIVERED" => status[p] = "DELIVERED"))

RefundStep(p) ==
    /\ \A q \in Runs \ {p} : debitReversed'[q] = debitReversed[q]
    /\ debitReversed'[p] => debitReversed[p] \/ (pc[p] = "reverse" /\ reply[p].is = "reversed")

HeardStep(p) ==
    /\ published' \subseteq published \cup {p}
    /\ pc[p] \in {"preflight", "debit"} =>
          published' = published /\ token'[p] = token[p] /\ pending' = pending
    /\ pc'[p] \in Uncharged => pc[p] \in Uncharged
    /\ status'[p] = "REJECTED" => pc[p] \in {"preflight", "debit"} \/ status[p] = "REJECTED"
    /\ \A m \in net' : m.kind \in {"validate", "round2"} =>
          m \in net \/ (m.run = p /\ pc[p] \notin {"preflight", "debit"})

\* Where a run with a confirmed debit may go when no call is lost.
BooksStep(p) ==
    /\ faults' = 0 => faults = 0
    /\ \A m \in net' : m.kind = "debit" =>
          m \in net \/ (m.run = p /\ pc'[p] = "debit" /\ reply'[p] = NoReply)
    /\ faults' = 0 /\ pc[p] = "debit" =>
          reply[p] # NoReply /\ (reply[p].is = "CONFIRMED" => pc'[p] \in Charged)
    /\ faults' = 0 /\ pc[p] \in Charged =>
          pc'[p] \in Charged \/ status'[p] = "DELIVERED" \/ reply[p].is = "reversed"

\* The token is made in round 2, the receipt is written when it is submitted.
TokenStep(p) ==
    /\ \/ receipts' = receipts
       \/ receipts' = receipts \cup {p} /\ pc[p] = "submit" /\ pc'[p] \in {"reverse", "done"}
    /\ \/ token'[p] = token[p]
       \/ pc[p] = "round2" /\ token'[p] /\ receipts' = receipts
    /\ UNCHANGED dispensed \/ receipts' = receipts \cup {p}
    /\ Receipt(p) \in pending' => Receipt(p) \in pending \/ pc'[p] = "reverse"

LEMMA StepMoney ==
    ASSUME TypeOK, NEW p \in Runs, RunStep(p)
    PROVE  /\ MovesOn(p) /\ GoodsStep(p) /\ RefundStep(p) /\ HeardStep(p)
           /\ BooksStep(p) /\ TokenStep(p)
<1> DEFINE Goal == /\ MovesOn(p) /\ GoodsStep(p) /\ RefundStep(p) /\ HeardStep(p)
                   /\ BooksStep(p) /\ TokenStep(p)
<1> USE DEF MovesOn, GoodsStep, RefundStep, HeardStep, BooksStep, TokenStep, TypeOK, TypeOKCalls,
            TypeOKPipeline, Goto, SetStatus, Ask, CallMsg, Fault, Polled, Charged, Uncharged,
            Terminal, ledgerVars
<1>1. ASSUME NEW S \in SUBSET Signers, Preflight(p, S, up) PROVE Goal
  BY <1>1 DEF Preflight, Reject, chainVars
<1>2. ASSUME NEW S \in SUBSET Signers, AskApprovers(p, S, up) PROVE Goal
  BY <1>2 DEF AskApprovers, Abandon, chainVars, recordVars
<1>3. ASSUME NEW S \in SUBSET Signers, StartCeremony(p, S, up) PROVE Goal
  BY <1>3 DEF StartCeremony, Ceremony, Abandon, FirstT, chainVars
<1>4. ASSUME NEW s \in Signers, MemberTimesOut(p, s) PROVE Goal
  BY <1>4 DEF MemberTimesOut, chainVars, pipelineVars, recordVars
<1>5. CASE DebitTimesOut(p)
  BY <1>5 DEF DebitTimesOut, Reject, chainVars
<1>6. CASE DebitAnswered(p)
  BY <1>6 DEF DebitAnswered, Reject, chainVars
<1>7. CASE Publish(p)
  BY <1>7 DEF Publish, PublishTx
<1>8. CASE PublishThrows(p)
  BY <1>8 DEF PublishThrows, Abandon, Lose, Publication, Receipt, recordVars
<1>9. CASE ApprovalsRead(p)
  BY <1>9 DEF ApprovalsRead, Abandon, chainVars
<1>10. CASE ApprovalsUnread(p)
  BY <1>10 DEF ApprovalsUnread, Abandon, chainVars, recordVars
<1>11. CASE Round1Settled(p)
  BY <1>11 DEF Round1Settled, Abandon, chainVars, recordVars
<1>12. CASE PartialArrives(p)
  BY <1>12 DEF PartialArrives, chainVars, recordVars
<1>13. CASE TokenSigned(p)
  BY <1>13 DEF TokenSigned, Abandon, chainVars
<1>14. CASE SignerRefused(p)
  BY <1>14 DEF SignerRefused, Ceremony, Abandon, FirstT, chainVars
<1>15. CASE CeremonyFails(p)
  BY <1>15 DEF CeremonyFails, Abandon, chainVars, recordVars
<1>16. CASE PrepareReceipt(p)
  BY <1>16 DEF PrepareReceipt, PrepareTx, recordVars
<1>17. CASE FragmentSigned(p, up)
  BY <1>17 DEF FragmentSigned, chainVars, recordVars
<1>18. CASE ReceiptAccepted(p)
  BY <1>18 DEF ReceiptAccepted, Abandon, ReceiptTx, Redeemed, Dispense, Credits
<1>19. CASE ReceiptFails(p, up)
  BY <1>19 DEF ReceiptFails, Abandon, Lose, Receipt, chainVars, recordVars
<1>20. CASE ReverseSettled(p)
  BY <1>20 DEF ReverseSettled, Abandoned, chainVars
<1> QED
  BY <1>1, <1>2, <1>3, <1>4, <1>5, <1>6, <1>7, <1>8, <1>9, <1>10, <1>11, <1>12, <1>13,
     <1>14, <1>15, <1>16, <1>17, <1>18, <1>19, <1>20 DEF RunStep

-----------------------------------------------------------------------------
(* What the services, the clients and the operator do to the money. *)

\* The answers that the pipeline takes for money.
MoneyAnswers == {"CONFIRMED", "reversed"}

LEMMA AnswerFrame ==
    ASSUME TypeOK, NEW q \in Runs, NEW step, NEW from, NEW what, Answer(q, step, from, what)
    PROVE  \A p \in Runs : \/ reply'[p] = reply[p]
                           \/ p = q /\ pc[p] = step /\ reply'[p].is = what
BY DEF Answer, TypeOK, TypeOKCalls

LEMMA BankMoney ==
    ASSUME TypeOK, BankStep
    PROVE  /\ \A p \in Runs : \/ reply'[p] = reply[p]
                              \/ reply'[p].is \notin MoneyAnswers
                              \/ reply'[p].is = "CONFIRMED" /\ Confirmed(p)'
                              \/ reply'[p].is = "reversed" /\ reversed'[req[p]]
           /\ \A r \in Requests : reversed'[r] =>
                 reversed[r] \/ \E m \in net : m.kind = "reverse" /\ req[m.run] = r
           /\ \A r \in Requests : reversed[r] => reversed'[r]
<1>1. PICK m \in net : BankDebit(m, req[m.run]) \/ BankReverse(m, req[m.run])
  BY DEF BankStep
<1>2. m.run \in Runs /\ req[m.run] \in Requests
  BY NetType DEF TypeOK, TypeOKPipeline
<1>3. UNCHANGED req
  BY DEF BankStep, pipelineVars, recordVars
<1>4. CASE BankDebit(m, req[m.run])
  <2>1. PICK what : /\ Answer(m.run, "debit", Bank, what)
                    /\ what \in MoneyAnswers => what = "CONFIRMED" /\ Confirmed(m.run)'
    <3>1. CASE debitLog[req[m.run]] # "none" /\ UNCHANGED debitLog
                  /\ Answer(m.run, "debit", Bank, debitLog[req[m.run]])
      <4>1. debitLog[req[m.run]] # "reversed"
        BY <1>2 DEF TypeOK, TypeOKBank, Outcomes
      <4>2. debitLog[req[m.run]] = "CONFIRMED" => Confirmed(m.run)'
        BY <1>3, <3>1 DEF Confirmed
      <4> QED
        BY <3>1, <4>1, <4>2 DEF MoneyAnswers
    <3>2. CASE /\ Answer(m.run, "debit", Bank, FreshOutcome)
               /\ debitLog' = [debitLog EXCEPT ![req[m.run]] =
                                  IF FreshOutcome \in Outcomes THEN FreshOutcome ELSE "none"]
      <4>1. FreshOutcome # "reversed"
        BY DEF FreshOutcome, BankModes, TypeOK, TypeOKBank
      <4>2. FreshOutcome = "CONFIRMED" => Confirmed(m.run)'
        BY <1>2, <1>3, <3>2 DEF Confirmed, Outcomes, TypeOK, TypeOKBank
      <4> QED
        BY <3>2, <4>1, <4>2 DEF MoneyAnswers
    <3> QED
      BY <1>4, <3>1, <3>2 DEF BankDebit
  <2>2. UNCHANGED reversed
    BY <1>4 DEF BankDebit
  <2> QED
    BY <1>2, <2>1, <2>2, AnswerFrame
<1>5. CASE BankReverse(m, req[m.run])
  <2>1. Answer(m.run, "reverse", Bank, "reversed") /\ m.kind = "reverse"
    BY <1>5 DEF BankReverse
  <2>2. reversed' = [reversed EXCEPT ![req[m.run]] = TRUE]
    BY <1>5 DEF BankReverse
  <2>3. reversed'[req[m.run]]
    BY <1>2, <2>2 DEF TypeOK, TypeOKBank
  <2>4. \A r \in Requests : r # req[m.run] => reversed'[r] = reversed[r]
    BY <1>2, <2>2 DEF TypeOK, TypeOKBank
  <2> QED
    BY <1>2, <2>1, <2>3, <2>4, AnswerFrame
<1> QED
  BY <1>1, <1>4, <1>5

\* A member's answer says nothing of money.
LEMMA MemberMoney ==
    ASSUME TypeOK, MemberCall \/ MemberResume
    PROVE  \A p \in Runs : \/ reply'[p] = reply[p]
                           \/ pc[p] = "round2" /\ reply'[p].is \notin MoneyAnswers
<1> DEFINE Goal == \A p \in Runs : \/ reply'[p] = reply[p]
                                   \/ pc[p] = "round2" /\ reply'[p].is \notin MoneyAnswers
<1>1. ASSUME NEW q \in Runs, NEW from, NEW what \in MemberAnswers,
             Answer(q, "round2", from, what)
      PROVE  Goal
  <2>1. \A p \in Runs : \/ reply'[p] = reply[p]
                        \/ p = q /\ pc[p] = "round2" /\ reply'[p].is = what
    BY <1>1, AnswerFrame
  <2>2. what \notin MoneyAnswers
    BY DEF MemberAnswers, MoneyAnswers
  <2> QED
    BY <2>1, <2>2
<1> HIDE DEF Goal
<1>2. CASE MemberCall
  <2>1. PICK m \in net : \/ ValidateBegin(m, Confirmed(m.run))
                         \/ Round1(m, req[m.run], CeremonyOf(m.run))
                         \/ Round2Offline(m)
                         \/ Round2Refuse(m, req[m.run])
                         \/ Round2Reject(m, req[m.run], Confirmed(m.run))
                         \/ Round2Begin(m, req[m.run], Confirmed(m.run), CeremonyOf(m.run))
    BY <1>2, Zenon DEF MemberCall
  <2>2. m.run \in Runs
    BY NetType DEF TypeOK
  <2>3. UNCHANGED reply \/ \E what \in MemberAnswers : Answer(m.run, "round2", m.to, what)
    BY <2>1 DEF ValidateBegin, Round1, Round2Offline, Round2Refuse, Round2Reject, Round2Begin,
       MemberAnswers
  <2> QED
    BY <1>1, <2>2, <2>3 DEF Goal
<1>3. ASSUME NEW h \in checking, ValidateEnd(h) \/ ValidateThrows(h) PROVE Goal
  BY <1>3 DEF ValidateEnd, ValidateThrows, Goal
<1>4. ASSUME NEW h \in signing, \/ Round2Sign(h, req[h.run])
                                \/ Round2NoPartial(h, req[h.run])
                                \/ Round2Throws(h)
      PROVE  Goal
  <2>1. h.run \in Runs
    BY DEF TypeOK, TypeOKMembers
  <2>2. UNCHANGED reply \/ \E what \in MemberAnswers : Answer(h.run, "round2", h.by, what)
    BY <1>4 DEF Round2Sign, Round2NoPartial, Round2Throws, MemberAnswers
  <2> QED
    BY <1>1, <2>1, <2>2 DEF Goal
<1> QED
  BY <1>2, <1>3, <1>4 DEF MemberResume, Goal

LEMMA MemberPure ==
    ASSUME MemberCall \/ MemberResume
    PROVE  UNCHANGED <<bankVars, pipelineVars>>
BY DEF MemberCall, MemberResume

\* What lands late changes the ledger only.
LEMMA LedgerPure ==
    ASSUME TypeOK, LedgerStep
    PROVE  /\ UNCHANGED <<pc, net, reply, faults, debitLog, reversed>>
           /\ UNCHANGED <<nruns, req, status, token, debitReversed, dispensed>>
           /\ UNCHANGED <<checking, signing, partials>>
BY LedgerFrame DEF callVars, bankVars, memberVars, pipelineVars, recordVars

LEMMA OperatorMoney ==
    ASSUME OperatorStep
    PROVE  UNCHANGED <<debitLog, reversed, dispensed, published>>
BY DEF OperatorStep, SetBankMode, ToggleOnline, ToggleRefuse, SetMemberStatus,
       SetMerchantRevoked, bankVars, memberVars, pipelineVars, chainVars, ledgerVars

\* A new run claims nothing, and its requestId is no stored run's.
LEMMA ClientMoney ==
    ASSUME TypeOK, ClientStep
    PROVE  /\ UNCHANGED <<debitReversed, dispensed, debitLog, reversed>>
           /\ MaxRuns <= RequestCap => \A q \in Runs : q <= nruns => req[q] # req'[nruns + 1]
           /\ status'[nruns + 1] \in Terminal => pc'[nruns + 1] = "done"
<1>1. PICK r \in Requests, known \in BOOLEAN : Submit(r, known)
  BY DEF ClientStep
<1>2. UNCHANGED <<debitReversed, dispensed, debitLog, reversed>>
  BY <1>1 DEF Submit, ClientStep, bankVars
<1>3. nruns \in Nat /\ nruns < MaxRuns
  BY <1>1 DEF Submit, TypeOK, TypeOKPipeline
<1>4. req'[nruns + 1] = r
  BY <1>1, <1>3 DEF Submit, TypeOK, TypeOKPipeline, Runs
<1>5. ASSUME MaxRuns <= RequestCap, NEW q \in Runs, q <= nruns PROVE q \in Stored
  BY <1>3, <1>5 DEF Stored, Runs
<1>6. status'[nruns + 1] \in Terminal => pc'[nruns + 1] = "done"
  BY <1>1, <1>3 DEF Submit, SetStatus, Goto, Terminal, TypeOK, TypeOKPipeline, TypeOKCalls, Runs
<1> QED
  BY <1>1, <1>2, <1>4, <1>5, <1>6 DEF Submit
-----------------------------------------------------------------------------
(* Each part of the invariant is kept by every step. *)

LEMMA KeepsMoneyRun ==
    ASSUME MInv, Next, NEW p \in Runs
    PROVE  MoneyRun(p)'
<1>1. TypeOK /\ InvStarted /\ MoneyRun(p) /\ req[p] \in Requests /\ nruns \in Nat
  BY DEF MInv, IInv, TypeOK, TypeOKPipeline
<1>2. Paid(p) => Paid(p)'
  BY <1>1, PaidStays
<1>3. CASE ClientStep
  <2>1. CASE p = nruns + 1
    <3>1. pc[p] = "idle" /\ ~Paid(p) /\ ~(p <= nruns)
      BY <1>1, <2>1 DEF InvStarted, Paid, TypeOK, TypeOKPipeline
    <3>2. pc'[p] \notin Charged /\ reply'[p] = reply[p] /\ debitReversed'[p] = debitReversed[p]
      BY <1>1, <1>3, <2>1, ClientFrame, ClientMoney DEF Charged
    <3> QED
      BY <1>1, <1>3, <2>1, <3>1, <3>2, ClientMoney DEF MoneyRun
  <2>2. CASE p # nruns + 1
    BY <1>1, <1>2, <1>3, <2>2, ClientFrame, ClientMoney DEF MoneyRun, Runs
  <2> QED
    BY <2>1, <2>2
<1>4. CASE OperatorStep
  BY <1>1, <1>4, OperatorFrame, OperatorMoney DEF MoneyRun, Paid, Confirmed, callVars, recordVars
<1>5. CASE BankStep
  <2>1. UNCHANGED <<pc, nruns, req, status, debitReversed>>
    BY <1>1, <1>5, BankFrame DEF ServiceFrame, recordVars
  <2>2. reply'[p].is = "CONFIRMED" => reply'[p] = reply[p] \/ Confirmed(p)'
    BY <1>1, <1>5, BankMoney DEF MoneyAnswers
  <2>3. reply'[p] # reply[p] /\ reply'[p].is \in MoneyAnswers => p <= nruns
    <3>1. PICK m \in net : BankDebit(m, req[m.run]) \/ BankReverse(m, req[m.run])
      BY <1>5 DEF BankStep
    <3>2. m.run \in Runs /\ m.run <= nruns
      BY <1>1, NetType DEF InvStarted, TypeOK
    <3>3. \E step, from, what : Answer(m.run, step, from, what)
      BY <3>1 DEF BankDebit, BankReverse
    <3> QED
      BY <1>1, <3>2, <3>3, AnswerFrame
  <2>4. reply'[p].is = "reversed" => p <= nruns /\ reversed'[req[p]]
    BY <1>1, <1>5, <2>3, BankMoney DEF MoneyAnswers, MoneyRun
  <2>5. reply'[p].is = "CONFIRMED" => Paid(p)'
    BY <1>1, <1>2, <2>1, <2>2, <2>3 DEF MoneyAnswers, MoneyRun, Paid
  <2> QED
    BY <1>1, <1>2, <1>5, <2>1, <2>4, <2>5, BankMoney DEF MoneyRun
<1>6. CASE MemberCall \/ MemberResume
  <2>1. UNCHANGED <<pc, nruns, req, status, debitReversed, debitLog, reversed>>
    BY <1>1, <1>6, CallFrame, ResumeFrame, MemberPure DEF ServiceFrame, recordVars, pipelineVars,
       bankVars
  <2>2. reply'[p].is \in MoneyAnswers => reply'[p] = reply[p]
    BY <1>1, <1>6, MemberMoney
  <2> QED
    BY <1>1, <1>2, <2>1, <2>2 DEF MoneyRun, MoneyAnswers
<1>8. CASE LedgerStep
  BY <1>1, <1>8, LedgerPure DEF MoneyRun, Paid, Confirmed
<1>7. ASSUME NEW q \in Runs, RunStep(q) PROVE MoneyRun(p)'
  <2>1. UNCHANGED <<nruns, req, reversed, debitLog>>
    BY <1>1, <1>7, StepFrame DEF RunFrame, RunStep, bankVars
  <2>2. CASE q = p
    <3>1. MovesOn(p) /\ RefundStep(p)
      BY <1>1, <1>7, <2>2, StepMoney
    <3>2. NoReply.is \notin MoneyAnswers
      BY DEF NoReply, MoneyAnswers
    <3>3. pc'[p] \in Charged \/ reply'[p].is = "CONFIRMED" => Paid(p)'
      BY <1>1, <1>2, <3>1, <3>2 DEF MovesOn, MoneyRun, MoneyAnswers
    <3>4. reply'[p].is = "reversed" => p <= nruns' /\ reversed'[req'[p]]
      BY <1>1, <2>1, <3>1, <3>2 DEF MovesOn, MoneyRun, MoneyAnswers
    <3>5. debitReversed'[p] => Paid(p)' /\ reversed'[req'[p]]
      BY <1>1, <1>2, <2>1, <3>1 DEF RefundStep, MoneyRun, Charged
    <3>6. status'[p] \in Terminal => pc'[p] = "done"
      BY <1>1, <3>1 DEF MovesOn, MoneyRun
    <3> QED
      BY <3>3, <3>4, <3>5, <3>6 DEF MoneyRun
  <2>3. CASE q # p
    <3>1. UNCHANGED <<pc[p], reply[p], status[p], debitReversed[p]>>
      BY <1>1, <1>7, <2>3, StepFrame, StepMoney DEF RunFrame, RefundStep
    <3> QED
      BY <1>1, <1>2, <2>1, <3>1 DEF MoneyRun
  <2> QED
    BY <2>2, <2>3
<1> QED
  BY <1>3, <1>4, <1>5, <1>6, <1>7, <1>8 DEF Next

\* Neither the clients nor the operator nor the services deliver.
LEMMA OthersDeliverNothing ==
    ASSUME MInv,
           ClientStep \/ OperatorStep \/ BankStep \/ MemberCall \/ MemberResume \/ LedgerStep
    PROVE  /\ UNCHANGED dispensed
           /\ \A p \in Runs : status[p] = "DELIVERED" \/ status'[p] = "DELIVERED" =>
                 status'[p] = status[p] /\ req'[p] = req[p]
<1>1. TypeOK /\ InvStarted /\ \A p \in Runs : MoneyRun(p)
  BY DEF MInv, IInv
<1>2. CASE ClientStep
  <2>1. status[nruns + 1] # "DELIVERED" /\ status'[nruns + 1] # "DELIVERED"
    BY <1>1, <1>2, ClientFrame DEF InvStarted, MoneyRun, Terminal, TypeOK, TypeOKPipeline
  <2> QED
    BY <1>1, <1>2, <2>1, ClientFrame, ClientMoney
<1>3. CASE OperatorStep
  BY <1>3, OperatorFrame, OperatorMoney DEF recordVars
<1>4. CASE BankStep
  BY <1>4 DEF BankStep, pipelineVars, recordVars
<1>5. CASE MemberCall \/ MemberResume
  BY <1>5, MemberPure DEF pipelineVars, recordVars
<1>6. CASE LedgerStep
  BY <1>1, <1>6, LedgerPure
<1> QED
  BY <1>2, <1>3, <1>4, <1>5, <1>6

LEMMA KeepsGoods == MInv /\ Next => InvGoods'
<1> SUFFICES ASSUME MInv, Next PROVE InvGoods'
  OBVIOUS
<1>1. TypeOK /\ InvGoods /\ \A p \in Runs : MoneyRun(p)
  BY DEF MInv, IInv
<1>2. CASE \/ ClientStep \/ OperatorStep \/ BankStep
         \/ MemberCall \/ MemberResume \/ LedgerStep
  BY <1>1, <1>2, OthersDeliverNothing DEF InvGoods
<1>3. ASSUME NEW q \in Runs, RunStep(q) PROVE InvGoods'
  <2>1. /\ UNCHANGED req
        /\ \A p \in Runs \ {q} : status'[p] = status[p]
        /\ GoodsStep(q) /\ MovesOn(q)
    BY <1>1, <1>3, StepFrame, StepMoney DEF RunFrame
  <2>2. status[q] # "DELIVERED"
    BY <1>1, <2>1 DEF MovesOn, MoneyRun, Terminal
  <2>3. CASE Credits(q)
    <3>1. \A p \in Runs : status[p] = "DELIVERED" => req[p] # req[q]
      BY <1>1, <2>3 DEF Credits, InvGoods
    <3>2. /\ req[q] \in Requests
          /\ \A r \in Requests : dispensed'[r] = IF r = req[q] THEN 1 ELSE dispensed[r]
      BY <1>1, <2>3 DEF Credits, TypeOK, TypeOKPipeline
    <3>3. status'[q] = "DELIVERED"
      BY <2>3 DEF Credits
    <3> QED
      BY <1>1, <2>1, <2>2, <3>1, <3>2, <3>3 DEF InvGoods, TypeOK, TypeOKPipeline
  <2>4. CASE ~Credits(q)
    BY <1>1, <2>1, <2>2, <2>4 DEF GoodsStep, InvGoods
  <2> QED
    BY <2>3, <2>4
<1> QED
  BY <1>2, <1>3 DEF Next

\* A run that has given up stays so.
LEMMA GaveUpStays ==
    ASSUME MInv, Next, NEW p \in Runs, GaveUp(p)
    PROVE  GaveUp(p)' /\ req'[p] = req[p]
<1>1. TypeOK /\ InvStarted /\ MoneyRun(p) /\ nruns \in Nat
  BY DEF MInv, IInv, TypeOK, TypeOKPipeline
<1>2. CASE ClientStep
  BY <1>1, <1>2, ClientFrame DEF GaveUp, Runs
<1>3. CASE OperatorStep
  BY <1>3, OperatorFrame DEF GaveUp, callVars, recordVars
<1>4. CASE BankStep \/ MemberCall \/ MemberResume
  BY <1>1, <1>4, BankFrame, CallFrame, ResumeFrame DEF ServiceFrame, GaveUp, recordVars
<1>6. CASE LedgerStep
  BY <1>1, <1>6, LedgerPure DEF GaveUp
<1>5. ASSUME NEW q \in Runs, RunStep(q) PROVE GaveUp(p)' /\ req'[p] = req[p]
  <2>1. RunFrame(q) /\ MovesOn(q) /\ GoodsStep(q)
    BY <1>1, <1>5, StepFrame, StepMoney
  <2>2. CASE q = p
    <3>1. pc[p] = "reverse" /\ pc'[p] = "done"
      BY <2>1, <2>2 DEF MovesOn, GaveUp
    <3>2. status'[p] # "DELIVERED"
      BY <2>1, <2>2, <3>1 DEF GoodsStep, Credits, GaveUp
    <3> QED
      BY <2>1, <3>1, <3>2 DEF RunFrame, GaveUp
  <2>3. CASE q # p
    BY <2>1, <2>3 DEF RunFrame, GaveUp
  <2> QED
    BY <2>2, <2>3
<1> QED
  BY <1>2, <1>3, <1>4, <1>5, <1>6 DEF Next

LEMMA KeepsReverse == MInv /\ Next => InvReverse'
<1> SUFFICES ASSUME MInv, Next PROVE InvReverse'
  OBVIOUS
<1>1. TypeOK /\ InvStarted /\ InvReverse /\ \A p \in Runs : MoneyRun(p)
  BY DEF MInv, IInv
<1>2. \A p \in Runs : GaveUp(p) /\ Paid(p) => GaveUp(p)' /\ Paid(p)' /\ req'[p] = req[p]
  BY <1>1, GaveUpStays, PaidStays
<1>3. \A m \in net : m.run \in Runs
  BY <1>1, NetType DEF TypeOK
<1>4. net' \subseteq net /\ UNCHANGED reversed => InvReverse'
  BY <1>1, <1>2, <1>3 DEF InvReverse
<1>5. CASE ClientStep
  BY <1>1, <1>4, <1>5, ClientFrame DEF bankVars
<1>6. CASE OperatorStep
  BY <1>4, <1>6, OperatorFrame, OperatorMoney DEF callVars
<1>7. CASE MemberCall \/ MemberResume
  BY <1>1, <1>4, <1>7, CallFrame, ResumeFrame DEF ServiceFrame, bankVars
<1>8. CASE BankStep
  <2>1. net' \subseteq net
    BY <1>1, <1>8, BankFrame DEF ServiceFrame
  <2>2. \A r \in Requests : reversed'[r] => \E p \in Runs : req[p] = r /\ GaveUp(p) /\ Paid(p)
    BY <1>1, <1>3, <1>8, BankMoney DEF InvReverse
  <2> QED
    BY <1>1, <1>2, <1>3, <2>1, <2>2 DEF InvReverse
<1>9. ASSUME NEW q \in Runs, RunStep(q) PROVE InvReverse'
  <2>1. UNCHANGED <<reversed, nruns>> /\ MovesOn(q) /\ GoodsStep(q)
    BY <1>1, <1>9, StepFrame, StepMoney DEF RunFrame, RunStep, bankVars
  <2>2. q <= nruns
    BY <1>1, <2>1 DEF InvStarted, MovesOn
  <2>3. pc'[q] = "reverse" => GaveUp(q)' /\ Paid(q)'
    <3>1. status[q] # "DELIVERED"
      BY <1>1, <2>1 DEF MovesOn, MoneyRun, Terminal
    <3>2. pc'[q] = "reverse" => status'[q] # "DELIVERED"
      BY <2>1, <3>1 DEF MovesOn, Terminal
    <3>3. pc'[q] = "reverse" => Paid(q)'
      BY <1>1, <2>1, PaidStays DEF MovesOn, MoneyRun, Charged
    <3> QED
      BY <2>1, <2>2, <3>2, <3>3 DEF GaveUp
  <2> QED
    BY <1>1, <1>2, <1>3, <2>1, <2>3 DEF InvReverse, MovesOn
<1>10. CASE LedgerStep
  BY <1>1, <1>4, <1>10, LedgerPure
<1> QED
  BY <1>5, <1>6, <1>7, <1>8, <1>9, <1>10 DEF Next

LEMMA KeepsRecorded == MInv /\ Next => InvRecorded'
<1> SUFFICES ASSUME MInv, Next, NEW p \in Runs, p \in receipts' \/ Receipt(p) \in pending'
             PROVE  pc'[p] \in {"reverse", "done"}
  BY DEF InvRecorded
<1>1. /\ TypeOK /\ InvStarted
      /\ p \in receipts \/ Receipt(p) \in pending => pc[p] \in {"reverse", "done"}
  BY DEF MInv, IInv, InvRecorded
<1>2. CASE ClientStep
  <2>1. pc[nruns + 1] = "idle"
    BY <1>1, <1>2, ClientFrame DEF InvStarted, TypeOK, TypeOKPipeline
  <2>2. UNCHANGED <<receipts, pending>>
    BY <1>1, <1>2, ClientFrame DEF chainVars, ledgerVars
  <2> QED
    BY <1>1, <1>2, <2>1, <2>2, ClientFrame
<1>3. CASE OperatorStep
  BY <1>1, <1>3, OperatorFrame DEF callVars, chainVars, ledgerVars
<1>4. CASE BankStep \/ MemberCall \/ MemberResume
  <2>1. Receipt(p).what \notin Verdicts
    BY DEF Receipt, Verdicts
  <2> QED
    BY <1>1, <1>4, <2>1, BankFrame, CallFrame, ResumeFrame DEF ServiceFrame
<1>5. ASSUME NEW q \in Runs, RunStep(q) PROVE pc'[p] \in {"reverse", "done"}
  <2>1. RunFrame(q) /\ TokenStep(q) /\ MovesOn(q)
    BY <1>1, <1>5, StepFrame, StepMoney
  <2>2. CASE q = p
    BY <1>1, <2>1, <2>2 DEF TokenStep, MovesOn
  <2>3. CASE q # p
    <3>1. Receipt(p).run # q
      BY <2>3 DEF Receipt
    <3> QED
      BY <1>1, <2>1, <2>3, <3>1 DEF RunFrame
  <2> QED
    BY <2>2, <2>3
<1>6. CASE LedgerStep
  BY <1>1, <1>6, LedgerFrame, LedgerPure
<1> QED
  BY <1>2, <1>3, <1>4, <1>5, <1>6 DEF Next

LEMMA KeepsOneRun == MInv /\ Next => InvOneRun'
<1> SUFFICES ASSUME MInv, Next PROVE InvOneRun'
  OBVIOUS
<1>1. TypeOK /\ InvOneRun /\ nruns \in Nat
  BY DEF MInv, IInv, TypeOK, TypeOKPipeline
<1>2. UNCHANGED <<nruns, req>> => InvOneRun'
  BY <1>1 DEF InvOneRun
<1>3. CASE ClientStep
  <2> SUFFICES ASSUME MaxRuns <= RequestCap, NEW p \in Runs, NEW q \in Runs,
                      p <= nruns', q <= nruns', req'[p] = req'[q]
               PROVE  p = q
    BY DEF InvOneRun
  <2>1. p \in Nat /\ q \in Nat /\ nruns' = nruns + 1
    BY <1>1, <1>3, ClientFrame DEF Runs
  <2>2. \A u \in Runs : u <= nruns => req'[u] = req[u] /\ req[u] # req'[nruns + 1]
    BY <1>1, <1>3, ClientFrame, ClientMoney DEF Runs
  <2>3. \A u \in {p, q} : u <= nruns \/ u = nruns + 1
    BY <1>1, <2>1
  <2> QED
    BY <1>1, <2>1, <2>2, <2>3 DEF InvOneRun
<1>4. CASE OperatorStep
  BY <1>2, <1>4, OperatorFrame DEF recordVars
<1>5. CASE BankStep \/ MemberCall \/ MemberResume
  BY <1>1, <1>2, <1>5, BankFrame, CallFrame, ResumeFrame DEF ServiceFrame, recordVars
<1>6. ASSUME NEW q \in Runs, RunStep(q) PROVE InvOneRun'
  BY <1>1, <1>2, <1>6, StepFrame DEF RunFrame
<1>7. CASE LedgerStep
  BY <1>1, <1>2, <1>7, LedgerPure
<1> QED
  BY <1>3, <1>4, <1>5, <1>6, <1>7 DEF Next

\* The members learn of run p from calls of the coordinator only.
LEMMA ServicesHear ==
    ASSUME TypeOK, BankStep \/ MemberCall \/ MemberResume, NEW p \in Runs, Unheard(p)
    PROVE  Unheard(p)'
<1>1. ServiceFrame
  BY BankFrame, CallFrame, ResumeFrame
<1>2. CASE BankStep
  BY <1>1, <1>2, BankFrame DEF ServiceFrame, Unheard, recordVars
<1>3. CASE MemberCall
  <2>1. UNCHANGED <<approvals, partials, pending>>
    BY <1>3, CallFrame
  <2>2. \A h \in checking' \cup signing' : h \in checking \cup signing \/ h.run # p
    <3>1. PICK m \in net : \/ ValidateBegin(m, Confirmed(m.run))
                           \/ Round1(m, req[m.run], CeremonyOf(m.run))
                           \/ Round2Offline(m)
                           \/ Round2Refuse(m, req[m.run])
                           \/ Round2Reject(m, req[m.run], Confirmed(m.run))
                           \/ Round2Begin(m, req[m.run], Confirmed(m.run), CeremonyOf(m.run))
      BY <1>3, Zenon DEF MemberCall
    <3>2. m.kind \in {"validate", "round2"} => m.run # p
      BY DEF Unheard
    <3>3. CASE ValidateBegin(m, Confirmed(m.run))
      <4> DEFINE v == IF Confirmed(m.run) /\ m.to \notin refusing THEN "APPROVE" ELSE "REJECT"
      <4>1. m.run # p /\ signing' = signing
        BY <3>2, <3>3 DEF ValidateBegin
      <4>2. \/ checking' = checking
            \/ checking' = checking \cup {[run |-> m.run, by |-> m.to, verdict |-> v]}
        BY <3>3, Zenon DEF ValidateBegin
      <4> HIDE DEF v
      <4> QED
        BY <4>1, <4>2
    <3>4. CASE Round2Begin(m, req[m.run], Confirmed(m.run), CeremonyOf(m.run))
      BY <3>2, <3>4 DEF Round2Begin, Round2Call
    <3>5. CASE ~ValidateBegin(m, Confirmed(m.run))
                 /\ ~Round2Begin(m, req[m.run], Confirmed(m.run), CeremonyOf(m.run))
      BY <3>1, <3>5 DEF Round1, Round2Offline, Round2Refuse, Round2Reject, memberVars
    <3> QED
      BY <3>3, <3>4, <3>5
  <2> QED
    BY <1>1, <2>1, <2>2 DEF ServiceFrame, Unheard, recordVars
<1>4. CASE MemberResume
  <2>1. checking' \subseteq checking /\ signing' \subseteq signing
    BY <1>4 DEF MemberResume, ValidateEnd, ValidateThrows, Round2Sign, Round2NoPartial,
       Round2Throws
  <2>2. approvals'[p] = approvals[p] /\ partials'[p] = partials[p]
    <3>1. ASSUME NEW h \in checking, ValidateEnd(h) \/ ValidateThrows(h)
          PROVE  approvals'[p] = approvals[p] /\ partials'[p] = partials[p]
      BY <3>1 DEF ValidateEnd, ValidateThrows, AttestTx, Lose, ledgerVars, Unheard, TypeOK,
         TypeOKLedger
    <3>2. ASSUME NEW h \in signing, \/ Round2Sign(h, req[h.run])
                                    \/ Round2NoPartial(h, req[h.run])
                                    \/ Round2Throws(h)
          PROVE  approvals'[p] = approvals[p] /\ partials'[p] = partials[p]
      BY <3>2 DEF Round2Sign, Round2NoPartial, Round2Throws, chainVars, ledgerVars, Unheard,
         TypeOK, TypeOKMembers
    <3> QED
      BY <1>4, <3>1, <3>2 DEF MemberResume
  <2>3. \A t \in pending' : t \in pending \/ t.run # p
    <3>1. ASSUME NEW h \in checking, ValidateEnd(h) \/ ValidateThrows(h)
          PROVE  \A t \in pending' : t \in pending \/ t.run # p
      <4>1. h.run # p
        BY DEF Unheard
      <4>2. \/ pending' = pending
            \/ pending' = pending \cup {Attestation(h.run, h.by, h.verdict)}
        BY <3>1 DEF ValidateEnd, ValidateThrows, Lose
      <4>3. Attestation(h.run, h.by, h.verdict).run # p
        BY <4>1 DEF Attestation
      <4> QED
        BY <4>2, <4>3
    <3>2. ASSUME NEW h \in signing, \/ Round2Sign(h, req[h.run])
                                    \/ Round2NoPartial(h, req[h.run])
                                    \/ Round2Throws(h)
          PROVE  pending' = pending
      BY <3>2 DEF Round2Sign, Round2NoPartial, Round2Throws, chainVars
    <3> QED
      BY <1>4, <3>1, <3>2 DEF MemberResume
  <2> QED
    BY <1>1, <2>1, <2>2, <2>3 DEF ServiceFrame, Unheard, recordVars
<1> QED
  BY <1>2, <1>3, <1>4

\* What lands late for another run leaves run p unheard of.
LEMMA LedgerHears ==
    ASSUME TypeOK, LedgerStep, NEW p \in Runs, Unheard(p)
    PROVE  Unheard(p)'
<1>1. PICK t \in pending : LandsLate(t)
  BY DEF LedgerStep
<1>2. t.run # p /\ t.run \in Runs
  BY PendingType DEF Unheard, TypeOK
<1>3. (p \in published' => p \in published) /\ approvals'[p] = approvals[p]
  BY <1>1, <1>2 DEF LandsLate, PublishTx, AttestTx, ReceiptTx, TypeOK, TypeOKLedger
<1> QED
  BY <1>3, LedgerFrame, LedgerPure DEF Unheard

LEMMA KeepsUnheard == MInv /\ Next => InvUnheard'
<1> SUFFICES ASSUME MInv, Next, NEW p \in Runs, pc'[p] \in Uncharged \/ status'[p] = "REJECTED"
             PROVE  Unheard(p)'
  BY DEF InvUnheard
<1>1. TypeOK /\ InvStarted /\ MoneyRun(p) /\ nruns \in Nat
  BY DEF MInv, IInv, TypeOK, TypeOKPipeline
<1>2. pc[p] \in Uncharged \/ status[p] = "REJECTED" => Unheard(p)
  BY DEF MInv, InvUnheard
<1>3. CASE ClientStep
  <2>1. Unheard(p)
    <3>1. p = nruns + 1 => pc[p] = "idle"
      BY <1>1, <1>3, ClientFrame DEF InvStarted, TypeOK, TypeOKPipeline
    <3> QED
      BY <1>1, <1>2, <1>3, <3>1, ClientFrame DEF Uncharged
  <2> QED
    BY <1>1, <1>3, <2>1, ClientFrame DEF Unheard, chainVars, ledgerVars, memberVars
<1>4. CASE OperatorStep
  BY <1>2, <1>4, OperatorFrame, OperatorMoney DEF Unheard, callVars, recordVars, chainVars,
     ledgerVars
<1>5. CASE BankStep \/ MemberCall \/ MemberResume
  <2>1. UNCHANGED <<pc, status>>
    BY <1>1, <1>5, BankFrame, CallFrame, ResumeFrame DEF ServiceFrame, recordVars
  <2> QED
    BY <1>1, <1>2, <1>5, <2>1, ServicesHear
<1>7. CASE LedgerStep
  BY <1>1, <1>2, <1>7, LedgerPure, LedgerHears
<1>6. ASSUME NEW q \in Runs, RunStep(q) PROVE Unheard(p)'
  <2>1. HeardStep(q) /\ MovesOn(q) /\ RunFrame(q)
    BY <1>1, <1>6, StepFrame, StepMoney
  <2>2. UNCHANGED <<checking, signing, partials, approvals>>
    BY <1>1, <1>6, StepFrame DEF RunFrame, RunStep, memberVars
  <2>3. CASE q = p
    <3>1. pc[p] \in {"preflight", "debit"}
      BY <1>1, <2>1, <2>3 DEF HeardStep, MovesOn, MoneyRun, Terminal, Uncharged
    <3>2. Unheard(p)
      BY <1>2, <3>1 DEF Uncharged
    <3> QED
      BY <2>1, <2>2, <2>3, <3>1, <3>2 DEF HeardStep, Unheard
  <2>4. CASE q # p
    <3>1. Unheard(p)
      BY <1>2, <2>1, <2>4 DEF RunFrame
    <3> QED
      BY <2>1, <2>2, <2>4, <3>1 DEF RunFrame, HeardStep, Unheard
  <2> QED
    BY <2>3, <2>4
<1> QED
  BY <1>3, <1>4, <1>5, <1>6, <1>7 DEF Next

\* A run and the bank exchange one debit call.
LEMMA OneDebitCall ==
    ASSUME TypeOK, NEW m \in net, NEW n \in net, m.kind = "debit", n.kind = "debit",
           m.run = n.run
    PROVE  m = n
BY DEF TypeOK, TypeOKCalls, Messages, Bank

LEMMA BankBooks == MInv /\ BankStep => InvBooks'
<1> SUFFICES ASSUME MInv, BankStep, faults' = 0 PROVE InvBooks'
  BY DEF InvBooks
<1>1. TypeOK /\ InvStarted /\ nruns \in Nat
  BY DEF MInv, IInv, TypeOK, TypeOKPipeline
<1>2. PICK m \in net : BankDebit(m, req[m.run]) \/ BankReverse(m, req[m.run])
  BY DEF BankStep
<1>3. m.run \in Runs /\ req[m.run] \in Requests /\ m.run <= nruns
  BY <1>1, NetType DEF InvStarted, TypeOK, TypeOKPipeline
<1>4. UNCHANGED <<pc, nruns, req, status, faults>>
  BY <1>2 DEF BankStep, BankDebit, BankReverse, pipelineVars, recordVars
<1>5. /\ \A n \in net : n.kind = "debit" => pc[n.run] = "debit" /\ reply[n.run] = NoReply
      /\ \A r \in Requests : debitLog[r] = "CONFIRMED" =>
            \E p \in Runs : req[p] = r /\ Accounted(p)
      /\ \A n \in net : n.run \in Runs
  BY <1>1, <1>4, NetType DEF MInv, InvBooks, TypeOK
<1>6. CASE BankDebit(m, req[m.run])
  <2>1. /\ m.kind = "debit" /\ net' = net \ {m} /\ UNCHANGED reversed
        /\ \E what : Answer(m.run, "debit", Bank, what)
    BY <1>6 DEF BankDebit
  <2>2. \A p \in Runs \ {m.run} : reply'[p] = reply[p]
    BY <1>1, <1>3, <2>1, AnswerFrame
  <2>3. \A n \in net' : n.kind = "debit" => n \in net /\ n.run # m.run
    BY <1>1, <2>1, OneDebitCall
  <2>4. reply[m.run].is # "CONFIRMED"
    BY <1>5, <2>1 DEF NoReply
  <2>5. \A p \in Runs : Accounted(p) => Accounted(p)'
    BY <1>4, <2>1, <2>2, <2>4 DEF Accounted, Charged
  <2>6. \A r \in Requests : debitLog'[r] = "CONFIRMED" =>
           debitLog[r] = "CONFIRMED" \/ (r = req[m.run] /\ Accounted(m.run)')
    <3>1. CASE UNCHANGED debitLog
      BY <3>1
    <3>2. CASE /\ Answer(m.run, "debit", Bank, FreshOutcome)
               /\ debitLog' = [debitLog EXCEPT ![req[m.run]] =
                                  IF FreshOutcome \in Outcomes THEN FreshOutcome ELSE "none"]
      <4>1. FreshOutcome = "CONFIRMED" => reply'[m.run].is = "CONFIRMED"
        BY <1>1, <1>3, <1>5, <2>1, <3>2 DEF Answer, TypeOK, TypeOKCalls
      <4>2. debitLog'[req[m.run]] = "CONFIRMED" => FreshOutcome = "CONFIRMED"
        BY <1>1, <1>3, <3>2 DEF TypeOK, TypeOKBank
      <4>3. \A r \in Requests : r # req[m.run] => debitLog'[r] = debitLog[r]
        BY <1>1, <3>2 DEF TypeOK, TypeOKBank
      <4> QED
        BY <1>3, <1>4, <1>5, <2>1, <4>1, <4>2, <4>3 DEF Accounted
    <3> QED
      BY <1>6, <3>1, <3>2 DEF BankDebit
  <2>7. \A n \in net' : n.kind = "debit" => pc'[n.run] = "debit" /\ reply'[n.run] = NoReply
    BY <1>4, <1>5, <2>2, <2>3
  <2>8. \A r \in Requests : debitLog'[r] = "CONFIRMED" =>
           \E p \in Runs : req'[p] = r /\ Accounted(p)'
    BY <1>3, <1>4, <1>5, <2>5, <2>6
  <2> QED
    BY <2>7, <2>8 DEF InvBooks
<1>7. CASE BankReverse(m, req[m.run])
  <2>1. net' \subseteq net /\ UNCHANGED debitLog /\ Answer(m.run, "reverse", Bank, "reversed")
    BY <1>7 DEF BankReverse
  <2>2. \A p \in Runs : pc[p] = "debit" => reply'[p] = reply[p]
    BY <1>1, <1>3, <2>1, AnswerFrame
  <2>3. \A r \in Requests : reversed[r] => reversed'[r]
    BY <1>1, BankMoney
  <2>4. \A p \in Runs : Accounted(p) => Accounted(p)'
    BY <1>1, <1>4, <2>2, <2>3 DEF Accounted, TypeOK, TypeOKPipeline
  <2> QED
    BY <1>4, <1>5, <2>1, <2>2, <2>4 DEF InvBooks
<1> QED
  BY <1>2, <1>6, <1>7

LEMMA KeepsBooks == MInv /\ Next => InvBooks'
<1> SUFFICES ASSUME MInv, Next PROVE InvBooks'
  OBVIOUS
<1>1. TypeOK /\ InvStarted /\ InvBooks /\ nruns \in Nat /\ \A p \in Runs : MoneyRun(p)
  BY DEF MInv, IInv, TypeOK, TypeOKPipeline
<1>2. \A m \in net : m.run \in Runs
  BY <1>1, NetType DEF TypeOK
<1>3. CASE BankStep
  BY <1>3, BankBooks
<1>4. CASE ClientStep
  <2>1. pc[nruns + 1] = "idle"
    BY <1>1, <1>4, ClientFrame DEF InvStarted, TypeOK, TypeOKPipeline
  <2>2. \A p \in Runs : Accounted(p) => Accounted(p)' /\ req'[p] = req[p]
    BY <1>1, <1>4, ClientFrame, ClientMoney DEF Accounted, Runs
  <2>3. faults' = faults
    BY <1>4 DEF ClientStep, Submit
  <2> QED
    BY <1>1, <1>2, <1>4, <2>1, <2>2, <2>3, ClientFrame, ClientMoney DEF InvBooks
<1>5. CASE OperatorStep
  BY <1>1, <1>5, OperatorFrame, OperatorMoney DEF InvBooks, Accounted, callVars, recordVars
<1>6. CASE MemberCall \/ MemberResume
  <2>1. UNCHANGED <<pc, nruns, req, status, debitLog, reversed>> /\ net' \subseteq net
    BY <1>1, <1>6, CallFrame, ResumeFrame, MemberPure DEF ServiceFrame, recordVars, bankVars
  <2>2. \A p \in Runs : pc[p] = "debit" => reply'[p] = reply[p]
    BY <1>1, <1>6, MemberMoney
  <2>3. faults' = 0 => faults = 0
    <3>1. MemberCall => faults' = faults
      BY DEF MemberCall, ValidateBegin, Round1, Round2Offline, Round2Refuse, Round2Reject,
         Round2Begin
    <3>2. MemberResume => faults' = faults \/ Fault
      BY DEF MemberResume, ValidateEnd, ValidateThrows, Round2Sign, Round2NoPartial,
         Round2Throws
    <3> QED
      BY <1>1, <1>6, <3>1, <3>2 DEF Fault, TypeOK, TypeOKCalls
  <2>4. \A p \in Runs : Accounted(p) => Accounted(p)'
    BY <2>1, <2>2 DEF Accounted
  <2> QED
    BY <1>1, <1>2, <2>1, <2>2, <2>3, <2>4 DEF InvBooks
<1>7. ASSUME NEW q \in Runs, RunStep(q) PROVE InvBooks'
  <2>1. /\ UNCHANGED <<nruns, req, reversed, debitLog>>
        /\ RunFrame(q) /\ MovesOn(q) /\ BooksStep(q)
    BY <1>1, <1>7, StepFrame, StepMoney DEF RunFrame, RunStep, bankVars
  <2>2. \A p \in Runs \ {q} : Accounted(p) => Accounted(p)'
    BY <2>1 DEF RunFrame, Accounted
  <2>3. status[q] # "DELIVERED"
    BY <1>1, <2>1 DEF MovesOn, MoneyRun, Terminal
  <2>4. faults' = 0 /\ Accounted(q) => Accounted(q)'
    BY <1>1, <2>1, <2>3 DEF BooksStep, MoneyRun, Accounted
  <2>5. faults' = 0 => \A m \in net : m.kind = "debit" => m.run # q
    BY <1>1, <2>1 DEF BooksStep, InvBooks, MovesOn
  <2>6. ASSUME faults' = 0, NEW m \in net', m.kind = "debit"
        PROVE  pc'[m.run] = "debit" /\ reply'[m.run] = NoReply
    <3>1. CASE m \in net
      BY <1>1, <1>2, <2>1, <2>5, <2>6, <3>1 DEF BooksStep, InvBooks, RunFrame
    <3>2. CASE m \notin net
      BY <2>1, <2>6, <3>2 DEF BooksStep
    <3> QED
      BY <3>1, <3>2
  <2> QED
    BY <1>1, <2>1, <2>2, <2>4, <2>6 DEF InvBooks, BooksStep
<1>8. CASE LedgerStep
  BY <1>1, <1>8, LedgerPure DEF InvBooks, Accounted
<1> QED
  BY <1>3, <1>4, <1>5, <1>6, <1>7, <1>8 DEF Next

-----------------------------------------------------------------------------
(* The invariant, and the theorems that follow from it. *)

LEMMA InitMoney == Init => MInv
<1> SUFFICES ASSUME Init PROVE MInv
  OBVIOUS
<1>1. IInv
  BY InitInv
<1>2. \A p \in Runs : MoneyRun(p)
  BY DEF Init, InitCalls, InitPipeline, NoReply, MoneyRun, Charged, Terminal
<1>3. InvGoods /\ InvReverse /\ InvRecorded /\ InvOneRun
  BY DEF Init, InitCalls, InitBank, InitLedger, InitPipeline, InvGoods, InvReverse, InvRecorded,
     InvOneRun, Runs
<1>4. InvUnheard
  BY DEF Init, InitCalls, InitLedger, InitMembers, InitPipeline, InvUnheard, Unheard, Runs
<1>5. InvBooks
  BY DEF Init, InitCalls, InitBank, InvBooks
<1> QED
  BY <1>1, <1>2, <1>3, <1>4, <1>5 DEF MInv

LEMMA StutterMoney == MInv /\ UNCHANGED vars => MInv'
<1> SUFFICES ASSUME MInv, UNCHANGED vars PROVE MInv'
  OBVIOUS
<1>1. IInv'
  BY Stutter DEF MInv
<1>2. UNCHANGED <<callVars, debitLog, reversed, chainVars, signing, checking, partials,
                  recordVars, dispensed>>
  BY DEF vars, bankVars, memberVars, pipelineVars
<1>3. \A p \in Runs : MoneyRun(p)'
  BY <1>2 DEF MInv, MoneyRun, Paid, Confirmed, callVars, recordVars
<1>4. InvGoods' /\ InvReverse' /\ InvRecorded' /\ InvOneRun'
  BY <1>2 DEF MInv, InvGoods, InvReverse, InvRecorded, InvOneRun, GaveUp, Paid, Confirmed,
     callVars, recordVars, chainVars, ledgerVars
<1>5. InvUnheard'
  BY <1>2 DEF MInv, InvUnheard, Unheard, callVars, recordVars, chainVars, ledgerVars
<1>6. InvBooks'
  BY <1>2 DEF MInv, InvBooks, Accounted, callVars, recordVars
<1> QED
  BY <1>1, <1>3, <1>4, <1>5, <1>6 DEF MInv

LEMMA InductiveMoney == MInv /\ [Next]_vars => MInv'
<1> SUFFICES ASSUME MInv, Next PROVE MInv'
  BY StutterMoney
<1>1. IInv'
  BY Inductive DEF MInv
<1>2. \A p \in Runs : MoneyRun(p)'
  BY KeepsMoneyRun
<1> QED
  BY <1>1, <1>2, KeepsGoods, KeepsReverse, KeepsRecorded, KeepsOneRun, KeepsUnheard, KeepsBooks
  DEF MInv

\* The bank, the meter and the records agree about the customer's money in every
\* reachable state.
THEOREM MoneyCorrect == Spec => []MInv
BY InitMoney, InductiveMoney, PTL DEF Spec

\* FR-21: a record that says debitReversed is about a debit that the bank has
\* confirmed and has reversed.
THEOREM RefundCorrect == Spec => []RefundIsReal
<1>1. MInv => RefundIsReal
  BY DEF MInv, MoneyRun, Paid, RefundIsReal
<1> QED
  BY <1>1, MoneyCorrect, PTL

\* FR-4: a rejected run has left nothing on the ledger, no partial and no token,
\* even if the bank confirms its debit after the coordinator gave up.
THEOREM RejectionCorrect == Spec => []RejectedHasNoToken
<1>1. MInv => RejectedHasNoToken
  BY DEF MInv, InvUnheard, Unheard, Approvers, RejectedHasNoToken
<1> QED
  BY <1>1, MoneyCorrect, PTL

\* FR-20: the meter credits a debit once, for the one run that ends DELIVERED,
\* though a requestId that the store has evicted may be run again.
THEOREM DispenseCorrect == Spec => []DispensedOnce
<1>1. MInv => DispensedOnce
  <2> SUFFICES ASSUME MInv, NEW r \in Requests
               PROVE  /\ dispensed[r] <= 1
                      /\ dispensed[r] =
                            Cardinality({p \in Runs : req[p] = r /\ status[p] = "DELIVERED"})
    BY DEF DispensedOnce
  <2> DEFINE D == {p \in Runs : req[p] = r /\ status[p] = "DELIVERED"}
  <2>1. InvGoods
    BY DEF MInv
  <2>2. CASE dispensed[r] = 0
    <3>1. D = {}
      BY <2>1, <2>2 DEF InvGoods
    <3> QED
      BY <2>2, <3>1, FS_EmptySet
  <2>3. CASE dispensed[r] = 1
    <3>1. PICK p \in Runs : req[p] = r /\ status[p] = "DELIVERED"
      BY <2>1, <2>3 DEF InvGoods
    <3>2. D = {p}
      BY <2>1, <3>1 DEF InvGoods
    <3>3. Cardinality({p}) = 1
      BY FS_Singleton
    <3> QED
      BY <2>3, <3>2, <3>3
  <2> QED
    BY <2>1, <2>2, <2>3 DEF InvGoods
<1> QED
  BY <1>1, MoneyCorrect, PTL

\* A debit is delivered by a run that has not given up.
LEMMA NeverBoth ==
    ASSUME MInv, MaxRuns <= RequestCap
    PROVE  GoodsXorRefund
<1> SUFFICES ASSUME NEW r \in Requests, dispensed[r] > 0, reversed[r] PROVE FALSE
  BY DEF GoodsXorRefund
<1>1. PICK p \in Runs : req[p] = r /\ status[p] = "DELIVERED"
  BY DEF MInv, InvGoods
<1>2. PICK q \in Runs : req[q] = r /\ GaveUp(q)
  BY DEF MInv, InvReverse
<1>3. p <= nruns
  BY <1>1 DEF MInv, IInv, InvStarted, MoneyRun, Terminal
<1>4. p = q
  BY <1>1, <1>2, <1>3 DEF MInv, InvOneRun, GaveUp
<1> QED
  BY <1>1, <1>2, <1>4 DEF GaveUp

\* FR-16, FR-20, FR-21: no debit is both dispensed and reversed, as long as the
\* store holds every record.
THEOREM GoodsOrRefund ==
    ASSUME MaxRuns <= RequestCap
    PROVE  Spec => []GoodsXorRefund
<1>1. MInv => GoodsXorRefund
  BY NeverBoth
<1> QED
  BY <1>1, MoneyCorrect, PTL

\* A run that has a token, or delivers, has been paid for.
LEMMA TokenWasPaid ==
    ASSUME MInv, NEW p \in Runs, token[p]
    PROVE  Paid(p)
<1>1. InvCeremony /\ InvPaid
  BY DEF MInv, IInv
<1>2. Cardinality(chosen[p]) = T /\ chosen[p] \subseteq partials[p]
  BY <1>1 DEF InvCeremony
<1>3. chosen[p] # {}
  BY <1>2, FS_EmptySet
<1> QED
  BY <1>1, <1>2, <1>3 DEF InvPaid

LEMMA DeliveredWasPaid ==
    ASSUME MInv, NEW p \in Runs, status[p] = "DELIVERED"
    PROVE  Paid(p)
BY TokenWasPaid DEF MInv, IInv, InvReceipt

\* FR-12: when all runs are over and nothing was lost, the unreversed confirmed
\* debits of the bank are the redeemed debits of the meter.
THEOREM BooksBalance ==
    ASSUME MaxRuns <= RequestCap
    PROVE  Spec => []Reconciled
<1>1. MInv => Reconciled
  <2> SUFFICES ASSUME MInv, faults = 0, \A p \in Runs : pc[p] \in {"idle", "done"},
                      NEW r \in Requests
               PROVE  (debitLog[r] = "CONFIRMED" /\ ~reversed[r]) <=> dispensed[r] = 1
    BY DEF Reconciled
  <2>1. ASSUME debitLog[r] = "CONFIRMED", ~reversed[r] PROVE dispensed[r] = 1
    <3>1. PICK p \in Runs : req[p] = r /\ Accounted(p)
      BY <2>1 DEF MInv, InvBooks
    <3>2. status[p] = "DELIVERED"
      BY <2>1, <3>1 DEF Accounted, Charged
    <3> QED
      BY <3>1, <3>2 DEF MInv, InvGoods
  <2>2. ASSUME dispensed[r] = 1 PROVE debitLog[r] = "CONFIRMED" /\ ~reversed[r]
    <3>1. PICK p \in Runs : req[p] = r /\ status[p] = "DELIVERED"
      BY <2>2 DEF MInv, InvGoods
    <3>2. debitLog[r] = "CONFIRMED"
      BY <3>1, DeliveredWasPaid DEF Paid, Confirmed
    <3> QED
      BY <2>2, <3>2, NeverBoth DEF GoodsXorRefund
  <2> QED
    BY <2>1, <2>2
<1> QED
  BY <1>1, MoneyCorrect, PTL

-----------------------------------------------------------------------------
(* TwoWalls implements Vending: whatever the services, the ledger and the  *)
(* operator do, the customer of a requestId sees a step of the abstract    *)
(* promise or nothing at all.                                              *)

Money == [r \in Requests |-> MoneyOf(r)]
Goods == [r \in Requests |-> GoodsOf(r)]

\* The customer of r sees nothing of a step.
Unseen(r) == MoneyOf(r)' = MoneyOf(r) /\ GoodsOf(r)' = GoodsOf(r)

\* A change that the customer of r sees, as Vending allows it.
Seen(r) ==
    \/ Unseen(r)
    \/ /\ MoneyOf(r) = "none" /\ MoneyOf(r)' = "charged" /\ GoodsOf(r)' = GoodsOf(r)
    \/ /\ MoneyOf(r) = "charged" /\ GoodsOf(r) # "delivered"
       /\ MoneyOf(r)' = "refunded" /\ GoodsOf(r)' = GoodsOf(r)
    \/ /\ MoneyOf(r) = "charged" /\ MoneyOf(r)' = MoneyOf(r)
       /\ \/ GoodsOf(r) = "none" /\ GoodsOf(r)' = "token"
          \/ GoodsOf(r) = "token" /\ GoodsOf(r)' = "delivered"
    \/ /\ MoneyOf(r) # "none" /\ MoneyOf(r)' = MoneyOf(r)
       /\ GoodsOf(r) = "token" /\ GoodsOf(r)' = "recorded"

\* A step that at most one customer sees is a step of Vending.
LEMMA SeenIsVending ==
    ASSUME NEW r \in Requests, Seen(r), \A u \in Requests \ {r} : Unseen(u)
    PROVE  [V!Next]_<<Money, Goods>>
<1>1. /\ \A u \in Requests : Money[u] = MoneyOf(u) /\ Money'[u] = MoneyOf(u)'
      /\ \A u \in Requests : Goods[u] = GoodsOf(u) /\ Goods'[u] = GoodsOf(u)'
  BY DEF Money, Goods
<1>2. /\ MoneyOf(r)' = MoneyOf(r) => Money' = Money
      /\ GoodsOf(r)' = GoodsOf(r) => Goods' = Goods
  BY DEF Money, Goods, Unseen
<1>3. \A x : /\ MoneyOf(r)' = x => Money' = [Money EXCEPT ![r] = x]
             /\ GoodsOf(r)' = x => Goods' = [Goods EXCEPT ![r] = x]
  BY DEF Money, Goods, Unseen
<1> QED
  BY <1>1, <1>2, <1>3 DEF Seen, Unseen, V!Next, V!Charge, V!Sign, V!Record, V!Deliver, V!Refund,
     Money, Goods

-----------------------------------------------------------------------------
(* What the customers see of the steps. *)

LEMMA GoodsKept ==
    ASSUME UNCHANGED <<dispensed, receipts, token, nruns, req>>, NEW r \in Requests
    PROVE  GoodsOf(r)' = GoodsOf(r)
BY DEF GoodsOf, RunsOf

LEMMA MoneyKept ==
    ASSUME NEW r \in Requests, debitLog'[r] = debitLog[r], reversed'[r] = reversed[r]
    PROVE  MoneyOf(r)' = MoneyOf(r)
BY DEF MoneyOf

LEMMA OthersUnseen ==
    ASSUME MInv, ClientStep \/ OperatorStep \/ MemberCall \/ MemberResume, NEW r \in Requests
    PROVE  Unseen(r)
<1>1. TypeOK /\ InvStarted /\ InvCeremony /\ InvRecorded /\ nruns \in Nat
  BY DEF MInv, IInv, TypeOK, TypeOKPipeline
<1>2. CASE ClientStep
  <2>1. nruns' = nruns + 1 /\ nruns + 1 \in Runs /\ UNCHANGED <<receipts, token, dispensed>>
    BY <1>1, <1>2, ClientFrame, ClientMoney
    DEF chainVars, ledgerVars
  <2>2. pc[nruns + 1] = "idle"
    BY <1>1, <2>1 DEF InvStarted, TypeOK, TypeOKPipeline
  <2>3. nruns + 1 \notin receipts /\ ~token[nruns + 1]
    BY <1>1, <2>1, <2>2 DEF InvRecorded, InvCeremony, Early
  <2>4. /\ RunsOf(r) \subseteq RunsOf(r)' /\ RunsOf(r)' \subseteq RunsOf(r) \cup {nruns + 1}
    <3>1. \A p \in 1 .. nruns : req'[p] = req[p]
      BY <1>1, <1>2, <2>1, ClientFrame DEF Runs
    <3> QED
      BY <1>1, <2>1, <3>1 DEF RunsOf
  <2>5. GoodsOf(r)' = GoodsOf(r)
    BY <2>1, <2>3, <2>4 DEF GoodsOf
  <2> QED
    BY <1>1, <1>2, <2>5, ClientMoney, MoneyKept DEF Unseen
<1>3. CASE OperatorStep
  BY <1>3, OperatorFrame, OperatorMoney, GoodsKept, MoneyKept DEF Unseen, recordVars, chainVars,
     ledgerVars
<1>4. CASE MemberCall \/ MemberResume
  <2>1. UNCHANGED <<dispensed, receipts, token, nruns, req, debitLog, reversed>>
    BY <1>1, <1>4, CallFrame, ResumeFrame, MemberPure DEF ServiceFrame, recordVars,
       pipelineVars, bankVars
  <2> QED
    BY <2>1, GoodsKept, MoneyKept DEF Unseen
<1> QED
  BY <1>2, <1>3, <1>4

\* The bank charges, or refunds what it has charged and nobody has delivered.
LEMMA BankSeen ==
    ASSUME MInv, MaxRuns <= RequestCap, BankStep
    PROVE  \E r \in Requests : Seen(r) /\ \A u \in Requests \ {r} : Unseen(u)
<1>1. TypeOK
  BY DEF MInv, IInv
<1>2. PICK m \in net : BankDebit(m, req[m.run]) \/ BankReverse(m, req[m.run])
  BY DEF BankStep
<1>3. m.run \in Runs /\ \E r \in Requests : r = req[m.run]
  BY <1>1, NetType DEF TypeOK, TypeOKPipeline
<1>0. PICK r \in Requests : r = req[m.run]
  BY <1>3
<1>4. \A u \in Requests : GoodsOf(u)' = GoodsOf(u)
  <2>1. UNCHANGED <<dispensed, receipts, token, nruns, req>>
    BY DEF BankStep, pipelineVars, recordVars, chainVars, ledgerVars
  <2> QED
    BY <2>1, GoodsKept
<1>5. CASE BankDebit(m, r)
  <2>1. UNCHANGED reversed /\ (UNCHANGED debitLog \/ debitLog[r] = "none")
    BY <1>5 DEF BankDebit
  <2>2. \A u \in Requests \ {r} : debitLog'[u] = debitLog[u]
    BY <1>1, <1>3, <1>5 DEF BankDebit, TypeOK, TypeOKBank
  <2>3. \A u \in Requests \ {r} : Unseen(u)
    BY <1>4, <2>1, <2>2, MoneyKept DEF Unseen
  <2>4. reversed[r] => debitLog[r] = "CONFIRMED"
    BY <1>0, <1>3 DEF MInv, InvReverse, Paid, Confirmed
  <2>5. MoneyOf(r)' = MoneyOf(r) \/ (MoneyOf(r) = "none" /\ MoneyOf(r)' = "charged")
    BY <1>3, <2>1, <2>4 DEF MoneyOf
  <2> QED
    BY <1>3, <1>4, <2>3, <2>5 DEF Seen, Unseen
<1>6. CASE BankReverse(m, r)
  <2>1. UNCHANGED debitLog /\ reversed' = [reversed EXCEPT ![r] = TRUE] /\ m.kind = "reverse"
    BY <1>6 DEF BankReverse
  <2>2. reversed'[r] /\ \A u \in Requests \ {r} : reversed'[u] = reversed[u]
    BY <1>1, <1>3, <2>1 DEF TypeOK, TypeOKBank
  <2>3. \A u \in Requests \ {r} : Unseen(u)
    BY <1>4, <2>1, <2>2, MoneyKept DEF Unseen
  <2>4. GaveUp(m.run) /\ debitLog[r] = "CONFIRMED"
    BY <1>0, <2>1 DEF MInv, InvReverse, Paid, Confirmed
  <2>5. MoneyOf(r) \in {"charged", "refunded"} /\ MoneyOf(r)' = "refunded"
    BY <2>1, <2>2, <2>4 DEF MoneyOf
  <2>6. dispensed[r] = 0
    <3>1. ASSUME NEW p \in Runs, req[p] = r, status[p] = "DELIVERED" PROVE FALSE
      <4>1. p <= nruns
        BY <3>1 DEF MInv, IInv, InvStarted, MoneyRun, Terminal
      <4>2. p = m.run
        BY <1>0, <1>3, <2>4, <3>1, <4>1 DEF MInv, InvOneRun, GaveUp
      <4> QED
        BY <2>4, <3>1, <4>2 DEF GaveUp
    <3> QED
      BY <1>3, <3>1 DEF MInv, InvGoods
  <2>7. GoodsOf(r) # "delivered"
    BY <2>6 DEF GoodsOf
  <2> QED
    BY <1>3, <1>4, <2>3, <2>5, <2>7 DEF Seen, Unseen
<1> QED
  BY <1>0, <1>2, <1>5, <1>6

\* The one run of a requestId makes the token, records it and delivers.
LEMMA RunSeen ==
    ASSUME MInv, MaxRuns <= RequestCap, NEW q \in Runs, RunStep(q)
    PROVE  \E r \in Requests : Seen(r) /\ \A u \in Requests \ {r} : Unseen(u)
<1>1. TypeOK /\ InvStarted /\ InvOneRun /\ InvGoods /\ nruns \in Nat
  BY DEF MInv, IInv, TypeOK, TypeOKPipeline
<1>0. PICK r \in Requests : r = req[q]
  BY <1>1 DEF TypeOK, TypeOKPipeline
<1>2. /\ UNCHANGED <<nruns, req, reversed, debitLog>>
      /\ RunFrame(q) /\ MovesOn(q) /\ GoodsStep(q) /\ TokenStep(q)
  BY <1>0, <1>1, StepFrame, StepMoney DEF RunFrame, RunStep, bankVars
<1>3. \A u \in Requests : MoneyOf(u)' = MoneyOf(u)
  BY <1>0, <1>2, MoneyKept
<1>4. \A u \in Requests \ {r} : GoodsOf(u)' = GoodsOf(u)
  <2> SUFFICES ASSUME NEW u \in Requests \ {r} PROVE GoodsOf(u)' = GoodsOf(u)
    OBVIOUS
  <2>1. dispensed'[u] = dispensed[u]
    BY <1>0, <1>1, <1>2 DEF GoodsStep, Credits, TypeOK, TypeOKPipeline
  <2>2. \A p \in RunsOf(u) : p \in Runs \ {q}
    BY <1>0, <1>1 DEF RunsOf, Runs, TypeOK, TypeOKPipeline
  <2>3. \A p \in RunsOf(u) : token'[p] = token[p] /\ (p \in receipts' <=> p \in receipts)
    BY <1>0, <1>2, <2>2 DEF RunFrame
  <2>4. RunsOf(u)' = RunsOf(u)
    BY <1>0, <1>2 DEF RunsOf
  <2> QED
    BY <1>0, <2>1, <2>3, <2>4 DEF GoodsOf
<1>5. RunsOf(r) = {q} /\ RunsOf(r)' = {q}
  <2>1. q <= nruns /\ q \in 1 .. nruns
    BY <1>0, <1>1, <1>2 DEF InvStarted, MovesOn, Runs
  <2>2. \A p \in 1 .. nruns : p \in Runs /\ p <= nruns
    BY <1>0, <1>1 DEF Runs, TypeOK, TypeOKPipeline
  <2>3. RunsOf(r) = {q}
    BY <1>0, <1>1, <2>1, <2>2 DEF InvOneRun, RunsOf
  <2> QED
    BY <1>0, <1>2, <2>3 DEF RunsOf
<1>6. dispensed[r] = 0
  <2>1. ASSUME NEW p \in Runs, req[p] = r, status[p] = "DELIVERED" PROVE FALSE
    <3>1. p <= nruns /\ pc[p] = "done"
      BY <1>0, <2>1 DEF MInv, IInv, InvStarted, MoneyRun, Terminal
    <3>2. p = q
      BY <1>0, <1>1, <1>2, <2>1, <3>1 DEF InvOneRun, InvStarted, MovesOn
    <3> QED
      BY <1>0, <1>2, <3>1, <3>2 DEF MovesOn
  <2> QED
    BY <1>0, <1>1, <2>1 DEF InvGoods
<1>7. /\ GoodsOf(r) = IF q \in receipts THEN "recorded" ELSE IF token[q] THEN "token" ELSE "none"
      /\ GoodsOf(r)' = IF dispensed'[r] > 0 THEN "delivered"
                       ELSE IF q \in receipts' THEN "recorded"
                       ELSE IF token'[q] THEN "token" ELSE "none"
  BY <1>0, <1>2, <1>5, <1>6 DEF GoodsOf
<1>8. pc[q] \in {"round2", "submit"} => MoneyOf(r) = "charged"
  <2> SUFFICES ASSUME pc[q] \in {"round2", "submit"} PROVE MoneyOf(r) = "charged"
    OBVIOUS
  <2>1. Paid(q) /\ q <= nruns
    BY <1>0 DEF MInv, MoneyRun, Charged, Paid
  <2>2. ~reversed[r]
    BY <1>0, <1>1, <2>1 DEF MInv, InvReverse, InvOneRun, GaveUp
  <2> QED
    BY <1>0, <2>1, <2>2 DEF MoneyOf, Paid, Confirmed
<1>9. /\ pc[q] \in {"round2", "submit"} => q \notin receipts
      /\ pc[q] = "round2" => ~token[q]
      /\ pc[q] = "submit" => token[q]
  BY DEF MInv, IInv, InvRecorded, InvCeremony, InvReceipt
<1>10. CASE token'[q] # token[q]
  <2>1. pc[q] = "round2" /\ token'[q] /\ receipts' = receipts /\ dispensed'[r] = 0
    BY <1>0, <1>2, <1>6, <1>10 DEF TokenStep, GoodsStep, Credits
  <2>2. GoodsOf(r) = "none" /\ GoodsOf(r)' = "token"
    BY <1>0, <1>7, <1>9, <2>1
  <2> QED
    BY <1>0, <1>3, <1>4, <1>8, <2>1, <2>2, <1>1 DEF Seen, Unseen
<1>11. CASE token'[q] = token[q] /\ receipts' # receipts
  <2>1. pc[q] = "submit" /\ q \in receipts'
    BY <1>0, <1>2, <1>11 DEF TokenStep
  <2>2. GoodsOf(r) = "token" /\ GoodsOf(r)' \in {"recorded", "delivered"}
    BY <1>0, <1>7, <1>9, <2>1
  <2> QED
    BY <1>0, <1>1, <1>3, <1>4, <1>8, <2>1, <2>2 DEF Seen, Unseen
<1>12. CASE token'[q] = token[q] /\ receipts' = receipts
  <2>1. UNCHANGED dispensed
    BY <1>0, <1>2, <1>9, <1>12 DEF TokenStep, GoodsStep, Credits
  <2>2. GoodsOf(r)' = GoodsOf(r)
    BY <1>0, <1>6, <1>7, <1>12, <2>1
  <2> QED
    BY <1>0, <1>1, <1>3, <1>4, <2>2 DEF Seen, Unseen
<1> QED
  BY <1>0, <1>10, <1>11, <1>12

\* A receipt that lands late is seen by the customer of its run, who has paid
\* and may have been refunded since.
LEMMA LedgerSeen ==
    ASSUME MInv, LedgerStep
    PROVE  \E r \in Requests : Seen(r) /\ \A u \in Requests \ {r} : Unseen(u)
<1>1. TypeOK /\ InvStarted
  BY DEF MInv, IInv
<1>2. PICK t \in pending : LandsLate(t)
  BY DEF LedgerStep
<1>3. t.run \in Runs /\ req[t.run] \in Requests
  BY <1>1, PendingType DEF TypeOK, TypeOKPipeline
<1>4. PICK q \in Runs, r \in Requests : q = t.run /\ r = req[q]
  BY <1>3
<1>5. /\ UNCHANGED <<dispensed, token, nruns, req>>
      /\ \A u \in Requests : MoneyOf(u)' = MoneyOf(u) /\ RunsOf(u)' = RunsOf(u)
  BY <1>1, LedgerPure, MoneyKept DEF RunsOf
<1>6. \/ receipts' = receipts
      \/ t.what = "receipt" /\ receipts' = receipts \cup {q}
  BY <1>2, <1>4 DEF LandsLate, PublishTx, AttestTx, ReceiptTx
<1>7. CASE receipts' = receipts
  BY <1>5, <1>7, GoodsKept DEF Seen, Unseen
<1>8. CASE t.what = "receipt" /\ receipts' = receipts \cup {q}
  <2>1. Receipt(q) \in pending
    BY <1>1, <1>4, <1>8 DEF TypeOK, TypeOKLedger, Transactions, Receipt, Verdicts
  <2>2. token[q] /\ q <= nruns
    BY <1>1, <2>1 DEF MInv, IInv, InvReceipt, InvRecorded, InvStarted
  <2>3. MoneyOf(r) # "none"
    <3>1. Paid(q)
      BY <2>2, TokenWasPaid
    <3> QED
      BY <1>4, <3>1 DEF Paid, Confirmed, MoneyOf
  <2>4. q \in RunsOf(r) /\ \A u \in Requests \ {r} : q \notin RunsOf(u)
    BY <1>1, <1>4, <2>2 DEF RunsOf, Runs, TypeOK, TypeOKPipeline
  <2>5. \A u \in Requests \ {r} : Unseen(u)
    <3>1. \A u \in Requests \ {r} : RunsOf(u) \cap receipts' = RunsOf(u) \cap receipts
      BY <1>8, <2>4
    <3> QED
      BY <1>5, <3>1 DEF Unseen, GoodsOf
  <2>6. RunsOf(r) \cap receipts' # {}
    BY <1>8, <2>4
  <2>7. \/ GoodsOf(r)' = GoodsOf(r)
        \/ GoodsOf(r) = "token" /\ GoodsOf(r)' = "recorded"
    BY <1>5, <2>2, <2>4, <2>6 DEF GoodsOf
  <2> QED
    BY <1>5, <2>3, <2>5, <2>7 DEF Seen, Unseen
<1> QED
  BY <1>6, <1>7, <1>8

LEMMA VendingInit == Init => V!Init
<1> SUFFICES ASSUME Init PROVE V!Init
  OBVIOUS
<1>1. nruns = 0 /\ \A r \in Requests : debitLog[r] = "none" /\ dispensed[r] = 0
  BY DEF Init, InitBank, InitPipeline
<1>2. \A r \in Requests : MoneyOf(r) = "none" /\ GoodsOf(r) = "none"
  BY <1>1 DEF MoneyOf, GoodsOf, RunsOf
<1> QED
  BY <1>2 DEF V!Init

LEMMA VendingStep ==
    ASSUME MInv, MaxRuns <= RequestCap, [Next]_vars
    PROVE  [V!Next]_<<Money, Goods>>
<1>1. CASE UNCHANGED vars
  BY <1>1 DEF vars, bankVars, chainVars, ledgerVars, pipelineVars, recordVars, Money, Goods,
     MoneyOf, GoodsOf, RunsOf
<1>2. CASE ClientStep \/ OperatorStep \/ MemberCall \/ MemberResume
  <2>1. \A r \in Requests : Unseen(r)
    BY <1>2, OthersUnseen
  <2>2. Money' = Money /\ Goods' = Goods
    BY <2>1 DEF Unseen, Money, Goods
  <2> QED
    BY <2>2
<1>3. CASE BankStep
  BY <1>3, BankSeen, SeenIsVending
<1>4. ASSUME NEW q \in Runs, RunStep(q) PROVE [V!Next]_<<Money, Goods>>
  BY <1>4, RunSeen, SeenIsVending
<1>5. CASE LedgerStep
  BY <1>5, LedgerSeen, SeenIsVending
<1> QED
  BY <1>1, <1>2, <1>3, <1>4, <1>5 DEF Next

\* FR-2, FR-8, FR-10, FR-15, FR-16, FR-20, FR-21 in one: the bank, the consortium,
\* the ledger, the pipeline and the meter together implement the promise to the
\* customer, as long as the store holds every record.
THEOREM ServicesKeepPromise ==
    ASSUME MaxRuns <= RequestCap
    PROVE  Spec => ImplementsVending
<1>1. MInv /\ [Next]_vars => [V!Next]_<<Money, Goods>>
  BY VendingStep
<1> QED
  BY <1>1, VendingInit, MoneyCorrect, PTL DEF Spec, ImplementsVending, V!Spec, Money, Goods

-----------------------------------------------------------------------------
(* The sums of the panel.  A record that is DELIVERED has its token and its *)
(* receipt, and a debit is delivered by one run: so the three sums differ   *)
(* by the debits that are stuck, and by nothing else.                       *)

DeliveredDebits == {req[p] : p \in RunsThat("DELIVERED")}

LEMMA RunsFinite ==
    ASSUME NEW Q \in SUBSET Runs
    PROVE  /\ IsFiniteSet(Q) /\ Cardinality(Q) \in Nat
           /\ IsFiniteSet({req[p] : p \in Q}) /\ Cardinality({req[p] : p \in Q}) \in Nat
<1>1. IsFiniteSet(Runs)
  BY FS_Interval DEF Runs
<1>2. IsFiniteSet(Q)
  BY <1>1, FS_Subset
<1> DEFINE f == [p \in Q |-> req[p]]
<1>3. f \in Surjection(Q, {req[p] : p \in Q})
  BY DEF Surjection
<1>4. IsFiniteSet({req[p] : p \in Q})
  BY <1>2, <1>3, FS_Surjection
<1> QED
  BY <1>2, <1>4, FS_CardinalityType

LEMMA SumsOfPanel ==
    ASSUME MInv
    PROVE  /\ IsFiniteSet(DeliveredDebits) /\ IsFiniteSet(StuckDebits)
           /\ Delta = Cardinality(StuckDebits \ DeliveredDebits)
<1> DEFINE D == RunsThat("DELIVERED")
<1>1. D \in SUBSET Runs
  BY DEF RunsThat, Stored
<1>2. IsFiniteSet(DeliveredDebits) /\ IsFiniteSet(D) /\ Cardinality(D) \in Nat
  BY <1>1, RunsFinite DEF DeliveredDebits
<1>3. IsFiniteSet(StuckDebits)
  <2>1. {q \in RunsThat("REJECTED_ABANDONED") : ~debitReversed[q]} \in SUBSET Runs
    BY DEF RunsThat, Stored
  <2> QED
    BY <2>1, RunsFinite DEF StuckDebits
<1>4. Cardinality(D) = Cardinality(DeliveredDebits)
  <2> DEFINE f == [p \in D |-> req[p]]
  <2>1. f \in Surjection(D, DeliveredDebits)
    BY DEF Surjection, DeliveredDebits
  <2>2. f \in Injection(D, DeliveredDebits)
    BY <1>1, <2>1 DEF Injection, IsInjective, Surjection, RunsThat, MInv, InvGoods
  <2> QED
    BY <1>2, <2>1, <2>2, FS_Surjection
<1>5. \A p \in D : token[p] /\ p \in receipts
  BY <1>1 DEF RunsThat, MInv, IInv, InvReceipt
<1>6. tokensIssued = Cardinality(D) /\ onChainRecords = Cardinality(D)
  <2>1. {p \in D : token[p]} = D /\ D \cap receipts = D
    BY <1>5
  <2> QED
    BY <2>1 DEF tokensIssued, onChainRecords
<1>7. confirmedDebits = Cardinality(D) + Cardinality(StuckDebits \ DeliveredDebits)
  <2> DEFINE A == DeliveredDebits
             S == StuckDebits \ DeliveredDebits
  <2>1. IsFiniteSet(S)
    BY <1>3, FS_Difference
  <2>2. A \cap S = {} /\ A \cup S = A \cup StuckDebits
    OBVIOUS
  <2>3. Cardinality(A \cup S) = Cardinality(A) + Cardinality(S) - Cardinality(A \cap S)
    BY <1>2, <2>1, FS_Union
  <2>4. Cardinality(S) \in Nat /\ Cardinality({}) = 0
    BY <2>1, FS_CardinalityType, FS_EmptySet
  <2>5. confirmedDebits = Cardinality(A \cup StuckDebits)
    BY DEF confirmedDebits, DeliveredDebits
  <2>6. Cardinality(A \cap S) = 0 /\ Cardinality(A) = Cardinality(D)
    BY <1>4, <2>2, <2>4
  <2>7. Cardinality(A \cup S) = Cardinality(D) + Cardinality(S)
    <3> HIDE DEF A, S, D
    <3> QED
      BY <1>2, <2>3, <2>4, <2>6
  <2> QED
    BY <2>2, <2>5, <2>7
<1>8. Cardinality(StuckDebits \ DeliveredDebits) \in Nat
  BY <1>3, FS_Difference, FS_CardinalityType
<1>9. Delta = Cardinality(StuckDebits \ DeliveredDebits)
  BY <1>2, <1>6, <1>7, <1>8 DEF Delta, Gap
<1> QED
  BY <1>2, <1>3, <1>9

-----------------------------------------------------------------------------
(* What is beside MInv: a run that has started is suspended somewhere and   *)
(* ends in a terminal status, the bank confirms only debits that some run   *)
(* asked for, and a reversal fails only if a call does.                     *)

RunEnds(p) ==
    /\ p <= nruns => pc[p] # "idle"
    /\ pc[p] = "done" => status[p] \in Terminal

InvAsked ==
    \A r \in Requests : debitLog[r] = "CONFIRMED" => \E p \in Runs : p <= nruns /\ req[p] = r

HonestReversal(p) ==
    faults = 0 /\ status[p] = "REJECTED_ABANDONED" => debitReversed[p]

PanelInv ==
    /\ MInv
    /\ \A p \in Runs : RunEnds(p) /\ HonestReversal(p)
    /\ InvAsked

\* A run in a terminal status makes no step, so its record is final.
LEMMA RecordsFinal ==
    ASSUME MInv, Next, NEW p \in Runs, status[p] \in Terminal
    PROVE  /\ p <= nruns /\ req'[p] = req[p] /\ status'[p] = status[p]
           /\ token'[p] = token[p] /\ debitReversed'[p] = debitReversed[p]
<1>1. TypeOK /\ InvStarted /\ pc[p] = "done" /\ nruns \in Nat
  BY DEF MInv, IInv, MoneyRun, TypeOK, TypeOKPipeline
<1>2. p <= nruns
  BY <1>1 DEF InvStarted
<1>3. CASE ClientStep
  BY <1>1, <1>2, <1>3, ClientFrame, ClientMoney DEF Runs
<1>4. CASE OperatorStep
  BY <1>2, <1>4, OperatorFrame DEF recordVars
<1>5. CASE BankStep \/ MemberCall \/ MemberResume
  BY <1>1, <1>2, <1>5, BankFrame, CallFrame, ResumeFrame DEF ServiceFrame, recordVars
<1>7. CASE LedgerStep
  BY <1>1, <1>2, <1>7, LedgerPure
<1>6. ASSUME NEW q \in Runs, RunStep(q)
      PROVE  /\ req'[p] = req[p] /\ status'[p] = status[p]
             /\ token'[p] = token[p] /\ debitReversed'[p] = debitReversed[p]
  <2>1. p # q
    BY <1>1, <1>6, StepMoney DEF MovesOn
  <2> QED
    BY <1>1, <1>6, <2>1, StepFrame, StepMoney DEF RunFrame, RefundStep
<1> QED
  BY <1>2, <1>3, <1>4, <1>5, <1>6, <1>7 DEF Next

\* A step of run p keeps it away from idle, and leaves it done only with a
\* terminal status; without a fault it gives no money up.
LEMMA StepEnds ==
    ASSUME TypeOK, NEW p \in Runs, RunStep(p)
    PROVE  /\ pc'[p] = "done" => status'[p] \in Terminal
           /\ faults' = 0 => faults = 0
           /\ faults' = 0 /\ status'[p] = "REJECTED_ABANDONED" =>
                 debitReversed'[p] \/ status[p] = "REJECTED_ABANDONED"
           /\ debitReversed[p] /\ pc[p] # "reverse" => debitReversed'[p]
<1> DEFINE Goal == /\ pc'[p] = "done" => status'[p] \in Terminal
                   /\ faults' = 0 => faults = 0
                   /\ faults' = 0 /\ status'[p] = "REJECTED_ABANDONED" =>
                         debitReversed'[p] \/ status[p] = "REJECTED_ABANDONED"
                   /\ debitReversed[p] /\ pc[p] # "reverse" => debitReversed'[p]
<1> USE DEF TypeOK, TypeOKCalls, TypeOKPipeline, Goto, SetStatus, Ask, Fault, Polled, Terminal
<1>1. ASSUME NEW S \in SUBSET Signers, Preflight(p, S, up) PROVE Goal
  BY <1>1 DEF Preflight, Reject
<1>2. ASSUME NEW S \in SUBSET Signers, AskApprovers(p, S, up) PROVE Goal
  BY <1>2 DEF AskApprovers, Abandon, recordVars
<1>3. ASSUME NEW S \in SUBSET Signers, StartCeremony(p, S, up) PROVE Goal
  BY <1>3 DEF StartCeremony, Ceremony, Abandon, FirstT
<1>4. ASSUME NEW s \in Signers, MemberTimesOut(p, s) PROVE Goal
  BY <1>4 DEF MemberTimesOut, pipelineVars, recordVars
<1>5. CASE DebitTimesOut(p)
  BY <1>5 DEF DebitTimesOut, Reject
<1>6. CASE DebitAnswered(p)
  BY <1>6 DEF DebitAnswered, Reject
<1>7. CASE Publish(p)
  BY <1>7 DEF Publish
<1>8. CASE PublishThrows(p)
  BY <1>8 DEF PublishThrows, Abandon, recordVars
<1>9. CASE ApprovalsRead(p)
  BY <1>9 DEF ApprovalsRead, Abandon
<1>10. CASE ApprovalsUnread(p)
  BY <1>10 DEF ApprovalsUnread, Abandon, recordVars
<1>11. CASE Round1Settled(p)
  BY <1>11 DEF Round1Settled, Abandon, recordVars
<1>12. CASE PartialArrives(p)
  BY <1>12 DEF PartialArrives, recordVars
<1>13. CASE TokenSigned(p)
  BY <1>13 DEF TokenSigned, Abandon
<1>14. CASE SignerRefused(p)
  BY <1>14 DEF SignerRefused, Ceremony, Abandon, FirstT
<1>15. CASE CeremonyFails(p)
  BY <1>15 DEF CeremonyFails, Abandon, recordVars
<1>16. CASE PrepareReceipt(p)
  BY <1>16 DEF PrepareReceipt, recordVars
<1>17. CASE FragmentSigned(p, up)
  BY <1>17 DEF FragmentSigned, recordVars
<1>18. CASE ReceiptAccepted(p)
  BY <1>18 DEF ReceiptAccepted, Abandon
<1>19. CASE ReceiptFails(p, up)
  BY <1>19 DEF ReceiptFails, Abandon, recordVars
<1>20. CASE ReverseSettled(p)
  BY <1>20 DEF ReverseSettled, Abandoned
<1> QED
  BY <1>1, <1>2, <1>3, <1>4, <1>5, <1>6, <1>7, <1>8, <1>9, <1>10, <1>11, <1>12, <1>13,
     <1>14, <1>15, <1>16, <1>17, <1>18, <1>19, <1>20 DEF RunStep

\* The services, the operator and the ledger change no record, and only faults
\* go up.
LEMMA OthersEnd ==
    ASSUME TypeOK, BankStep \/ MemberCall \/ MemberResume \/ OperatorStep \/ LedgerStep
    PROVE  /\ UNCHANGED <<pc, recordVars>>
           /\ faults' = 0 => faults = 0
<1>1. CASE BankStep
  BY <1>1, BankFrame DEF BankStep, BankDebit, BankReverse, ServiceFrame
<1>2. CASE MemberCall
  BY <1>2, CallFrame DEF MemberCall, ValidateBegin, Round1, Round2Offline, Round2Refuse,
     Round2Reject, Round2Begin, ServiceFrame
<1>3. CASE MemberResume
  <2>1. \/ \E h \in checking : ValidateEnd(h) \/ ValidateThrows(h)
        \/ \E h \in signing :
              \/ Round2Sign(h, req[h.run])
              \/ Round2NoPartial(h, req[h.run])
              \/ Round2Throws(h)
    BY <1>3 DEF MemberResume
  <2>2. UNCHANGED faults \/ Fault
    BY <2>1 DEF ValidateEnd, ValidateThrows, Round2Sign, Round2NoPartial, Round2Throws
  <2> QED
    BY <1>3, <2>2, ResumeFrame DEF ServiceFrame, Fault, TypeOK, TypeOKCalls
<1>4. CASE OperatorStep
  BY <1>4, OperatorFrame DEF callVars
<1>5. CASE LedgerStep
  BY <1>5, LedgerFrame DEF callVars, pipelineVars
<1> QED
  BY <1>1, <1>2, <1>3, <1>4, <1>5

\* A run that ends as it starts has been rejected by the policy gate.
LEMMA NewRunEnds ==
    ASSUME TypeOK, ClientStep
    PROVE  pc'[nruns + 1] = "done" => status'[nruns + 1] \in Terminal
BY DEF ClientStep, Submit, Goto, SetStatus, Terminal, TypeOK, TypeOKCalls, TypeOKPipeline, Runs

LEMMA KeepsRunEnds ==
    ASSUME PanelInv, Next, NEW p \in Runs
    PROVE  RunEnds(p)' /\ HonestReversal(p)'
<1>1. TypeOK /\ InvStarted /\ MoneyRun(p) /\ RunEnds(p) /\ HonestReversal(p) /\ nruns \in Nat
  BY DEF PanelInv, MInv, IInv, TypeOK, TypeOKPipeline
<1>2. CASE ClientStep
  <2>1. UNCHANGED faults
    BY <1>2 DEF ClientStep, Submit
  <2>2. CASE p = nruns + 1
    BY <1>1, <1>2, <2>1, <2>2, ClientFrame, NewRunEnds DEF RunEnds, HonestReversal
  <2>3. CASE p # nruns + 1
    BY <1>1, <1>2, <2>1, <2>3, ClientFrame, ClientMoney DEF RunEnds, HonestReversal, Runs
  <2> QED
    BY <2>2, <2>3
<1>3. CASE BankStep \/ MemberCall \/ MemberResume \/ OperatorStep \/ LedgerStep
  BY <1>1, <1>3, OthersEnd DEF RunEnds, HonestReversal, recordVars
<1>4. ASSUME NEW q \in Runs, RunStep(q) PROVE RunEnds(p)' /\ HonestReversal(p)'
  <2>1. CASE p = q
    <3>1. pc[p] # "done" /\ pc'[p] # "idle"
      BY <1>1, <1>4, <2>1, StepFrame, StepMoney DEF RunFrame, MovesOn
    <3>2. status[p] # "REJECTED_ABANDONED"
      BY <1>1, <3>1 DEF MoneyRun, Terminal
    <3> QED
      BY <1>1, <1>4, <2>1, <3>1, <3>2, StepEnds DEF RunEnds, HonestReversal
  <2>2. CASE p # q
    BY <1>1, <1>4, <2>2, StepFrame, StepMoney, StepEnds
    DEF RunFrame, RefundStep, RunEnds, HonestReversal
  <2> QED
    BY <2>1, <2>2
<1> QED
  BY <1>2, <1>3, <1>4 DEF Next

LEMMA KeepsAsked == PanelInv /\ Next => InvAsked'
<1> SUFFICES ASSUME PanelInv, Next, NEW r \in Requests, debitLog'[r] = "CONFIRMED"
             PROVE  \E p \in Runs : p <= nruns' /\ req'[p] = r
  BY DEF InvAsked
<1>1. TypeOK /\ InvStarted /\ InvAsked /\ nruns \in Nat
  BY DEF PanelInv, MInv, IInv, TypeOK, TypeOKPipeline
<1>2. \A p \in Runs : p <= nruns => p <= nruns' /\ req'[p] = req[p]
  <2>1. CASE ClientStep
    BY <1>1, <2>1, ClientFrame DEF Runs
  <2>2. CASE BankStep \/ MemberCall \/ MemberResume \/ OperatorStep \/ LedgerStep
    BY <1>1, <2>2, OthersEnd DEF recordVars
  <2>3. ASSUME NEW q \in Runs, RunStep(q) PROVE UNCHANGED <<nruns, req>>
    BY <1>1, <2>3, StepFrame DEF RunFrame
  <2> QED
    BY <2>1, <2>2, <2>3 DEF Next
<1>3. CASE debitLog[r] = "CONFIRMED"
  BY <1>1, <1>2, <1>3 DEF InvAsked
<1>4. CASE debitLog[r] # "CONFIRMED"
  <2>1. BankStep
    BY <1>1, <1>4, OperatorFrame, ClientFrame, CallFrame, ResumeFrame, LedgerFrame
    DEF Next, RunStep, bankVars
  <2>2. PICK m \in net : BankDebit(m, req[m.run]) \/ BankReverse(m, req[m.run])
    BY <2>1 DEF BankStep
  <2>3. m.run \in Runs /\ m.run <= nruns
    BY <1>1, <2>2, NetType DEF InvStarted, TypeOK
  <2>4. req[m.run] = r
    BY <1>1, <1>4, <2>2 DEF BankDebit, BankReverse, TypeOK, TypeOKBank
  <2> QED
    BY <1>2, <2>3, <2>4
<1> QED
  BY <1>3, <1>4

LEMMA InitPanel == ReconInit => PanelInv /\ lastDelta = Delta
<1> SUFFICES ASSUME ReconInit PROVE PanelInv /\ lastDelta = Delta
  OBVIOUS
<1>1. MInv
  BY InitMoney DEF ReconInit
<1>2. \A p \in Runs : RunEnds(p) /\ HonestReversal(p)
  BY DEF ReconInit, Init, InitCalls, InitPipeline, RunEnds, HonestReversal, Runs
<1>3. InvAsked
  BY DEF ReconInit, Init, InitBank, InvAsked
<1>4. Delta = 0
  <2>1. StuckDebits \ DeliveredDebits = {}
    BY DEF ReconInit, Init, InitPipeline, StuckDebits, RunsThat, Stored
  <2> QED
    BY <1>1, <2>1, SumsOfPanel, FS_EmptySet
<1> QED
  BY <1>1, <1>2, <1>3, <1>4 DEF PanelInv, ReconInit

LEMMA NextPanel == PanelInv /\ [ReconNext]_reconVars => PanelInv'
<1>1. CASE Next /\ PanelInv
  BY <1>1, KeepsRunEnds, KeepsAsked, InductiveMoney DEF PanelInv
<1>2. CASE UNCHANGED reconVars /\ PanelInv
  <2>1. MInv' /\ UNCHANGED <<callVars, bankVars, pipelineVars>>
    BY <1>2, StutterMoney DEF reconVars, vars, PanelInv
  <2> QED
    BY <1>2, <2>1 DEF PanelInv, RunEnds, HonestReversal, InvAsked, callVars, bankVars,
       pipelineVars, recordVars
<1> QED
  BY <1>1, <1>2 DEF ReconNext
-----------------------------------------------------------------------------
(* The theorems. *)

\* Nothing but a call that fails leaves a debit stuck.
LEMMA HonestIsZero == PanelInv => HonestDelta
<1> SUFFICES ASSUME PanelInv, faults = 0 PROVE Delta = 0
  BY DEF HonestDelta
<1>1. StuckDebits = {}
  BY DEF StuckDebits, RunsThat, Stored, PanelInv, HonestReversal
<1> QED
  BY <1>1, SumsOfPanel, FS_EmptySet DEF PanelInv

\* FR-D3: as long as no call is lost or late, the three sums of the panel are
\* equal, also when records are evicted and requestIds run again.
THEOREM HonestOperationBalances == ReconSpec => []HonestDelta
BY InitPanel, NextPanel, HonestIsZero, PTL DEF ReconSpec

\* While the store evicts nothing it holds every run that has started, and no
\* debit is both delivered and stuck.
LEMMA NothingEvicted ==
    ASSUME PanelInv, MaxRuns <= RequestCap
    PROVE  /\ Stored = {p \in Runs : p <= nruns}
           /\ StuckDebits \cap DeliveredDebits = {}
<1>1. nruns \in Nat /\ nruns <= MaxRuns
  BY DEF PanelInv, MInv, IInv, TypeOK, TypeOKPipeline
<1>2. Stored = {p \in Runs : p <= nruns}
  BY <1>1 DEF Stored, Runs
<1>3. StuckDebits \cap DeliveredDebits = {}
  BY <1>2 DEF StuckDebits, DeliveredDebits, RunsThat, PanelInv, MInv, InvOneRun
<1> QED
  BY <1>2, <1>3

LEMMA ZeroBalances ==
    ASSUME PanelInv, MaxRuns <= RequestCap
    PROVE  ZeroDeltaMeansBalanced
<1> SUFFICES ASSUME Delta = 0, \A p \in Runs : pc[p] \in {"idle", "done"},
                    NEW r \in Requests,
                    \A p \in Runs : req[p] = r => status[p] # "REJECTED"
             PROVE  (debitLog[r] = "CONFIRMED" /\ ~reversed[r]) <=> dispensed[r] = 1
  BY DEF ZeroDeltaMeansBalanced
<1>1. StuckDebits = {}
  <2>1. StuckDebits \ DeliveredDebits = StuckDebits
    BY NothingEvicted
  <2> QED
    BY <2>1, SumsOfPanel, FS_EmptySet DEF PanelInv
<1>2. ASSUME debitLog[r] = "CONFIRMED", ~reversed[r] PROVE dispensed[r] = 1
  <2>1. PICK p \in Runs : p <= nruns /\ req[p] = r
    BY <1>2 DEF PanelInv, InvAsked
  <2>2. status[p] \in {"DELIVERED", "REJECTED_ABANDONED"}
    BY <2>1 DEF PanelInv, RunEnds, Terminal
  <2>3. status[p] # "REJECTED_ABANDONED"
    <3>1. SUFFICES ASSUME status[p] = "REJECTED_ABANDONED" PROVE FALSE
      OBVIOUS
    <3>2. debitReversed[p]
      BY <1>1, <2>1, <3>1, NothingEvicted DEF StuckDebits, RunsThat
    <3> QED
      BY <1>2, <2>1, <3>2 DEF PanelInv, MInv, MoneyRun
  <2> QED
    BY <2>1, <2>2, <2>3 DEF PanelInv, MInv, InvGoods
<1>3. ASSUME dispensed[r] = 1 PROVE debitLog[r] = "CONFIRMED" /\ ~reversed[r]
  <2>1. PICK p \in Runs : req[p] = r /\ status[p] = "DELIVERED"
    BY <1>3 DEF PanelInv, MInv, InvGoods
  <2>2. debitLog[r] = "CONFIRMED"
    BY <2>1, DeliveredWasPaid DEF Paid, Confirmed, PanelInv
  <2> QED
    BY <1>3, <2>2, NeverBoth DEF GoodsXorRefund, PanelInv
<1> QED
  BY <1>2, <1>3

\* FR-12: whatever calls were lost, a panel at zero means that the money the
\* bank kept is the energy the meter gave, but for debits that were confirmed to
\* a run that had been rejected; as long as the store holds every record.
THEOREM ZeroMeansBalanced ==
    ASSUME MaxRuns <= RequestCap
    PROVE  ReconSpec => []ZeroDeltaMeansBalanced
<1>1. PanelInv => ZeroDeltaMeansBalanced
  BY ZeroBalances
<1> QED
  BY <1>1, InitPanel, NextPanel, PTL DEF ReconSpec

-----------------------------------------------------------------------------
(* The panel that was broadcast last.  Records that are terminal are final, *)
(* so the sums change only when some run ends, and then they are broadcast. *)

\* While nothing is evicted the delta is the number of stuck debits.
DeltaIsStuck ==
    /\ Stored = {p \in Runs : p <= nruns}
    /\ IsFiniteSet(StuckDebits)
    /\ Delta = Cardinality(StuckDebits)

LEMMA CountsStuck ==
    ASSUME MaxRuns <= RequestCap
    PROVE  (PanelInv => DeltaIsStuck) /\ (PanelInv' => DeltaIsStuck')
<1>1. PanelInv => DeltaIsStuck
  <2> SUFFICES ASSUME PanelInv PROVE DeltaIsStuck
    OBVIOUS
  <2>1. StuckDebits \ DeliveredDebits = StuckDebits
    BY NothingEvicted
  <2> QED
    BY <2>1, NothingEvicted, SumsOfPanel DEF PanelInv, DeltaIsStuck
<1> QED
  BY <1>1, PTL

\* A stuck debit stays stuck, and a new one is a run's that ends in this step.
LEMMA StuckGrows ==
    ASSUME PanelInv, Next, MaxRuns <= RequestCap
    PROVE  /\ StuckDebits \subseteq StuckDebits'
           /\ StuckDebits' \subseteq StuckDebits \/ \E p \in Runs : Ends(p)
<1>1. PanelInv'
  BY NextPanel, KeepsRunEnds, KeepsAsked, InductiveMoney DEF PanelInv
<1>2. Stored = {p \in Runs : p <= nruns} /\ Stored' = {p \in Runs : p <= nruns'}
  BY <1>1, CountsStuck DEF DeltaIsStuck
<1>3. \A p \in Runs : status[p] \in Terminal =>
         /\ p <= nruns /\ p <= nruns' /\ req'[p] = req[p] /\ status'[p] = status[p]
         /\ debitReversed'[p] = debitReversed[p]
  <2> SUFFICES ASSUME NEW p \in Runs, status[p] \in Terminal
               PROVE  /\ p <= nruns /\ p <= nruns' /\ req'[p] = req[p]
                      /\ status'[p] = status[p] /\ debitReversed'[p] = debitReversed[p]
    OBVIOUS
  <2>1. /\ p <= nruns /\ req'[p] = req[p] /\ status'[p] = status[p]
        /\ debitReversed'[p] = debitReversed[p]
    BY RecordsFinal DEF PanelInv
  <2>2. status'[p] \in Terminal => p <= nruns'
    BY <1>1 DEF PanelInv, MInv, IInv, InvStarted, MoneyRun
  <2> QED
    BY <2>1, <2>2
<1>4. StuckDebits \subseteq StuckDebits'
  BY <1>2, <1>3 DEF StuckDebits, RunsThat, Terminal
<1>5. ASSUME \A p \in Runs : ~Ends(p) PROVE StuckDebits' \subseteq StuckDebits
  BY <1>2, <1>3, <1>5 DEF StuckDebits, RunsThat, Ends, Terminal
<1> QED
  BY <1>4, <1>5

CurrentInv ==
    /\ PanelInv
    /\ lastDelta = Delta
    /\ alerts \in Nat

LEMMA InitCurrent == ReconInit => CurrentInv
BY InitPanel DEF CurrentInv, ReconInit

LEMMA NextCurrent ==
    ASSUME CurrentInv, MaxRuns <= RequestCap, [ReconNext]_reconVars
    PROVE  CurrentInv'
<1>1. PanelInv'
  BY NextPanel DEF CurrentInv
<1>2. CASE ReconNext
  <2>1. alerts' \in Nat
    BY <1>2 DEF ReconNext, OnTerminal, CurrentInv
  <2>2. CASE \E p \in Runs : Ends(p)
    BY <1>1, <1>2, <2>1, <2>2 DEF ReconNext, OnTerminal, CurrentInv
  <2>3. CASE \A p \in Runs : ~Ends(p)
    <3>1. StuckDebits' = StuckDebits
      BY <1>2, <2>3, StuckGrows DEF ReconNext, CurrentInv
    <3>2. Delta' = Delta
      BY <1>1, <3>1, CountsStuck DEF CurrentInv, DeltaIsStuck
    <3>3. lastDelta' = lastDelta
      BY <1>2, <2>3 DEF ReconNext, OnTerminal
    <3> QED
      BY <1>1, <2>1, <3>2, <3>3 DEF CurrentInv
  <2> QED
    BY <2>2, <2>3
<1>3. CASE UNCHANGED reconVars
  <2>1. StuckDebits' = StuckDebits
    BY <1>3 DEF reconVars, vars, pipelineVars, recordVars, StuckDebits, RunsThat, Stored
  <2> QED
    BY <1>1, <1>3, <2>1, CountsStuck DEF CurrentInv, DeltaIsStuck, reconVars
<1> QED
  BY <1>2, <1>3

\* While nothing is evicted, the panel that clients were sent last is what
\* GET /api/reconciliation would compute now: no change of the records that
\* matters to the sums goes without a broadcast.
THEOREM PanelIsCurrent ==
    ASSUME MaxRuns <= RequestCap
    PROVE  ReconSpec => []PanelCurrent
<1>1. CurrentInv /\ [ReconNext]_reconVars => CurrentInv'
  BY NextCurrent
<1>2. CurrentInv => PanelCurrent
  BY DEF CurrentInv, PanelCurrent
<1> QED
  BY <1>1, <1>2, InitCurrent, PTL DEF ReconSpec

LEMMA NewStuckAlerts ==
    ASSUME CurrentInv, MaxRuns <= RequestCap, [ReconNext]_reconVars,
           ~(StuckDebits' \subseteq StuckDebits)
    PROVE  alerts' > alerts
<1>1. ReconNext
  BY DEF reconVars, vars, pipelineVars, recordVars, StuckDebits, RunsThat, Stored
<1>2. StuckDebits \subseteq StuckDebits' /\ \E p \in Runs : Ends(p)
  BY <1>1, StuckGrows DEF ReconNext, CurrentInv
<1>3. /\ IsFiniteSet(StuckDebits') /\ Delta' = Cardinality(StuckDebits')
      /\ IsFiniteSet(StuckDebits) /\ Delta = Cardinality(StuckDebits)
  BY CountsStuck, NextPanel DEF CurrentInv, DeltaIsStuck
<1>4. Delta' # Delta /\ Delta' # 0
  BY <1>2, <1>3, FS_Subset, FS_EmptySet
<1> QED
  BY <1>1, <1>2, <1>4 DEF ReconNext, OnTerminal, CurrentInv

\* FR-D3: while nothing is evicted, the step in which a debit gets stuck raises
\* an alert, whatever the delta was before.
THEOREM StuckRaisesAlert ==
    ASSUME MaxRuns <= RequestCap
    PROVE  ReconSpec => StuckIsAlerted
<1>1. CurrentInv /\ [ReconNext]_reconVars => CurrentInv'
  BY NextCurrent
<1>2. CurrentInv /\ [ReconNext]_reconVars =>
         [~(StuckDebits' \subseteq StuckDebits) => alerts' > alerts]_reconVars
  BY NewStuckAlerts
<1> QED
  BY <1>1, <1>2, InitCurrent, PTL DEF ReconSpec, StuckIsAlerted
=============================================================================
