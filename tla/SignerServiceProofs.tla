------------------------ MODULE SignerServiceProofs ------------------------
(***************************************************************************)
(* Theorems about SignerService, for all runs and requests, every quorum,  *)
(* window and value of the bounds: what is signed, that nonces are used as *)
(* NonceUse asks, what the ledger says of a release, and what is posted.   *)
(***************************************************************************)
EXTENDS SignerService, FiniteSetTheorems, WellFoundedInduction, TLAPS

USE RunsAssumption, MembersAssumption, LimitsAssumption, SignerBoundsAssumption

-----------------------------------------------------------------------------
(* Whatever a caller puts into a body, if it passes the checks its message *)
(* is the one token that the bank's debit for the request authorises.      *)

TokenOf(p) == BuildTokenPayload(BankDebit(RequestOf[p]))

\* No deviation but Repriced touches what the debit says, and Repriced leaves
\* the bank's signature over the old amount.
LEMMA BodyDebit ==
    ASSUME NEW request \in Requests, NEW body \in Bodies(request)
    PROVE  /\ body.debit.meterId = request.meterId
           /\ body.debit.debitRef = request.requestId
           /\ VerifyBankSignature(body.debit) => body.debit.amountKwh = request.amountKwh
<1> DEFINE honest == HonestBody(request)
           Debit == BankDebit(request)
           Bound == /\ body.debit.meterId = request.meterId
                    /\ body.debit.debitRef = request.requestId
                    /\ VerifyBankSignature(body.debit) => body.debit.amountKwh = request.amountKwh
<1>1. /\ honest = [request |-> request, debit |-> Debit,
                   tokenPayload |-> BuildTokenPayload(Debit),
                   message |-> BuildTokenPayload(Debit)]
      /\ honest.debit = Debit
  BY DEF HonestBody
<1>2. /\ Debit.meterId = request.meterId
      /\ Debit.debitRef = request.requestId
      /\ Debit.amountKwh = request.amountKwh
      /\ Debit.bankSignature.amountKwh = request.amountKwh
      /\ Debit = [Debit EXCEPT !.meterId = request.meterId]
  BY DEF BankDebit
<1>3. \A k : /\ [Debit EXCEPT !.amountKwh = k, !.amount = priceZar(k)].bankSignature.amountKwh
                  = request.amountKwh
             /\ [Debit EXCEPT !.amountKwh = k, !.amount = priceZar(k)].meterId = request.meterId
             /\ [Debit EXCEPT !.amountKwh = k, !.amount = priceZar(k)].debitRef = request.requestId
             /\ [Debit EXCEPT !.amountKwh = k, !.amount = priceZar(k)].amountKwh = k
  BY DEF BankDebit
<1>4. /\ [Debit EXCEPT !.bankSignature = NoSignature].meterId = request.meterId
      /\ [Debit EXCEPT !.bankSignature = NoSignature].debitRef = request.requestId
      /\ [Debit EXCEPT !.bankSignature = NoSignature].amountKwh = request.amountKwh
  BY DEF BankDebit
<1>5. body \in DeviationsFrom(honest)
  BY DEF Bodies
<1> HIDE DEF honest, Debit
<1> SUFFICES Bound
  OBVIOUS
<1>6. ASSUME body.debit = Debit PROVE Bound
  BY <1>2, <1>6
<1>7. CASE body \in {honest, Retold(honest, Fresh(honest.tokenPayload)),
                     [honest EXCEPT !.message = Fresh(honest.tokenPayload)]}
  <2>1. body.debit = Debit
    BY <1>1, <1>7 DEF Retold
  <2> QED
    BY <2>1, <1>6
<1>8. CASE body = [honest EXCEPT !.debit.bankSignature = NoSignature]
  <2>1. body.debit = [Debit EXCEPT !.bankSignature = NoSignature]
    BY <1>1, <1>8
  <2> QED
    BY <2>1, <1>4
<1>9. CASE body \in Reworded(honest)
  <2>1. PICK other \in Requests : body = [honest EXCEPT !.request = other]
    BY <1>9 DEF Reworded
  <2>2. body.debit = Debit
    BY <2>1, <1>1
  <2> QED
    BY <2>2, <1>6
<1>10. CASE body \in Retargeted(honest)
  <2>1. PICK m \in MeterIds :
           body \in {[Retold(honest, [honest.tokenPayload EXCEPT !.meterId = m])
                         EXCEPT !.request.meterId = n] : n \in MeterIds}
    BY <1>10 DEF Retargeted
  <2>2. PICK n \in MeterIds :
           body = [Retold(honest, [honest.tokenPayload EXCEPT !.meterId = m])
                      EXCEPT !.request.meterId = n]
    BY <2>1
  <2>3. body.debit = Debit
    BY <2>2, <1>1 DEF Retold
  <2> QED
    BY <2>3, <1>6
<1>11. CASE body \in Repriced(honest)
  <2>1. PICK k \in AmountsKwh :
           body = [honest EXCEPT !.debit.amountKwh = k, !.debit.amount = priceZar(k)]
    BY <1>11 DEF Repriced
  <2>2. body.debit = [Debit EXCEPT !.amountKwh = k, !.amount = priceZar(k)]
    BY <1>1, <2>1
  <2>3. VerifyBankSignature(body.debit) => k = request.amountKwh
    BY <2>2, <1>3 DEF VerifyBankSignature, SignedPayload
  <2> QED
    BY <2>2, <2>3, <1>3
<1> HIDE DEF Bound
<1>12. \/ body \in {honest, Retold(honest, Fresh(honest.tokenPayload)),
                   [honest EXCEPT !.message = Fresh(honest.tokenPayload)],
                   [honest EXCEPT !.debit.bankSignature = NoSignature]}
       \/ body \in Reworded(honest)
       \/ body \in Retargeted(honest)
       \/ body \in Repriced(honest)
  BY <1>5, Zenon DEF DeviationsFrom
<1>13. CASE body \in {honest, Retold(honest, Fresh(honest.tokenPayload)),
                      [honest EXCEPT !.message = Fresh(honest.tokenPayload)],
                      [honest EXCEPT !.debit.bankSignature = NoSignature]}
  BY <1>7, <1>8, <1>13, Zenon
<1> QED
  BY <1>9, <1>10, <1>11, <1>12, <1>13, Zenon

LEMMA BodyBound ==
    ASSUME NEW p \in Runs, NEW body \in Bodies(RequestOf[p]), RunWall1TokenChecks(body)
    PROVE  body.message = TokenOf(p)
<1>1. RequestOf[p] \in Requests
  OBVIOUS
<1>2. /\ body.message = BuildTokenPayload(body.debit)
      /\ VerifyBankSignature(body.debit)
  BY DEF RunWall1TokenChecks, ValidateDebitForRequest
<1> QED
  BY <1>1, <1>2, BodyDebit DEF TokenOf, BuildTokenPayload, BankDebit
-----------------------------------------------------------------------------
(* The steps, by what they leave alone.                                    *)

\* Steps that have nothing to do with what is posted and validated.
AwayStep ==
    \/ \E h \in awaiting : \/ ReadForPartial(h) \/ NoQuorum(h) \/ Round2Sign(h)
                           \/ ReadThrows(h)
    \/ \E h \in cosigning : ReadForReceipt(h) \/ CosignFails(h) \/ FragmentSign(h)
    \/ \E p \in Runs : Round1(p)
    \/ \E r \in RequestIds : Round2Rejected(r)
    \/ \E r \in RequestIds, p \in Runs, n \in Nonces : Round2Begin(r, p, n)
    \/ \E p, q \in Runs : CosignBegin(p, q)
    \/ ToggleOnline \/ ToggleRefuse \/ Tick \/ Sweep
    \/ UNCHANGED vars

\* Steps of validate handlers, of the other members and of the ledger.
PostStep ==
    \/ \E p \in Runs : ValidateCached(p) \/ ValidateBegin(p)
    \/ \E h \in posting : Autofill(h) \/ Validated(h) \/ Attested(h) \/ PostThrows(h)
    \/ \E x \in lost : LostLands(x)
    \/ \E m \in Others, p \in Runs, verdict \in Verdicts : OtherAttests(m, p, verdict)
    \/ OtherTraffic

LEMMA Steps == [Next]_vars => AwayStep \/ PostStep \/ Restart
BY Zenon DEF Next, HandlerStep, CallStep, WorldStep, AwayStep, PostStep

LEMMA AwayKeeps ==
    ASSUME AwayStep
    PROVE  UNCHANGED <<ledger, lost, posting, queue, validates, approvedOnChain>>
<1>1. CASE \E h \in awaiting : ReadForPartial(h) \/ NoQuorum(h) \/ Round2Sign(h) \/ ReadThrows(h)
  BY <1>1 DEF ReadForPartial, NoQuorum, Round2Sign, ReadThrows, callerVars, ledgerVars
<1>2. CASE \E h \in cosigning : ReadForReceipt(h) \/ CosignFails(h) \/ FragmentSign(h)
  BY <1>2 DEF ReadForReceipt, CosignFails, FragmentSign, callerVars, ledgerVars
<1>3. CASE (\E p \in Runs : Round1(p)) \/ (\E r \in RequestIds : Round2Rejected(r))
  BY <1>3 DEF Round1, Round2Rejected, callerVars, ledgerVars
<1>4. CASE \/ \E r \in RequestIds, p \in Runs, n \in Nonces : Round2Begin(r, p, n)
           \/ \E p, q \in Runs : CosignBegin(p, q)
  BY <1>4 DEF Round2Begin, CosignBegin, ledgerVars
<1>5. CASE ToggleOnline \/ ToggleRefuse \/ Tick \/ Sweep \/ UNCHANGED vars
  BY <1>5 DEF ToggleOnline, ToggleRefuse, Tick, Sweep, vars, processVars, callerVars, ledgerVars
<1> QED
  BY <1>1, <1>2, <1>3, <1>4, <1>5 DEF AwayStep

LEMMA PostKeeps ==
    ASSUME PostStep
    PROVE  UNCHANGED <<sessions, awaiting, cosigning, madeFor, overlapped, calls, uses,
                       released>>
<1>1. CASE \E p \in Runs : ValidateCached(p) \/ ValidateBegin(p)
  BY <1>1 DEF ValidateCached, ValidateBegin, ValidateCalled, processVars, readVars, outcomeVars
<1>2. CASE \E h \in posting : Autofill(h) \/ Validated(h) \/ Attested(h) \/ PostThrows(h)
  BY <1>2 DEF Autofill, Validated, Attested, PostThrows, callerVars, readVars, outcomeVars
<1>3. CASE \/ \E x \in lost : LostLands(x)
           \/ \E m \in Others, p \in Runs, verdict \in Verdicts : OtherAttests(m, p, verdict)
           \/ OtherTraffic
  BY <1>3 DEF LostLands, OtherAttests, OtherTraffic, processVars, callerVars, readVars, outcomeVars
<1> QED
  BY <1>1, <1>2, <1>3 DEF PostStep
-----------------------------------------------------------------------------
(* The ledger only grows.                                                  *)

Entries == [from : Members \cup {"stranger"}, run : Runs \cup {NoRun},
            verdict : Verdicts \cup {"none"}]

PostOK(h) ==
    /\ h.task[1] \in Runs /\ h.verdict \in Verdicts /\ h.filled \in Int /\ h.landed \in BOOLEAN
    /\ h = [task |-> h.task, verdict |-> h.verdict, filled |-> h.filled, landed |-> h.landed]

LedgerInv ==
    /\ ledger \in Seq(Entries)
    /\ \A h \in posting : PostOK(h)
    /\ \A x \in lost : x.task[1] \in Runs /\ x.verdict \in Verdicts /\ x.filled \in Int

\* Nothing is added, or one transaction at the end.
Grows == UNCHANGED ledger \/ \E e \in Entries : ledger' = Append(ledger, e)

LEMMA LedgerInit == Init => LedgerInv
BY DEF Init, LedgerInv

LEMMA GrowsType == ASSUME LedgerInv, Grows PROVE ledger' \in Seq(Entries)
BY DEF LedgerInv, Grows

LEMMA NoiseIsForeign == Noise.from # Me /\ Noise \in Entries
<1>1. Noise.from = "stranger" /\ Noise \in Entries
  BY DEF Noise, Entries
<1>2. "stranger" # Me
  OBVIOUS
<1> QED
  BY <1>1, <1>2

LEMMA OwnEntry ==
    ASSUME NEW x, x.task[1] \in Runs, x.verdict \in Verdicts
    PROVE  [from |-> Me, run |-> x.task[1], verdict |-> x.verdict] \in Entries
BY DEF Entries, Members

LEMMA OtherEntry ==
    ASSUME NEW m \in Others, NEW p \in Runs, NEW verdict \in Verdicts
    PROVE  /\ [from |-> m, run |-> p, verdict |-> verdict] \in Entries
           /\ [from |-> m, run |-> p, verdict |-> verdict].from # Me
<1>1. m # Me
  OBVIOUS
<1> QED
  BY <1>1 DEF Entries, Members

LEMMA LedgerGrows == ASSUME LedgerInv, [Next]_vars PROVE Grows
<1>1. CASE AwayStep
  BY <1>1, AwayKeeps DEF Grows
<1>2. CASE Restart
  BY <1>2 DEF Restart, Grows
<1>3. CASE \E p \in Runs : ValidateCached(p) \/ ValidateBegin(p)
  BY <1>3 DEF ValidateCached, ValidateBegin, ledgerVars, Grows
<1>4. CASE \E h \in posting : Autofill(h) \/ Attested(h) \/ PostThrows(h)
  BY <1>4 DEF Autofill, Attested, PostThrows, ledgerVars, Grows
<1>5. ASSUME NEW h \in posting, Validated(h) PROVE Grows
  BY <1>5, OwnEntry DEF Validated, Lands, LedgerInv, PostOK, Grows
<1>6. ASSUME NEW x \in lost, LostLands(x) PROVE Grows
  BY <1>6, OwnEntry DEF LostLands, Lands, LedgerInv, Grows
<1>7. ASSUME NEW m \in Others, NEW p \in Runs, NEW verdict \in Verdicts,
             OtherAttests(m, p, verdict)
      PROVE  Grows
  BY <1>7, OtherEntry DEF OtherAttests, Grows
<1>8. CASE OtherTraffic
  BY <1>8, NoiseIsForeign DEF OtherTraffic, Grows
<1> QED
  BY <1>1, <1>2, <1>3, <1>4, <1>5, <1>6, <1>7, <1>8, Steps DEF PostStep

LEMMA LandedRecord ==
    ASSUME NEW task, NEW verdict, NEW filled, NEW landed, NEW h,
           h = [task |-> task, verdict |-> verdict, filled |-> filled, landed |-> landed]
    PROVE  [h EXCEPT !.landed = TRUE] =
              [task |-> task, verdict |-> verdict, filled |-> filled, landed |-> TRUE]
<1>1. \A now : [h EXCEPT !.landed = now] =
                [task |-> task, verdict |-> verdict, filled |-> filled, landed |-> now]
  OBVIOUS
<1> QED
  BY <1>1, Zenon

LEMMA PostedOK == ASSUME NEW p \in Runs PROVE PostOK(Posted(p)) /\ Posted(p).task = NextTask(p)
                                              /\ Posted(p).filled = -1 /\ ~Posted(p).landed
BY DEF Posted, PostOK, NextTask, Verdict, Verdicts

LEMMA LedgerNext == LedgerInv /\ [Next]_vars => LedgerInv'
<1> SUFFICES ASSUME LedgerInv, [Next]_vars PROVE LedgerInv'
  OBVIOUS
<1>1. ledger' \in Seq(Entries)
  BY LedgerGrows, GrowsType
<1>2. ASSUME posting' \subseteq posting, UNCHANGED lost PROVE LedgerInv'
  BY <1>1, <1>2 DEF LedgerInv
<1>3. CASE AwayStep
  BY <1>2, <1>3, AwayKeeps
<1>4. CASE Restart
  <2>1. posting' = {} /\ lost' = lost \cup {Submission(h) : h \in {g \in posting : g.filled # -1}}
    BY <1>4 DEF Restart
  <2> QED
    BY <1>1, <2>1 DEF LedgerInv, Submission, PostOK
<1>5. ASSUME NEW p \in Runs, ValidateBegin(p) PROVE LedgerInv'
  <2>1. posting' = posting \cup {Posted(p)} /\ UNCHANGED lost
    BY <1>5 DEF ValidateBegin, ledgerVars
  <2> QED
    BY <1>1, <2>1, PostedOK DEF LedgerInv
<1>6. ASSUME NEW h \in posting, Autofill(h) PROVE LedgerInv'
  <2>1. PICK s \in OwnSequence .. OwnSequence + Cardinality(lost) :
           posting' = (posting \ {h}) \cup {[h EXCEPT !.filled = s]}
    BY <1>6 DEF Autofill
  <2>2. UNCHANGED lost /\ s \in Int
    BY <1>6, <2>1 DEF Autofill, ledgerVars
  <2>3. PostOK([h EXCEPT !.filled = s])
    BY <2>2 DEF LedgerInv, PostOK
  <2> QED
    BY <1>1, <2>1, <2>2, <2>3 DEF LedgerInv
<1>7. ASSUME NEW h \in posting, Validated(h) PROVE LedgerInv'
  <2>1. /\ posting' = (posting \ {h}) \cup {[h EXCEPT !.landed = TRUE]}
        /\ UNCHANGED lost
    BY <1>7 DEF Validated
  <2>2. PostOK([h EXCEPT !.landed = TRUE])
    <3>1. PostOK(h)
      BY DEF LedgerInv
    <3> QED
      BY <3>1, LandedRecord DEF PostOK
  <2> QED
    BY <1>1, <2>1, <2>2 DEF LedgerInv
<1>8. ASSUME NEW h \in posting, Attested(h) \/ PostThrows(h) PROVE LedgerInv'
  <2>1. posting' \subseteq posting /\ lost' \subseteq lost \cup {Submission(h)}
    BY <1>8 DEF Attested, PostThrows, Dequeue, ledgerVars
  <2>2. /\ Submission(h).task[1] \in Runs /\ Submission(h).verdict \in Verdicts
        /\ Submission(h).filled \in Int
    BY DEF Submission, LedgerInv, PostOK
  <2> QED
    BY <1>1, <2>1, <2>2 DEF LedgerInv
<1>9. CASE \/ \E p \in Runs : ValidateCached(p)
           \/ \E x \in lost : LostLands(x)
           \/ \E m \in Others, p \in Runs, verdict \in Verdicts : OtherAttests(m, p, verdict)
           \/ OtherTraffic
  BY <1>2, <1>9 DEF ValidateCached, LostLands, OtherAttests, OtherTraffic, processVars,
                    ledgerVars
<1> QED
  BY <1>3, <1>4, <1>5, <1>6, <1>7, <1>8, <1>9, Steps DEF PostStep

LEMMA LedgerKept ==
    ASSUME LedgerInv, Grows
    PROVE  /\ Len(ledger) \in Nat /\ Len(ledger') \in Nat /\ Len(ledger) <= Len(ledger')
           /\ DOMAIN ledger = 1 .. Len(ledger) /\ DOMAIN ledger' = 1 .. Len(ledger')
           /\ \A i \in 1 .. Len(ledger) : ledger'[i] = ledger[i]
BY DEF LedgerInv, Grows

LEMMA MaxIn ==
    ASSUME NEW k \in Nat, NEW S, S \subseteq 1 .. k, S # {}
    PROVE  Max(S) \in S /\ \A y \in S : Max(S) >= y
<1> DEFINE Below == {k - i : i \in S}
<1>0. \A i \in S : i \in Nat /\ k - i \in Nat
  OBVIOUS
<1>1. Below \subseteq Nat /\ Below # {}
  BY <1>0
<1>2. PICK x \in Below : \A y \in Below : ~ (<<y, x>> \in OpToRel(<, Nat))
  BY <1>1, NatLessThanWellFounded, WFMin, Zenon
<1>3. \A y \in Below : ~ (y < x)
  BY <1>1, <1>2 DEF OpToRel
<1>4. PICK i \in S : x = k - i
  OBVIOUS
<1>5. \A y \in S : i >= y
  <2> SUFFICES ASSUME NEW y \in S PROVE i >= y
    OBVIOUS
  <2>1. k - y \in Below
    OBVIOUS
  <2>2. ~ (k - y < k - i)
    BY <2>1, <1>3, <1>4
  <2> QED
    BY <2>2, <1>0
<1> QED
  BY <1>5, Zenon DEF Max

-----------------------------------------------------------------------------
(* Sessions, calls and nonces.  A session keeps nonces that round 1 made for *)
(* its own requestId, a call what it read of its session, and a pair that is *)
(* kept or does not exist has made no partial, unless two calls overlapped.  *)

SessionOK(s) == s = NoSession \/ s \in [nonces : Nonces, age : Nat]

HandlerOK(h) ==
    /\ h = [call |-> h.call, session |-> h.session, run |-> h.run, nonces |-> h.nonces,
            quoted |-> h.quoted, message |-> h.message, asked |-> h.asked,
            found |-> h.found, tries |-> h.tries]
    /\ h.session \in RequestIds /\ h.run \in Runs
    /\ h.nonces \in Nonces /\ h.quoted \in Nonces
    /\ h.message = TokenOf(h.run)

TypesInv ==
    /\ sessions \in [RequestIds -> [nonces : Nonces, age : Nat] \cup {NoSession}]
    /\ \A h \in awaiting : HandlerOK(h)
    /\ madeFor \in [Nonces -> Runs \cup {NoRun}]
    /\ overlapped \subseteq Nonces
    /\ uses \in [Nonces -> Nat]

OwnedInv ==
    \A r \in RequestIds : sessions[r] # NoSession =>
        /\ madeFor[sessions[r].nonces] # NoRun
        /\ SessionOf(madeFor[sessions[r].nonces]) = r

CallsInv ==
    /\ \A h \in awaiting :
          madeFor[h.nonces] # NoRun /\ SessionOf(madeFor[h.nonces]) = h.session
    /\ \A g, h \in awaiting :
          /\ CommitmentMatches(g) /\ CommitmentMatches(h)
          /\ g.nonces = h.nonces /\ g.nonces \notin overlapped
          => g = h

InSession == {n \in Nonces : \E r \in RequestIds : sessions[r].nonces = n}
InCall == {n \in Nonces : \E h \in awaiting : h.nonces = n /\ h.quoted = n}

UnusedInv ==
    /\ \A n \in overlapped : madeFor[n] # NoRun
    /\ \A n \in Nonces \ overlapped :
          madeFor[n] = NoRun \/ n \in InSession \cup InCall => uses[n] = 0

NoncesInv == TypesInv /\ OwnedInv /\ CallsInv /\ UnusedInv /\ PartialsAreBound

LEMMA SessionOfType == \A p \in Runs : SessionOf(p) \in RequestIds
BY DEF SessionOf, Requests

LEMMA PassingBound == \A p \in Runs : \A message \in Passing[p] : message = TokenOf(p)
BY BodyBound DEF Passing

LEMMA NoneKept == \A n \in Nonces : NoSession.nonces # n
BY DEF NoSession, Nonces

LEMMA SweptSession ==
    \A r \in RequestIds : Swept[r] = sessions[r] \/ Swept[r] = NoSession
BY DEF Swept

\* A step that only drops sessions, or lets them age.
Shrinks(kept) ==
    /\ kept \in [RequestIds -> [nonces : Nonces, age : Nat] \cup {NoSession}]
    /\ \A r \in RequestIds : kept[r] # NoSession =>
          sessions[r] # NoSession /\ kept[r].nonces = sessions[r].nonces

LEMMA SweptShrinks == ASSUME TypesInv PROVE Shrinks(Swept)
<1>1. Swept \in [RequestIds -> [nonces : Nonces, age : Nat] \cup {NoSession}]
  BY DEF Swept, TypesInv
<1> QED
  BY <1>1, SweptSession DEF Shrinks

LEMMA DropShrinks ==
    ASSUME NEW kept, NEW r \in RequestIds, Shrinks(kept)
    PROVE  Shrinks(Drop(kept, r)) /\ Drop(kept, r)[r] = NoSession
BY DEF Shrinks, Drop

LEMMA SameShrinks == ASSUME TypesInv PROVE Shrinks(sessions)
BY DEF Shrinks, TypesInv

LEMMA TickShrinks == ASSUME TypesInv, Tick PROVE Shrinks(sessions')
<1>1. sessions' \in [RequestIds -> [nonces : Nonces, age : Nat] \cup {NoSession}]
  BY DEF Tick, TypesInv
<1>2. \A r \in RequestIds : sessions'[r] # NoSession =>
         sessions[r] # NoSession /\ sessions'[r].nonces = sessions[r].nonces
  BY DEF Tick, TypesInv
<1> QED
  BY <1>1, <1>2 DEF Shrinks

LEMMA InSessionShrinks == ASSUME Shrinks(sessions') PROVE InSession' \subseteq InSession
<1> SUFFICES ASSUME NEW n \in Nonces, NEW r \in RequestIds, sessions'[r].nonces = n
             PROVE  sessions[r].nonces = n
  BY DEF InSession
<1>1. sessions'[r] # NoSession
  BY NoneKept
<1> QED
  BY <1>1 DEF Shrinks

LEMMA NoncesInit == Init => NoncesInv
<1> SUFFICES ASSUME Init PROVE NoncesInv
  OBVIOUS
<1>1. TypesInv
  BY DEF Init, TypesInv
<1>2. OwnedInv /\ CallsInv /\ PartialsAreBound
  BY DEF Init, OwnedInv, CallsInv, PartialsAreBound
<1>3. UnusedInv
  BY DEF Init, UnusedInv
<1> QED
  BY <1>1, <1>2, <1>3 DEF NoncesInv

\* Most steps drop sessions and calls and leave the rest alone.
LEMMA QuietStep ==
    ASSUME NoncesInv, Shrinks(sessions'), awaiting' \subseteq awaiting,
           UNCHANGED <<madeFor, overlapped, uses>>, PartialsAreBound'
    PROVE  NoncesInv'
<1>1. TypesInv'
  BY DEF NoncesInv, TypesInv, Shrinks
<1>2. OwnedInv'
  BY DEF NoncesInv, OwnedInv, Shrinks
<1>3. CallsInv'
  BY DEF NoncesInv, CallsInv
<1>4. InSession' \subseteq InSession /\ InCall' \subseteq InCall
  BY InSessionShrinks DEF InCall
<1>5. UnusedInv'
  BY <1>4 DEF NoncesInv, UnusedInv
<1> QED
  BY <1>1, <1>2, <1>3, <1>5 DEF NoncesInv

\* The steps that are not round 1, nor about a call that awaits the ledger.
IdleStep ==
    \/ \E r \in RequestIds : Round2Rejected(r)
    \/ \E p, q \in Runs : CosignBegin(p, q)
    \/ \E h \in cosigning : ReadForReceipt(h) \/ CosignFails(h)
    \/ ToggleOnline \/ ToggleRefuse \/ Tick \/ Sweep \/ Restart \/ PostStep
    \/ UNCHANGED vars

LEMMA IdleShrinks ==
    ASSUME TypesInv, IdleStep
    PROVE  /\ Shrinks(sessions') /\ awaiting' \subseteq awaiting
           /\ UNCHANGED <<madeFor, overlapped, uses, released>>
<1>1. Shrinks(sessions) /\ Shrinks(Swept)
  BY SweptShrinks, SameShrinks
<1>2. ASSUME NEW r \in RequestIds, Round2Rejected(r)
      PROVE  Shrinks(sessions') /\ UNCHANGED <<awaiting, callerVars, outcomeVars>>
  BY <1>1, <1>2, DropShrinks DEF Round2Rejected, readVars
<1>3. CASE \/ \E p, q \in Runs : CosignBegin(p, q)
           \/ \E h \in cosigning : ReadForReceipt(h) \/ CosignFails(h)
           \/ ToggleOnline \/ ToggleRefuse
  BY <1>1, <1>3 DEF CosignBegin, ReadForReceipt, CosignFails, ToggleOnline, ToggleRefuse,
                    readVars, callerVars, outcomeVars
<1>4. CASE Tick \/ Sweep
  BY <1>1, <1>4, TickShrinks DEF Tick, Sweep, readVars, callerVars, outcomeVars
<1>5. CASE Restart
  BY <1>5 DEF Restart, Shrinks, callerVars, outcomeVars
<1>6. CASE PostStep \/ UNCHANGED vars
  BY <1>1, <1>6, PostKeeps DEF vars, processVars, readVars, callerVars, outcomeVars
<1> QED
  BY <1>2, <1>3, <1>4, <1>5, <1>6 DEF IdleStep, callerVars, outcomeVars

LEMMA IdleKeeps == ASSUME NoncesInv, IdleStep PROVE NoncesInv'
<1>1. /\ Shrinks(sessions') /\ awaiting' \subseteq awaiting
      /\ UNCHANGED <<madeFor, overlapped, uses, released>>
  BY IdleShrinks DEF NoncesInv
<1>2. PartialsAreBound'
  BY <1>1 DEF NoncesInv, PartialsAreBound
<1> QED
  BY <1>1, <1>2, QuietStep

LEMMA Round1Step == ASSUME NoncesInv, NEW p \in Runs, Round1(p) PROVE NoncesInv'
<1>1. PICK n \in Nonces :
         /\ madeFor[n] = NoRun
         /\ madeFor' = [madeFor EXCEPT ![n] = p]
         /\ sessions' = [Swept EXCEPT ![SessionOf(p)] = [nonces |-> n, age |-> 0]]
         /\ UNCHANGED <<awaiting, overlapped, uses, released>>
  BY DEF Round1, readVars, outcomeVars
<1>2. Shrinks(Swept) /\ p # NoRun /\ SessionOf(p) \in RequestIds
  BY SweptShrinks, SessionOfType DEF NoncesInv
<1>3. TypesInv'
  BY <1>1, <1>2 DEF NoncesInv, TypesInv, Shrinks
<1>4. OwnedInv'
  BY <1>1, <1>2 DEF NoncesInv, TypesInv, OwnedInv, Shrinks
<1>5. CallsInv'
  <2>1. \A h \in awaiting : h.nonces \in Nonces /\ h.nonces # n
    BY <1>1 DEF NoncesInv, TypesInv, HandlerOK, CallsInv
  <2> QED
    BY <1>1, <2>1 DEF NoncesInv, TypesInv, CallsInv
<1>6. PartialsAreBound'
  BY <1>1 DEF NoncesInv, PartialsAreBound
<1>7. InSession' \subseteq InSession \cup {n} /\ InCall' = InCall
  <2>1. InCall' = InCall
    BY <1>1 DEF InCall
  <2>2. ASSUME NEW k \in Nonces, NEW r \in RequestIds, sessions'[r].nonces = k, k # n
        PROVE  sessions[r].nonces = k
    <3>1. Swept[r].nonces = k /\ Swept[r] # NoSession
      BY <1>1, <1>2, <2>2, NoneKept DEF Shrinks
    <3> QED
      BY <1>2, <3>1 DEF Shrinks
  <2> QED
    BY <2>1, <2>2 DEF InSession
<1>8. UnusedInv'
  BY <1>1, <1>2, <1>7 DEF NoncesInv, TypesInv, UnusedInv
<1> QED
  BY <1>3, <1>4, <1>5, <1>6, <1>8 DEF NoncesInv

\* A call of round 2, by what it reads before it awaits the ledger.
Begins(r, n, new) ==
    /\ Swept[r] # NoSession
    /\ new.session = r /\ new.nonces = Swept[r].nonces /\ new.quoted = n
    /\ HandlerOK(new)
    /\ awaiting' = awaiting \cup {new}
    /\ overlapped' = IF Swept[r].nonces = n /\ Overlap(n)
                     THEN overlapped \cup {n} ELSE overlapped
    /\ sessions' = Swept
    /\ UNCHANGED <<madeFor, uses, released>>

LEMMA BeginsWhat ==
    ASSUME TypesInv, NEW r \in RequestIds, NEW p \in Runs, NEW n \in Nonces, Round2Begin(r, p, n)
    PROVE  \E new : Begins(r, n, new)
<1>1. PICK message \in Passing[p] : awaiting' = awaiting \cup {SigningCall(r, p, n, message)}
  BY DEF Round2Begin
<1>2. Swept[r] # NoSession /\ Swept[r].nonces \in Nonces
  BY SweptShrinks DEF Round2Begin, Shrinks
<1> DEFINE new == SigningCall(r, p, n, message)
<1>3. message = TokenOf(p)
  BY <1>1, PassingBound
<1>4. /\ new.session = r /\ new.nonces = Swept[r].nonces /\ new.quoted = n
      /\ HandlerOK(new)
  BY <1>2, <1>3 DEF SigningCall, HandlerOK
<1> HIDE DEF new
<1>5. /\ overlapped' = IF Swept[r].nonces = n /\ Overlap(n)
                       THEN overlapped \cup {n} ELSE overlapped
      /\ sessions' = Swept
      /\ UNCHANGED <<madeFor, uses, released>>
  BY DEF Round2Begin, outcomeVars
<1>6. awaiting' = awaiting \cup {new}
  BY <1>1 DEF new
<1>7. Begins(r, n, new)
  BY <1>2, <1>4, <1>5, <1>6 DEF Begins
<1> QED
  BY <1>7

LEMMA BeginStep ==
    ASSUME NoncesInv, NEW r \in RequestIds, NEW n \in Nonces, NEW new, Begins(r, n, new)
    PROVE  NoncesInv'
<1> DEFINE own == Swept[r].nonces
<1>1. Shrinks(Swept) /\ Swept[r] # NoSession
  BY SweptShrinks DEF NoncesInv, Begins
<1>2. /\ own \in Nonces /\ own = sessions[r].nonces
      /\ madeFor[own] # NoRun /\ SessionOf(madeFor[own]) = r
  BY <1>1 DEF Shrinks, NoncesInv, OwnedInv
<1> HIDE DEF own
<1>3. overlapped \subseteq overlapped' /\ overlapped' \subseteq overlapped \cup {own}
  BY DEF Begins, own
<1>4. TypesInv'
  BY <1>1, <1>2, <1>3 DEF Begins, Shrinks, NoncesInv, TypesInv
<1>5. OwnedInv'
  BY <1>1 DEF Begins, Shrinks, NoncesInv, OwnedInv
<1>6. CallsInv'
  <2>1. new.nonces = own /\ new.session = r /\ awaiting' = awaiting \cup {new} /\ UNCHANGED madeFor
    BY DEF Begins, own
  <2>2. \A h \in awaiting' :
           madeFor'[h.nonces] # NoRun /\ SessionOf(madeFor'[h.nonces]) = h.session
    BY <1>2, <2>1 DEF NoncesInv, CallsInv
  <2>3. ASSUME NEW h \in awaiting, CommitmentMatches(h), CommitmentMatches(new),
               h.nonces = new.nonces
        PROVE  h.nonces \in overlapped'
    <3>1. new.quoted = n /\ own = n /\ h.nonces = n
      BY <2>1, <2>3 DEF Begins, CommitmentMatches
    <3>2. Overlap(n)
      BY <2>3, <3>1 DEF Overlap
    <3> QED
      BY <3>1, <3>2 DEF Begins, own
  <2>4. \A g, h \in awaiting' :
           /\ CommitmentMatches(g) /\ CommitmentMatches(h)
           /\ g.nonces = h.nonces /\ g.nonces \notin overlapped'
           => g = h
    BY <1>3, <2>1, <2>3 DEF NoncesInv, CallsInv
  <2> QED
    BY <2>2, <2>4 DEF CallsInv, CommitmentMatches
<1>7. PartialsAreBound'
  BY DEF Begins, NoncesInv, PartialsAreBound
<1>8. InSession' \subseteq InSession /\ InCall' \subseteq InCall \cup InSession
  <2>1. InSession' \subseteq InSession
    BY <1>1, InSessionShrinks DEF Begins
  <2>2. own \in InSession
    BY <1>2 DEF InSession
  <2>3. InCall' \subseteq InCall \cup {own}
    BY DEF InCall, Begins, own
  <2> QED
    BY <2>1, <2>2, <2>3
<1>9. UnusedInv'
  BY <1>2, <1>3, <1>8 DEF Begins, NoncesInv, UnusedInv
<1> QED
  BY <1>4, <1>5, <1>6, <1>7, <1>9 DEF NoncesInv

LEMMA ReadRecord ==
    ASSUME NEW call, NEW session, NEW run, NEW nonces, NEW quoted, NEW message, NEW asked,
           NEW found, NEW tries, NEW read, NEW more, NEW h,
           h = [call |-> call, session |-> session, run |-> run, nonces |-> nonces,
                quoted |-> quoted, message |-> message, asked |-> asked, found |-> found,
                tries |-> tries]
    PROVE  [h EXCEPT !.found = read, !.tries = more] =
              [call |-> call, session |-> session, run |-> run, nonces |-> nonces,
               quoted |-> quoted, message |-> message, asked |-> asked, found |-> read,
               tries |-> more]
<1>1. PICK g : g = [call |-> call, session |-> session, run |-> run, nonces |-> nonces,
                    quoted |-> quoted, message |-> message, asked |-> asked,
                    found |-> read, tries |-> tries]
  OBVIOUS
<1>2. [h EXCEPT !.found = read] = g
  BY <1>1
<1>3. [g EXCEPT !.tries = more] =
         [call |-> call, session |-> session, run |-> run, nonces |-> nonces,
          quoted |-> quoted, message |-> message, asked |-> asked, found |-> read,
          tries |-> more]
  BY <1>1
<1>4. [h EXCEPT !.found = read, !.tries = more] = [[h EXCEPT !.found = read] EXCEPT !.tries = more]
  OBVIOUS
<1> QED
  BY <1>2, <1>3, <1>4

LEMMA ReadFields ==
    ASSUME NEW h, HandlerOK(h)
    PROVE  /\ HandlerOK(ReadNow(h))
           /\ ReadNow(h).session = h.session /\ ReadNow(h).run = h.run
           /\ ReadNow(h).nonces = h.nonces /\ ReadNow(h).quoted = h.quoted
           /\ ReadNow(h).asked = h.asked
           /\ ReadNow(h).found = Cardinality(ReadApprovals(h.run))
<1>1. PICK read : read = Cardinality(ReadApprovals(h.run))
  OBVIOUS
<1>2. PICK more : more = h.tries + 1
  OBVIOUS
<1>3. ReadNow(h) = [h EXCEPT !.found = read, !.tries = more]
  BY <1>1, <1>2 DEF ReadNow
<1>4. PICK g : g = [call |-> h.call, session |-> h.session, run |-> h.run, nonces |-> h.nonces,
                    quoted |-> h.quoted, message |-> h.message, asked |-> h.asked,
                    found |-> read, tries |-> more]
  OBVIOUS
<1>5. g = ReadNow(h)
  BY <1>3, <1>4, ReadRecord, Zenon DEF HandlerOK
<1>6. /\ HandlerOK(g) /\ g.session = h.session /\ g.run = h.run /\ g.nonces = h.nonces
      /\ g.quoted = h.quoted /\ g.asked = h.asked /\ g.found = read
  BY <1>4 DEF HandlerOK
<1> QED
  BY <1>1, <1>5, <1>6

LEMMA ReadStep == ASSUME NoncesInv, NEW h \in awaiting, ReadForPartial(h) PROVE NoncesInv'
<1>1. /\ awaiting' = (awaiting \ {h}) \cup {ReadNow(h)}
      /\ UNCHANGED <<sessions, madeFor, overlapped, uses, released>>
  BY DEF ReadForPartial, callerVars, outcomeVars
<1>2. /\ HandlerOK(ReadNow(h)) /\ ReadNow(h).session = h.session
      /\ ReadNow(h).nonces = h.nonces /\ ReadNow(h).quoted = h.quoted
  BY ReadFields DEF NoncesInv, TypesInv
<1> DEFINE next == ReadNow(h)
<1> HIDE DEF next
<1>3. /\ awaiting' = (awaiting \ {h}) \cup {next}
      /\ HandlerOK(next) /\ next.session = h.session
      /\ next.nonces = h.nonces /\ next.quoted = h.quoted
  BY <1>1, <1>2 DEF next
<1>4. TypesInv'
  BY <1>1, <1>3 DEF NoncesInv, TypesInv
<1>5. OwnedInv' /\ PartialsAreBound'
  BY <1>1 DEF NoncesInv, OwnedInv, PartialsAreBound
<1>6. CallsInv'
  <2>1. \A g \in awaiting' :
           madeFor'[g.nonces] # NoRun /\ SessionOf(madeFor'[g.nonces]) = g.session
    BY <1>1, <1>3 DEF NoncesInv, CallsInv
  <2>2. CommitmentMatches(next) <=> CommitmentMatches(h)
    BY <1>3 DEF CommitmentMatches
  <2>3. \A g, k \in awaiting' :
           /\ CommitmentMatches(g) /\ CommitmentMatches(k)
           /\ g.nonces = k.nonces /\ g.nonces \notin overlapped
           => g = k
    BY <1>3, <2>2 DEF NoncesInv, CallsInv
  <2> QED
    BY <1>1, <2>1, <2>3 DEF CallsInv, CommitmentMatches
<1>7. InSession' = InSession /\ InCall' \subseteq InCall
  BY <1>1, <1>3 DEF InSession, InCall
<1>8. UnusedInv'
  BY <1>1, <1>7 DEF NoncesInv, UnusedInv
<1> QED
  BY <1>4, <1>5, <1>6, <1>8 DEF NoncesInv

\* Calls that end without a partial.
LEMMA GivesUpStep ==
    ASSUME NoncesInv, NEW h \in awaiting,
           NoQuorum(h) \/ ReadThrows(h) \/ (Round2Sign(h) /\ ~CommitmentMatches(h))
    PROVE  /\ NoncesInv' /\ Shrinks(sessions') /\ awaiting' \subseteq awaiting
           /\ UNCHANGED <<madeFor, overlapped, uses, released>>
<1>1. h.session \in RequestIds
  BY DEF NoncesInv, TypesInv, HandlerOK
<1>2. Shrinks(sessions')
  BY <1>1, SameShrinks, DropShrinks DEF NoQuorum, ReadThrows, Round2Sign, NoncesInv
<1>3. awaiting' \subseteq awaiting /\ UNCHANGED <<madeFor, overlapped, uses, released>>
  BY DEF NoQuorum, ReadThrows, Round2Sign, callerVars, outcomeVars
<1>4. PartialsAreBound'
  BY <1>3 DEF NoncesInv, PartialsAreBound
<1> QED
  BY <1>2, <1>3, <1>4, QuietStep

LEMMA SignedWhat ==
    ASSUME NoncesInv, NEW h \in awaiting, Round2Sign(h), CommitmentMatches(h)
    PROVE  /\ h.nonces \in Nonces /\ h.quoted = h.nonces
           /\ awaiting' = awaiting \ {h} /\ sessions' = Drop(sessions, h.session)
           /\ uses' = [uses EXCEPT ![h.nonces] = @ + 1]
           /\ UNCHANGED <<madeFor, overlapped>>
           /\ Shrinks(sessions')
           /\ h.nonces \notin InSession'
           /\ h.nonces \in overlapped \/ h.nonces \notin InCall'
<1> DEFINE n == h.nonces
           r == h.session
<1>1. n \in Nonces /\ h.quoted = n /\ r \in RequestIds
  BY DEF CommitmentMatches, NoncesInv, TypesInv, HandlerOK
<1>2. SessionOf(madeFor[n]) = r
  BY DEF NoncesInv, CallsInv
<1>3. /\ awaiting' = awaiting \ {h} /\ sessions' = Drop(sessions, r)
      /\ uses' = [uses EXCEPT ![n] = @ + 1] /\ UNCHANGED <<madeFor, overlapped>>
  BY DEF Round2Sign, callerVars
<1>4. Shrinks(sessions') /\ sessions'[r] = NoSession
  BY <1>1, <1>3, SameShrinks, DropShrinks DEF NoncesInv
<1>5. n \notin InSession'
  <2> SUFFICES ASSUME NEW q \in RequestIds, sessions'[q].nonces = n PROVE FALSE
    BY DEF InSession
  <2>1. sessions'[q] # NoSession
    BY <1>1, NoneKept
  <2>2. sessions[q] # NoSession /\ sessions[q].nonces = n
    BY <2>1, <1>4 DEF Shrinks
  <2>3. SessionOf(madeFor[n]) = q
    BY <2>2 DEF NoncesInv, OwnedInv
  <2> QED
    BY <1>2, <1>4, <2>1, <2>3
<1>6. ASSUME n \notin overlapped, n \in InCall' PROVE FALSE
  <2>1. PICK g \in awaiting \ {h} : g.nonces = n /\ g.quoted = n
    BY <1>3, <1>6 DEF InCall
  <2> QED
    BY <1>6, <2>1 DEF NoncesInv, CallsInv, CommitmentMatches
<1> QED
  BY <1>1, <1>3, <1>4, <1>5, <1>6

LEMMA SignStep ==
    ASSUME NoncesInv, NEW h \in awaiting, Round2Sign(h), CommitmentMatches(h)
    PROVE  NoncesInv'
<1>1. /\ h.nonces \in Nonces /\ awaiting' \subseteq awaiting
      /\ uses' = [uses EXCEPT ![h.nonces] = @ + 1]
      /\ UNCHANGED <<madeFor, overlapped>> /\ Shrinks(sessions')
      /\ h.nonces \notin InSession' /\ (h.nonces \in overlapped \/ h.nonces \notin InCall')
  BY SignedWhat
<1>2. TypesInv'
  BY <1>1 DEF NoncesInv, TypesInv, Shrinks
<1>3. OwnedInv'
  BY <1>1 DEF NoncesInv, OwnedInv, Shrinks
<1>4. CallsInv'
  BY <1>1 DEF NoncesInv, CallsInv
<1>5. InSession' \subseteq InSession /\ InCall' \subseteq InCall
  BY <1>1, InSessionShrinks DEF InCall
<1>6. madeFor[h.nonces] # NoRun
  BY DEF NoncesInv, CallsInv
<1>7. \A n \in Nonces : n # h.nonces => uses'[n] = uses[n]
  BY <1>1 DEF NoncesInv, TypesInv
<1>8. UnusedInv'
  BY <1>1, <1>5, <1>6, <1>7 DEF NoncesInv, UnusedInv
<1>9. PartialsAreBound'
  <2>1. h.message = TokenOf(h.run)
    BY DEF NoncesInv, TypesInv, HandlerOK
  <2>2. Release(h, "partial", h.message)
    BY DEF Round2Sign
  <2> QED
    BY <2>1, <2>2 DEF Release, NoncesInv, PartialsAreBound, TokenOf
<1> QED
  BY <1>2, <1>3, <1>4, <1>8, <1>9 DEF NoncesInv

LEMMA FragmentStep ==
    ASSUME NoncesInv, NEW h \in cosigning, FragmentSign(h)
    PROVE  NoncesInv' /\ UNCHANGED <<sessions, awaiting, madeFor, overlapped, uses>>
<1>1. UNCHANGED <<sessions, awaiting, madeFor, overlapped, uses>>
  BY DEF FragmentSign, callerVars
<1>2. PartialsAreBound'
  BY DEF FragmentSign, Release, NoncesInv, PartialsAreBound
<1>3. Shrinks(sessions')
  BY <1>1, SameShrinks DEF NoncesInv
<1> QED
  BY <1>1, <1>2, <1>3, QuietStep

LEMMA NonceSteps ==
    [Next]_vars => \/ IdleStep
                   \/ \E p \in Runs : Round1(p)
                   \/ \E r \in RequestIds, p \in Runs, n \in Nonces : Round2Begin(r, p, n)
                   \/ \E h \in awaiting : \/ ReadForPartial(h) \/ NoQuorum(h) \/ Round2Sign(h)
                                          \/ ReadThrows(h)
                   \/ \E h \in cosigning : FragmentSign(h)
BY Steps, Zenon DEF AwayStep, IdleStep

LEMMA NoncesNext == NoncesInv /\ [Next]_vars => NoncesInv'
<1> SUFFICES ASSUME NoncesInv, [Next]_vars PROVE NoncesInv'
  OBVIOUS
<1>1. ASSUME NEW r \in RequestIds, NEW p \in Runs, NEW n \in Nonces, Round2Begin(r, p, n)
      PROVE  NoncesInv'
  BY <1>1, BeginsWhat, BeginStep DEF NoncesInv
<1>2. ASSUME NEW h \in awaiting,
             ReadForPartial(h) \/ NoQuorum(h) \/ Round2Sign(h) \/ ReadThrows(h)
      PROVE  NoncesInv'
  BY <1>2, ReadStep, GivesUpStep, SignStep
<1> QED
  BY <1>1, <1>2, NonceSteps, IdleKeeps, Round1Step, FragmentStep

\* Of all bodies a caller may send in round 2, to whatever session and with
\* whatever commitments, only the one token that the bank's debit for the body's
\* request authorises is ever signed (verify.ts, signer/index.ts:305).
THEOREM PartialsBound == Spec => []PartialsAreBound
<1>1. NoncesInv => PartialsAreBound
  BY DEF NoncesInv
<1> QED
  BY <1>1, NoncesInit, NoncesNext, PTL DEF Spec
-----------------------------------------------------------------------------
(* SignerService implements NonceUse: round 1 makes a pair, the signing    *)
(* answer to round 2 uses one, and every other step drops pairs or none.   *)
(* A pair that two calls share is dropped, and its partials are not counted. *)

Made == {n \in Nonces : madeFor[n] # NoRun}
Kept == {n \in Nonces \ overlapped :
            \/ \E r \in RequestIds : sessions[r].nonces = n
            \/ \E h \in awaiting : h.nonces = n /\ h.quoted = n}
Uses == [n \in Nonces |-> IF n \in overlapped THEN 0 ELSE uses[n]]

LEMMA KeptIs == Kept = (InSession \cup InCall) \ overlapped
BY DEF Kept, InSession, InCall

LEMMA KeptNext == Kept' = (InSession' \cup InCall') \ overlapped'
BY DEF Kept, InSession, InCall

LEMMA KeptShrinks ==
    ASSUME Shrinks(sessions'), awaiting' \subseteq awaiting, UNCHANGED overlapped
    PROVE  Kept' \subseteq Kept
<1>1. InCall' \subseteq InCall
  BY DEF InCall
<1> QED
  BY <1>1, KeptIs, KeptNext, InSessionShrinks

LEMMA DropsPairs ==
    ASSUME Kept' \subseteq Kept, UNCHANGED madeFor, Uses' = Uses
    PROVE  NV!Next
BY DEF NV!Next, NV!Drop, Kept, Uses

\* A step that is no round 1 and no signing answer.
LEMMA OtherStep ==
    ASSUME Shrinks(sessions'), awaiting' \subseteq awaiting,
           UNCHANGED <<madeFor, overlapped, uses>>
    PROVE  NV!Next
<1>1. Uses' = Uses
  BY DEF Uses
<1> QED
  BY <1>1, KeptShrinks, DropsPairs

LEMMA MakesPair == ASSUME NoncesInv, NEW p \in Runs, Round1(p) PROVE NV!Next
<1>1. PICK n \in Nonces :
         /\ madeFor[n] = NoRun
         /\ madeFor' = [madeFor EXCEPT ![n] = p]
         /\ sessions' = [Swept EXCEPT ![SessionOf(p)] = [nonces |-> n, age |-> 0]]
         /\ UNCHANGED <<awaiting, overlapped, uses>>
  BY DEF Round1, readVars, outcomeVars
<1>2. Shrinks(Swept) /\ p # NoRun /\ SessionOf(p) \in RequestIds
  BY SweptShrinks, SessionOfType DEF NoncesInv
<1>3. n \notin Made /\ Made' = Made \cup {n} /\ Uses' = Uses
  BY <1>1, <1>2 DEF Made, Uses, NoncesInv, TypesInv
<1>4. sessions'[SessionOf(p)].nonces = n /\ n \notin overlapped'
  BY <1>1, <1>2 DEF Shrinks, NoncesInv, UnusedInv
<1>5. n \in Kept'
  BY <1>2, <1>4 DEF Kept
<1>6. Kept' \subseteq Kept \cup {n}
  <2> SUFFICES ASSUME NEW k \in Nonces, k # n, k \in Kept' PROVE k \in Kept
    BY DEF Kept
  <2>1. k \notin overlapped
    BY <1>1 DEF Kept
  <2>2. CASE k \in InCall'
    BY <1>1, <2>1, <2>2 DEF InCall, Kept
  <2>3. ASSUME NEW r \in RequestIds, sessions'[r].nonces = k PROVE k \in Kept
    <3>1. r # SessionOf(p)
      BY <1>4, <2>3
    <3>2. Swept[r].nonces = k
      BY <1>1, <1>2, <2>3, <3>1 DEF Shrinks
    <3>3. Swept[r] # NoSession
      BY <3>2, NoneKept
    <3> QED
      BY <1>2, <2>1, <3>2, <3>3 DEF Shrinks, Kept
  <2> QED
    BY <2>2, <2>3, KeptNext DEF InSession
<1>7. NV!Make(n)
  BY <1>3, <1>5, <1>6 DEF NV!Make, Made, Kept, Uses
<1> QED
  BY <1>7 DEF NV!Next

\* No session and no other call keeps the pair that was used, unless the calls
\* overlapped: then the partial is not counted.
LEMMA UsesPair ==
    ASSUME NoncesInv, NEW h \in awaiting, Round2Sign(h), CommitmentMatches(h)
    PROVE  NV!Next
<1> DEFINE n == h.nonces
<1>1. /\ n \in Nonces /\ h.quoted = n /\ awaiting' = awaiting \ {h}
      /\ uses' = [uses EXCEPT ![n] = @ + 1] /\ UNCHANGED <<madeFor, overlapped>>
      /\ Shrinks(sessions') /\ n \notin InSession' /\ (n \in overlapped \/ n \notin InCall')
  BY SignedWhat
<1>2. Kept' \subseteq Kept /\ n \notin Kept'
  BY <1>1, KeptShrinks, KeptNext
<1>3. CASE n \in overlapped
  <2>1. Uses' = Uses
    BY <1>1, <1>3 DEF Uses, NoncesInv, TypesInv
  <2> QED
    BY <1>1, <1>2, <2>1, DropsPairs
<1>4. CASE n \notin overlapped
  <2>1. n \in Kept
    BY <1>1, <1>4 DEF Kept
  <2>2. Uses' = [Uses EXCEPT ![n] = @ + 1]
    BY <1>1, <1>4 DEF Uses, NoncesInv, TypesInv
  <2>3. NV!Use(n)
    BY <1>1, <1>2, <2>1, <2>2 DEF NV!Use, Kept, Uses
  <2> QED
    BY <1>1, <2>3 DEF NV!Next
<1> QED
  BY <1>3, <1>4

LEMMA BeginKeeps ==
    ASSUME NoncesInv, NEW r \in RequestIds, NEW n \in Nonces, NEW new, Begins(r, n, new)
    PROVE  NV!Next
<1>1. Shrinks(Swept) /\ Swept[r] # NoSession
  BY SweptShrinks DEF NoncesInv, Begins
<1> DEFINE own == Swept[r].nonces
<1>2. own \in Nonces /\ own = sessions[r].nonces /\ own \in InSession
  BY <1>1 DEF Shrinks, InSession
<1> HIDE DEF own
<1>3. InSession' \subseteq InSession /\ InCall' \subseteq InCall \cup {own}
  <2>1. InSession' \subseteq InSession
    BY <1>1, InSessionShrinks DEF Begins
  <2> QED
    BY <2>1 DEF InCall, Begins, own
<1>4. /\ overlapped \subseteq overlapped' /\ overlapped' \subseteq overlapped \cup {own}
      /\ UNCHANGED <<madeFor, uses>>
  BY DEF Begins, own
<1>5. Kept' \subseteq Kept
  BY <1>2, <1>3, <1>4, KeptIs, KeptNext
<1>6. own \notin overlapped => uses[own] = 0
  BY <1>2 DEF NoncesInv, UnusedInv
<1>7. Uses' = Uses
  BY <1>4, <1>6 DEF Uses
<1> QED
  BY <1>4, <1>5, <1>7, DropsPairs

LEMMA ReadKeeps == ASSUME NoncesInv, NEW h \in awaiting, ReadForPartial(h) PROVE NV!Next
<1>1. /\ awaiting' = (awaiting \ {h}) \cup {ReadNow(h)}
      /\ UNCHANGED <<sessions, madeFor, overlapped, uses>>
  BY DEF ReadForPartial, callerVars, outcomeVars
<1>2. ReadNow(h).nonces = h.nonces /\ ReadNow(h).quoted = h.quoted
  BY ReadFields DEF NoncesInv, TypesInv
<1>3. InCall' \subseteq InCall /\ InSession' = InSession
  BY <1>1, <1>2 DEF InCall, InSession
<1>4. Kept' \subseteq Kept
  BY <1>1, <1>3, KeptIs, KeptNext
<1>5. Uses' = Uses
  BY <1>1 DEF Uses
<1> QED
  BY <1>1, <1>4, <1>5, DropsPairs

LEMMA StepUses == NoncesInv /\ [Next]_vars => [NV!Next]_NV!vars
<1> SUFFICES ASSUME NoncesInv, [Next]_vars PROVE NV!Next
  OBVIOUS
<1>1. CASE IdleStep
  BY <1>1, IdleShrinks, OtherStep DEF NoncesInv
<1>2. ASSUME NEW r \in RequestIds, NEW p \in Runs, NEW n \in Nonces, Round2Begin(r, p, n)
      PROVE  NV!Next
  BY <1>2, BeginsWhat, BeginKeeps DEF NoncesInv
<1>3. ASSUME NEW h \in awaiting,
             ReadForPartial(h) \/ NoQuorum(h) \/ Round2Sign(h) \/ ReadThrows(h)
      PROVE  NV!Next
  BY <1>3, ReadKeeps, GivesUpStep, OtherStep, UsesPair
<1>4. ASSUME NEW h \in cosigning, FragmentSign(h) PROVE NV!Next
  <2>1. UNCHANGED <<sessions, awaiting, madeFor, overlapped, uses>>
    BY <1>4, FragmentStep
  <2> QED
    BY <2>1, SameShrinks, OtherStep DEF NoncesInv
<1> QED
  BY <1>1, <1>2, <1>3, <1>4, NonceSteps, MakesPair

LEMMA InitUses == Init => NV!Init
BY DEF Init, NV!Init, NoSession, Nonces

\* However rounds, late reads, sweeps, retries and restarts interleave, the service
\* uses its nonces as NonceUse allows, but for the pairs that two overlapping calls
\* of round 2 have both read (signer/index.ts:290, round2Sign).
THEOREM ServiceImplementsNonceUse == Spec => ImplementsNonceUse
BY InitUses, NoncesInit, NoncesNext, StepUses, PTL DEF Spec, ImplementsNonceUse, NV!Spec

NVP == INSTANCE NonceUseProofs WITH
    made <- {n \in Nonces : madeFor[n] # NoRun},
    kept <- {n \in Nonces \ overlapped :
                \/ \E r \in RequestIds : sessions[r].nonces = n
                \/ \E h \in awaiting : h.nonces = n /\ h.quoted = n},
    uses <- [n \in Nonces |-> IF n \in overlapped THEN 0 ELSE uses[n]]

\* Hence a member makes two partial signatures with one pair of nonces only if two
\* calls of round 2 were under way with it at once, both quoting its commitment.
THEOREM NoNonceReuse == Spec => [](\A n \in Nonces \ overlapped : uses[n] <= 1)
<1>1. NVP!Spec => []NVP!UsedOnce
  BY NVP!OnceOnly
<1>2. NVP!UsedOnce => \A n \in Nonces \ overlapped : uses[n] <= 1
  BY DEF NVP!UsedOnce
<1>3. NVP!Init <=> NV!Init
  BY SMT DEF NV!Init, NVP!Init
<1>4. [NV!Next]_NV!vars => [NVP!Next]_NVP!vars
  <2>1. \A n \in Nonces : NV!Make(n) => NVP!Make(n)
    BY Zenon DEF NV!Make, NVP!Make
  <2>2. \A n \in Nonces : NV!Use(n) => NVP!Use(n)
    BY Zenon DEF NV!Use, NVP!Use
  <2>3. (NV!Drop => NVP!Drop) /\ (UNCHANGED NV!vars => UNCHANGED NVP!vars)
    BY Zenon DEF NV!Drop, NVP!Drop, NV!vars, NVP!vars
  <2> QED
    BY <2>1, <2>2, <2>3 DEF NV!Next, NVP!Next
<1> QED
  BY <1>1, <1>2, <1>3, <1>4, InitUses, NoncesInit, NoncesNext, StepUses, PTL
     DEF Spec, NVP!Spec
-----------------------------------------------------------------------------
(* A release has its quorum.  The latest attestation of a member in the     *)
(* window is its latest of all, so a read that finds T approvals finds them *)
(* on the whole ledger; what is under the ledger's end does not change, so  *)
(* the release can point back to that read.                                 *)

LEMMA LatestInWindow ==
    ASSUME LedgerInv, NEW p \in Runs, NEW m \in Members,
           LastVerdict(p, m, Latest) = "APPROVE"
    PROVE  LastVerdict(p, m, 1 .. Len(ledger)) = "APPROVE"
<1> DEFINE Seen(span) == {i \in span \cap DOMAIN ledger : ledger[i].from = m /\ ledger[i].run = p}
           Near == Seen(Latest)
           All == Seen(1 .. Len(ledger))
<1>1. Len(ledger) \in Nat /\ DOMAIN ledger = 1 .. Len(ledger) /\ Window \in Nat
  BY DEF LedgerInv
<1>2. Near # {} /\ ledger[Max(Near)].verdict = "APPROVE"
  BY DEF LastVerdict
<1>3. Near \subseteq All /\ All \subseteq 1 .. Len(ledger)
  BY <1>1 DEF Latest
<1>4. \A i \in Near, j \in All : j \in Near \/ i > j
  BY <1>1 DEF Latest
<1>5. LastVerdict(p, m, 1 .. Len(ledger)) = IF All = {} THEN "none" ELSE ledger[Max(All)].verdict
  BY DEF LastVerdict
<1> HIDE DEF Seen, Near, All
<1>6. Max(Near) \in Near /\ \A y \in Near : Max(Near) >= y
  BY <1>1, <1>2, <1>3, MaxIn
<1>7. Max(All) \in All /\ \A y \in All : Max(All) >= y
  BY <1>1, <1>2, <1>3, MaxIn
<1>8. Max(All) = Max(Near)
  <2>1. PICK a : a = Max(Near)
    OBVIOUS
  <2>2. PICK b : b = Max(All)
    OBVIOUS
  <2>3. a \in Near /\ b \in All /\ a \in All
    BY <1>3, <1>6, <1>7, <2>1, <2>2
  <2>4. b >= a
    BY <1>7, <2>2, <2>3
  <2>5. b \in Near => a >= b
    BY <1>6, <2>1
  <2>6. b \in Near \/ a > b
    BY <1>4, <2>3
  <2>7. a \in 1 .. Len(ledger) /\ b \in 1 .. Len(ledger)
    BY <1>3, <2>3
  <2>8. a \in Int /\ b \in Int
    BY <1>1, <2>7
  <2>9. a = b
    BY <2>4, <2>5, <2>6, <2>8
  <2> QED
    BY <2>1, <2>2, <2>9
<1> QED
  BY <1>2, <1>3, <1>5, <1>8

LEMMA QuorumInWindow ==
    ASSUME LedgerInv, NEW p \in Runs, Cardinality(ReadApprovals(p)) >= T
    PROVE  Cardinality(ApproversAfter(p, Len(ledger))) >= T
<1> DEFINE All == ApproversAfter(p, Len(ledger))
<1>1. ReadApprovals(p) \subseteq All
  BY LatestInWindow DEF ReadApprovals, ApproversAfter
<1>2. IsFiniteSet(Members)
  BY FS_AddElement DEF Members
<1>3. IsFiniteSet(All)
  BY <1>2, FS_Subset DEF ApproversAfter
<1>4. Cardinality(ReadApprovals(p)) <= Cardinality(All)
  BY <1>1, <1>3, FS_Subset
<1>5. Cardinality(ReadApprovals(p)) \in Nat /\ Cardinality(All) \in Nat
  BY <1>1, <1>3, FS_Subset, FS_CardinalityType
<1> QED
  BY <1>4, <1>5

LEMMA PastIsFixed ==
    ASSUME LedgerInv, Grows, NEW p, NEW k \in 0 .. Len(ledger)
    PROVE  ApproversAfter(p, k)' = ApproversAfter(p, k)
<1>1. \A m : {i \in (1 .. k) \cap DOMAIN ledger' : ledger'[i].from = m /\ ledger'[i].run = p}
               = {i \in (1 .. k) \cap DOMAIN ledger : ledger[i].from = m /\ ledger[i].run = p}
  BY LedgerKept
<1>2. \A S : S \subseteq 1 .. k /\ S # {} => ledger'[Max(S)] = ledger[Max(S)]
  <2> SUFFICES ASSUME NEW S, S \subseteq 1 .. k, S # {} PROVE ledger'[Max(S)] = ledger[Max(S)]
    OBVIOUS
  <2>1. Max(S) \in 1 .. k
    <3>1. k \in Nat
      BY LedgerKept
    <3> QED
      BY <3>1, MaxIn
  <2> QED
    BY <2>1, LedgerKept
<1>3. \A m : LastVerdict(p, m, 1 .. k)' = LastVerdict(p, m, 1 .. k)
  <2> SUFFICES ASSUME NEW m PROVE LastVerdict(p, m, 1 .. k)' = LastVerdict(p, m, 1 .. k)
    OBVIOUS
  <2> DEFINE S == {i \in (1 .. k) \cap DOMAIN ledger : ledger[i].from = m /\ ledger[i].run = p}
  <2>1. LastVerdict(p, m, 1 .. k) = IF S = {} THEN "none" ELSE ledger[Max(S)].verdict
    BY DEF LastVerdict
  <2>2. LastVerdict(p, m, 1 .. k)' = IF S = {} THEN "none" ELSE ledger'[Max(S)].verdict
    BY <1>1 DEF LastVerdict
  <2>3. S # {} => ledger'[Max(S)] = ledger[Max(S)]
    BY <1>2
  <2> QED
    BY <2>1, <2>2, <2>3
<1> QED
  BY <1>3 DEF ApproversAfter

\* What a handler that awaits the ledger has found was so at some moment since
\* its call.
ReadOK(h) ==
    /\ h.run \in Runs /\ h.asked \in 0 .. Len(ledger)
    /\ h.found >= T =>
          \E k \in h.asked .. Len(ledger) : Cardinality(ApproversAfter(h.run, k)) >= T

CosigningOK(h) ==
    h = [call |-> h.call, run |-> h.run, receipt |-> h.receipt, asked |-> h.asked,
         found |-> h.found, tries |-> h.tries]

ReadsInv ==
    /\ \A h \in awaiting : ReadOK(h)
    /\ \A h \in cosigning : ReadOK(h) /\ CosigningOK(h)

LEMMA ReadOKKept == ASSUME LedgerInv, Grows, NEW h, ReadOK(h) PROVE ReadOK(h)'
<1>1. Len(ledger) \in Nat /\ Len(ledger') \in Nat /\ Len(ledger) <= Len(ledger')
  BY LedgerKept
<1>2. ASSUME h.found >= T
      PROVE  \E k \in h.asked .. Len(ledger') : Cardinality(ApproversAfter(h.run, k)') >= T
  <2>1. PICK k \in h.asked .. Len(ledger) : Cardinality(ApproversAfter(h.run, k)) >= T
    BY <1>2 DEF ReadOK
  <2>2. k \in 0 .. Len(ledger) /\ k \in h.asked .. Len(ledger')
    BY <1>1 DEF ReadOK
  <2> QED
    BY <2>1, <2>2, PastIsFixed
<1> QED
  BY <1>1, <1>2 DEF ReadOK

\* A handler that has read nothing yet, and one that reads now.
LEMMA BegunReadOK ==
    ASSUME LedgerInv, NEW h, h.run \in Runs, h.asked = Len(ledger), h.found = 0
    PROVE  ReadOK(h)
BY DEF ReadOK, LedgerInv

LEMMA NowReadOK ==
    ASSUME LedgerInv, NEW h, NEW next, ReadOK(h), next.run = h.run, next.asked = h.asked,
           next.found = Cardinality(ReadApprovals(h.run))
    PROVE  ReadOK(next)
<1>1. h.run \in Runs /\ h.asked \in 0 .. Len(ledger) /\ Len(ledger) \in Nat
  BY DEF ReadOK, LedgerInv
<1>2. Len(ledger) \in h.asked .. Len(ledger)
  BY <1>1
<1>3. next.found >= T => Cardinality(ApproversAfter(next.run, Len(ledger))) >= T
  BY <1>1, QuorumInWindow
<1> QED
  BY <1>1, <1>2, <1>3 DEF ReadOK

LEMMA CosignRecord ==
    ASSUME NEW call, NEW run, NEW receipt, NEW asked, NEW found, NEW tries, NEW read, NEW more,
           NEW h,
           h = [call |-> call, run |-> run, receipt |-> receipt, asked |-> asked,
                found |-> found, tries |-> tries]
    PROVE  [h EXCEPT !.found = read, !.tries = more] =
              [call |-> call, run |-> run, receipt |-> receipt, asked |-> asked,
               found |-> read, tries |-> more]
<1>1. PICK g : g = [call |-> call, run |-> run, receipt |-> receipt, asked |-> asked,
                    found |-> read, tries |-> tries]
  OBVIOUS
<1>2. [h EXCEPT !.found = read] = g
  BY <1>1
<1>3. [g EXCEPT !.tries = more] =
         [call |-> call, run |-> run, receipt |-> receipt, asked |-> asked, found |-> read,
          tries |-> more]
  BY <1>1
<1>4. [h EXCEPT !.found = read, !.tries = more] = [[h EXCEPT !.found = read] EXCEPT !.tries = more]
  OBVIOUS
<1> QED
  BY <1>2, <1>3, <1>4

LEMMA CosignFields ==
    ASSUME NEW h, CosigningOK(h)
    PROVE  /\ CosigningOK(ReadNow(h))
           /\ ReadNow(h).run = h.run /\ ReadNow(h).asked = h.asked
           /\ ReadNow(h).found = Cardinality(ReadApprovals(h.run))
<1>1. PICK read : read = Cardinality(ReadApprovals(h.run))
  OBVIOUS
<1>2. PICK more : more = h.tries + 1
  OBVIOUS
<1>3. ReadNow(h) = [h EXCEPT !.found = read, !.tries = more]
  BY <1>1, <1>2 DEF ReadNow
<1>4. PICK g : g = [call |-> h.call, run |-> h.run, receipt |-> h.receipt, asked |-> h.asked,
                    found |-> read, tries |-> more]
  OBVIOUS
<1>5. g = ReadNow(h)
  BY <1>3, <1>4, CosignRecord, Zenon DEF CosigningOK
<1>6. CosigningOK(g) /\ g.run = h.run /\ g.asked = h.asked /\ g.found = read
  BY <1>4 DEF CosigningOK
<1> QED
  BY <1>1, <1>5, <1>6

LEMMA ReadsNext ==
    ASSUME NoncesInv, LedgerInv, ReadsInv, [Next]_vars
    PROVE  ReadsInv'
<1>1. Grows
  BY LedgerGrows
<1>2. (\A h \in awaiting : ReadOK(h)') /\ (\A h \in cosigning : ReadOK(h)' /\ CosigningOK(h))
  BY <1>1, ReadOKKept DEF ReadsInv
<1>3. ASSUME NEW new, ReadOK(new), awaiting' \subseteq awaiting \cup {new},
             cosigning' \subseteq cosigning
      PROVE  ReadsInv'
  BY <1>1, <1>2, <1>3, ReadOKKept DEF ReadsInv, CosigningOK
<1>4. ASSUME NEW new, ReadOK(new), CosigningOK(new), awaiting' \subseteq awaiting,
             cosigning' \subseteq cosigning \cup {new}
      PROVE  ReadsInv'
  BY <1>1, <1>2, <1>4, ReadOKKept DEF ReadsInv, CosigningOK
<1>5. ASSUME awaiting' \subseteq awaiting, cosigning' \subseteq cosigning PROVE ReadsInv'
  BY <1>2, <1>5 DEF ReadsInv, CosigningOK
<1>6. ASSUME NEW r \in RequestIds, NEW p \in Runs, NEW n \in Nonces, Round2Begin(r, p, n)
      PROVE  ReadsInv'
  <2>1. PICK message \in Passing[p] : awaiting' = awaiting \cup {SigningCall(r, p, n, message)}
    BY <1>6 DEF Round2Begin
  <2>2. PICK new : new = SigningCall(r, p, n, message)
    OBVIOUS
  <2>3. new.run = p /\ new.asked = Len(ledger) /\ new.found = 0
    BY <2>2 DEF SigningCall
  <2>4. cosigning' = cosigning
    BY <1>6 DEF Round2Begin
  <2> QED
    BY <1>3, <2>1, <2>2, <2>3, <2>4, BegunReadOK
<1>7. ASSUME NEW p \in Runs, NEW q \in Runs, CosignBegin(p, q) PROVE ReadsInv'
  <2>1. PICK new : new = [call |-> calls + 1, run |-> p, receipt |-> q, asked |-> Len(ledger),
                          found |-> 0, tries |-> 0]
    OBVIOUS
  <2>2. cosigning' = cosigning \cup {new} /\ awaiting' = awaiting
    BY <1>7, <2>1 DEF CosignBegin
  <2>3. new.run = p /\ new.asked = Len(ledger) /\ new.found = 0 /\ CosigningOK(new)
    BY <2>1 DEF CosigningOK
  <2> QED
    BY <1>4, <2>2, <2>3, BegunReadOK
<1>8. ASSUME NEW h \in awaiting, ReadForPartial(h) PROVE ReadsInv'
  <2>1. awaiting' = (awaiting \ {h}) \cup {ReadNow(h)} /\ cosigning' = cosigning
    BY <1>8 DEF ReadForPartial
  <2>2. PICK next : next = ReadNow(h)
    OBVIOUS
  <2>3. ReadOK(next)
    BY <2>2, ReadFields, NowReadOK DEF ReadsInv, NoncesInv, TypesInv
  <2> QED
    BY <1>3, <2>1, <2>2, <2>3
<1>9. ASSUME NEW h \in cosigning, ReadForReceipt(h) PROVE ReadsInv'
  <2>1. cosigning' = (cosigning \ {h}) \cup {ReadNow(h)} /\ awaiting' = awaiting
    BY <1>9 DEF ReadForReceipt
  <2>2. PICK next : next = ReadNow(h)
    OBVIOUS
  <2>3. ReadOK(next) /\ CosigningOK(next)
    BY <2>2, CosignFields, NowReadOK DEF ReadsInv
  <2> QED
    BY <1>4, <2>1, <2>2, <2>3
<1>10. CASE \/ \E h \in awaiting : NoQuorum(h) \/ Round2Sign(h) \/ ReadThrows(h)
            \/ \E h \in cosigning : CosignFails(h) \/ FragmentSign(h)
            \/ \E p \in Runs : Round1(p)
            \/ \E r \in RequestIds : Round2Rejected(r)
  BY <1>5, <1>10 DEF NoQuorum, Round2Sign, ReadThrows, CosignFails, FragmentSign, Round1,
                     Round2Rejected, readVars
<1>11. CASE ToggleOnline \/ ToggleRefuse \/ Tick \/ Sweep \/ Restart \/ PostStep \/ UNCHANGED vars
  BY <1>5, <1>11, PostKeeps DEF ToggleOnline, ToggleRefuse, Tick, Sweep, Restart, vars,
                                processVars, readVars
<1> QED
  BY <1>6, <1>7, <1>8, <1>9, <1>10, <1>11, Steps DEF AwayStep

LEMMA ReadsInit == Init => ReadsInv
BY DEF Init, ReadsInv

LEMMA ReleaseStep ==
    ASSUME NoncesInv, ReadsInv, [Next]_vars
    PROVE  \A x \in released' \ released :
              \E k \in x.asked .. Len(ledger) : Cardinality(ApproversAfter(x.run, k)) >= T
<1> DEFINE Approved == \A x \in released' \ released :
              \E k \in x.asked .. Len(ledger) : Cardinality(ApproversAfter(x.run, k)) >= T
<1> SUFFICES Approved
  OBVIOUS
<1>1. ASSUME UNCHANGED released PROVE Approved
  BY <1>1
<1>2. ASSUME NEW h, NEW kind, NEW of, ReadOK(h), h.found >= T, Release(h, kind, of)
      PROVE  Approved
  BY <1>2 DEF Release, ReadOK
<1> HIDE DEF Approved
<1>3. ASSUME NEW h \in cosigning, FragmentSign(h) PROVE Approved
  BY <1>2, <1>3 DEF FragmentSign, ReadsInv
<1>4. ASSUME NEW h \in awaiting, Round2Sign(h) PROVE Approved
  BY <1>1, <1>2, <1>4 DEF Round2Sign, outcomeVars, ReadsInv
<1>5. CASE IdleStep
  BY <1>1, <1>5, IdleShrinks DEF NoncesInv
<1>6. CASE \/ \E p \in Runs : Round1(p)
           \/ \E r \in RequestIds, p \in Runs, n \in Nonces : Round2Begin(r, p, n)
           \/ \E h \in awaiting : ReadForPartial(h) \/ NoQuorum(h) \/ ReadThrows(h)
  BY <1>1, <1>6 DEF Round1, Round2Begin, ReadForPartial, NoQuorum, ReadThrows, outcomeVars
<1> QED
  BY <1>3, <1>4, <1>5, <1>6, NonceSteps

\* A partial signature or a receipt fragment leaves only if, at some moment since its
\* call, the latest attestations of T members on the whole ledger approved the run it
\* was asked about (chain.ts:233, signer/index.ts:225; wall 2).
THEOREM ReleasesHaveQuorum == Spec => ReleaseNeedsQuorum
BY NoncesInit, NoncesNext, LedgerInit, LedgerNext, ReadsInit, ReadsNext, ReleaseStep, PTL
   DEF Spec, ReleaseNeedsQuorum
-----------------------------------------------------------------------------
(* Submissions in Sequence.  The task of a handler is its own, the one with *)
(* a Sequence filled in is the head of the queue, and no other has one;     *)
(* between the account's Sequence and what was filled in, each number is    *)
(* that of a lost submission.                                               *)

CallsOf(p) == {task \in validates : task[1] = p}

TasksInv ==
    /\ IsFiniteSet(validates)
    /\ validates \subseteq Runs \X Nat
    /\ \A p \in Runs : \A task \in CallsOf(p) : task[2] <= Cardinality(CallsOf(p))

QueueInv ==
    /\ queue \in Seq(Runs \X Nat)
    /\ \A h \in posting : h.task \in validates
    /\ \A g, h \in posting : g.task = h.task => g = h
    /\ \A h \in posting : (h.filled # -1 => AtHead(h)) /\ (h.landed => h.filled # -1)

SequenceInv ==
    \A h \in posting : h.filled # -1 /\ ~h.landed =>
        /\ h.filled < OwnSequence => \E x \in lost : x.filled = h.filled
        /\ \A u \in OwnSequence .. h.filled - 1 : \E x \in lost : x.filled = u

PostingInv == LedgerInv /\ TasksInv /\ QueueInv /\ SequenceInv

LEMMA PostingInit == Init => PostingInv
BY FS_EmptySet DEF Init, PostingInv, LedgerInv, TasksInv, QueueInv, SequenceInv, CallsOf

LEMMA NextTaskIsNew ==
    ASSUME TasksInv, NEW p \in Runs
    PROVE  /\ NextTask(p) \in Runs \X Nat /\ NextTask(p) \notin validates
           /\ NextTask(p)[1] = p /\ NextTask(p)[2] = Cardinality(CallsOf(p)) + 1
           /\ IsFiniteSet(CallsOf(p)) /\ Cardinality(CallsOf(p)) \in Nat
<1>1. IsFiniteSet(CallsOf(p)) /\ Cardinality(CallsOf(p)) \in Nat
  BY FS_Subset, FS_CardinalityType DEF TasksInv, CallsOf
<1>2. NextTask(p) = <<p, Cardinality(CallsOf(p)) + 1>>
  BY DEF NextTask, CallsOf
<1>3. NextTask(p) \notin validates
  <2> SUFFICES ASSUME NextTask(p) \in validates PROVE FALSE
    OBVIOUS
  <2>1. NextTask(p) \in CallsOf(p)
    BY <1>2 DEF CallsOf
  <2> QED
    BY <1>1, <1>2, <2>1 DEF TasksInv
<1> QED
  BY <1>1, <1>2, <1>3

LEMMA CalledKeepsTasks ==
    ASSUME TasksInv, NEW p \in Runs, ValidateCalled(p)
    PROVE  TasksInv'
<1>1. validates' = validates \cup {NextTask(p)}
  BY DEF ValidateCalled
<1>2. CallsOf(p)' = CallsOf(p) \cup {NextTask(p)}
  BY <1>1, NextTaskIsNew DEF CallsOf
<1>3. \A q \in Runs \ {p} : CallsOf(q)' = CallsOf(q)
  BY <1>1, NextTaskIsNew DEF CallsOf
<1>4. NextTask(p) \notin CallsOf(p)
  BY NextTaskIsNew DEF CallsOf
<1>5. Cardinality(CallsOf(p)') = Cardinality(CallsOf(p)) + 1
  <2>1. IsFiniteSet(CallsOf(p))
    BY NextTaskIsNew
  <2>2. Cardinality(CallsOf(p) \cup {NextTask(p)}) = Cardinality(CallsOf(p)) + 1
    BY <1>4, <2>1, FS_AddElement, Zenon
  <2> QED
    BY <1>2, <2>2
<1>6. ASSUME NEW q \in Runs, NEW task \in CallsOf(q)'
      PROVE  task[2] <= Cardinality(CallsOf(q)')
  <2>1. CASE q # p
    BY <1>3, <1>6, <2>1 DEF TasksInv
  <2>2. CASE q = p /\ task = NextTask(p)
    BY <1>5, <2>2, NextTaskIsNew
  <2>3. CASE q = p /\ task \in CallsOf(p)
    <3>1. task[2] <= Cardinality(CallsOf(p)) /\ task[2] \in Nat
      BY <2>3 DEF TasksInv, CallsOf
    <3> QED
      BY <1>5, <2>3, <3>1, NextTaskIsNew
  <2> QED
    BY <1>2, <1>6, <2>1, <2>2, <2>3
<1>7. IsFiniteSet(validates')
  BY <1>1, FS_AddElement DEF TasksInv
<1>8. validates' \subseteq Runs \X Nat
  BY <1>1, NextTaskIsNew DEF TasksInv
<1> QED
  BY <1>6, <1>7, <1>8 DEF TasksInv

LEMMA OwnType == ASSUME LedgerInv PROVE OwnSequence \in Nat
<1>1. {i \in DOMAIN ledger : ledger[i].from = Me} \subseteq 1 .. Len(ledger)
  BY DEF LedgerInv
<1>2. Len(ledger) \in Int /\ 1 \in Int
  BY DEF LedgerInv
<1>3. IsFiniteSet(1 .. Len(ledger))
  BY <1>2, FS_Interval
<1> QED
  BY <1>1, <1>3, FS_Subset, FS_CardinalityType DEF OwnSequence

\* A transaction of another account does not touch the member's Sequence, one of
\* its own takes the next.
LEMMA SequenceKept ==
    ASSUME LedgerInv, NEW e, e.from # Me, ledger' = Append(ledger, e)
    PROVE  OwnSequence' = OwnSequence
<1>1. /\ DOMAIN ledger = 1 .. Len(ledger) /\ Len(ledger) \in Nat
      /\ DOMAIN ledger' = 1 .. Len(ledger) + 1
      /\ \A i \in DOMAIN ledger : ledger'[i] = ledger[i]
      /\ ledger'[Len(ledger) + 1] = e
  BY DEF LedgerInv
<1>2. {i \in DOMAIN ledger' : ledger'[i].from = Me} = {i \in DOMAIN ledger : ledger[i].from = Me}
  BY <1>1
<1> QED
  BY <1>2 DEF OwnSequence

LEMMA SequenceTaken ==
    ASSUME LedgerInv, NEW e, e.from = Me, ledger' = Append(ledger, e)
    PROVE  OwnSequence' = OwnSequence + 1
<1> DEFINE Own == {i \in DOMAIN ledger : ledger[i].from = Me}
<1>1. /\ DOMAIN ledger = 1 .. Len(ledger) /\ Len(ledger) \in Nat
      /\ DOMAIN ledger' = 1 .. Len(ledger) + 1
      /\ \A i \in DOMAIN ledger : ledger'[i] = ledger[i]
      /\ ledger'[Len(ledger) + 1] = e
  BY DEF LedgerInv
<1>2. {i \in DOMAIN ledger' : ledger'[i].from = Me} = Own \cup {Len(ledger) + 1}
  BY <1>1
<1>3. Len(ledger) + 1 \notin Own
  BY <1>1
<1>4. IsFiniteSet(Own)
  <2>1. IsFiniteSet(1 .. Len(ledger))
    BY <1>1, FS_Interval
  <2> QED
    BY <1>1, <2>1, FS_Subset
<1> HIDE DEF Own
<1>5. Cardinality(Own \cup {Len(ledger) + 1}) = Cardinality(Own) + 1
  BY <1>3, <1>4, FS_AddElement
<1> QED
  BY <1>2, <1>5 DEF OwnSequence, Own

LEMMA LandsTakes ==
    ASSUME LedgerInv, NEW x, Lands(x)
    PROVE  x.filled = OwnSequence /\ OwnSequence' = OwnSequence + 1
<1> DEFINE e == [from |-> Me, run |-> x.task[1], verdict |-> x.verdict]
<1>1. x.filled = OwnSequence /\ ledger' = Append(ledger, e) /\ e.from = Me
  BY DEF Lands
<1> QED
  BY <1>1, SequenceTaken

\* Only the head of the queue has a Sequence filled in.
LEMMA RestUnfilled ==
    ASSUME QueueInv, NEW h \in posting, AtHead(h)
    PROVE  \A g \in posting \ {h} : g.filled = -1 /\ ~g.landed
<1> SUFFICES ASSUME NEW g \in posting, g.filled # -1 \/ g.landed PROVE g = h
  OBVIOUS
<1>1. AtHead(g)
  BY DEF QueueInv
<1> QED
  BY <1>1 DEF QueueInv, AtHead

\* No handler comes or goes, and nothing of this member lands.
LEMMA PostingUnmoved ==
    ASSUME PostingInv, LedgerInv', UNCHANGED <<posting, queue, validates>>,
           OwnSequence' = OwnSequence, lost \subseteq lost'
    PROVE  PostingInv'
<1>1. TasksInv'
  BY DEF PostingInv, TasksInv, CallsOf
<1>2. QueueInv'
  BY DEF PostingInv, QueueInv, AtHead
<1>3. SequenceInv'
  BY DEF PostingInv, SequenceInv
<1> QED
  BY <1>1, <1>2, <1>3 DEF PostingInv

LEMMA CachedKeepsPosting ==
    ASSUME PostingInv, LedgerInv', NEW p \in Runs, ValidateCached(p)
    PROVE  PostingInv'
<1>1. TasksInv'
  BY CalledKeepsTasks DEF PostingInv, ValidateCached
<1>2. UNCHANGED <<posting, queue, ledger, lost>> /\ validates \subseteq validates'
  BY DEF ValidateCached, ValidateCalled, processVars, ledgerVars
<1>3. OwnSequence' = OwnSequence
  BY <1>2 DEF OwnSequence
<1>4. QueueInv'
  BY <1>2 DEF PostingInv, QueueInv, AtHead
<1>5. SequenceInv'
  BY <1>2, <1>3 DEF PostingInv, SequenceInv
<1> QED
  BY <1>1, <1>4, <1>5 DEF PostingInv

LEMMA BeginKeepsPosting ==
    ASSUME PostingInv, LedgerInv', NEW p \in Runs, ValidateBegin(p)
    PROVE  PostingInv'
<1> DEFINE new == Posted(p)
<1>1. /\ posting' = posting \cup {new} /\ queue' = Append(queue, NextTask(p))
      /\ validates' = validates \cup {NextTask(p)} /\ UNCHANGED <<ledger, lost>>
  BY DEF ValidateBegin, ValidateCalled, ledgerVars
<1>2. TasksInv'
  BY CalledKeepsTasks DEF PostingInv, ValidateBegin
<1>3. NextTask(p) \in Runs \X Nat /\ NextTask(p) \notin validates
  BY NextTaskIsNew DEF PostingInv
<1>4. new.task = NextTask(p) /\ new.filled = -1 /\ ~new.landed
  BY PostedOK
<1> HIDE DEF new
<1>5. queue' \in Seq(Runs \X Nat) /\ (queue # <<>> => queue' # <<>> /\ Head(queue') = Head(queue))
  BY <1>1, <1>3 DEF PostingInv, QueueInv
<1>6. \A h \in posting : AtHead(h) => AtHead(h)'
  BY <1>5 DEF AtHead
<1>7. QueueInv'
  <2>1. \A h \in posting' : h.task \in validates'
    BY <1>1, <1>4 DEF PostingInv, QueueInv
  <2>2. \A g, h \in posting' : g.task = h.task => g = h
    BY <1>1, <1>3, <1>4 DEF PostingInv, QueueInv
  <2>3. \A h \in posting' : (h.filled # -1 => AtHead(h)') /\ (h.landed => h.filled # -1)
    BY <1>1, <1>4, <1>6 DEF PostingInv, QueueInv
  <2> QED
    BY <1>5, <2>1, <2>2, <2>3 DEF QueueInv, AtHead
<1>8. SequenceInv'
  <2>1. OwnSequence' = OwnSequence
    BY <1>1 DEF OwnSequence
  <2> QED
    BY <1>1, <1>4, <2>1 DEF PostingInv, SequenceInv
<1> QED
  BY <1>2, <1>7, <1>8 DEF PostingInv

\* The head of the queue changes, the rest stay without a Sequence.
LEMMA HeadMoves ==
    ASSUME PostingInv, LedgerInv', NEW h \in posting, NEW new, AtHead(h),
           posting' = (posting \ {h}) \cup {new}, UNCHANGED <<queue, validates>>,
           new.task = h.task, new.filled # -1,
           new.landed \/ /\ new.filled < OwnSequence' => \E x \in lost' : x.filled = new.filled
                         /\ \A u \in OwnSequence' .. new.filled - 1 : \E x \in lost' : x.filled = u
    PROVE  PostingInv'
<1>1. \A g \in posting \ {h} : g.filled = -1 /\ ~g.landed
  BY RestUnfilled DEF PostingInv
<1>2. TasksInv'
  BY DEF PostingInv, TasksInv, CallsOf
<1>3. QueueInv'
  <2>1. \A g, k \in posting' : g.task = k.task => g = k
    BY DEF PostingInv, QueueInv
  <2>2. \A g \in posting' : g.task \in validates' /\ (g.landed => g.filled # -1)
    BY <1>1 DEF PostingInv, QueueInv
  <2>3. \A g \in posting' : g.filled # -1 => AtHead(g)'
    BY <1>1 DEF AtHead
  <2> QED
    BY <2>1, <2>2, <2>3 DEF PostingInv, QueueInv, AtHead
<1>4. SequenceInv'
  BY <1>1 DEF SequenceInv
<1> QED
  BY <1>2, <1>3, <1>4 DEF PostingInv

LEMMA AutofillKeepsPosting ==
    ASSUME PostingInv, LedgerInv', NEW h \in posting, Autofill(h)
    PROVE  PostingInv'
<1>1. PICK s \in OwnSequence .. OwnSequence + Cardinality(lost) :
         Fillable(s) /\ posting' = (posting \ {h}) \cup {[h EXCEPT !.filled = s]}
  BY DEF Autofill
<1>2. AtHead(h) /\ UNCHANGED <<queue, validates, ledger, lost>> /\ OwnSequence' = OwnSequence
  BY DEF Autofill, callerVars, ledgerVars, OwnSequence
<1>3. OwnSequence \in Nat /\ s \in Int /\ s >= OwnSequence
  BY <1>1, OwnType DEF PostingInv, Fillable
<1>4. PICK new : new = [h EXCEPT !.filled = s]
  OBVIOUS
<1>5. PostOK(h)
  BY DEF PostingInv, LedgerInv
<1>6. new.task = h.task /\ new.filled = s
  BY <1>4, <1>5 DEF PostOK
<1>7. \A u \in OwnSequence .. s - 1 : \E x \in lost : x.filled = u
  BY <1>1 DEF Fillable
<1>8. /\ new.filled # -1 /\ ~(new.filled < OwnSequence')
      /\ \A u \in OwnSequence' .. new.filled - 1 : \E x \in lost' : x.filled = u
  BY <1>2, <1>3, <1>6, <1>7
<1>9. posting' = (posting \ {h}) \cup {new}
  BY <1>1, <1>4
<1> QED
  BY <1>2, <1>6, <1>8, <1>9, HeadMoves

LEMMA ValidatedKeepsPosting ==
    ASSUME PostingInv, LedgerInv', NEW h \in posting, Validated(h)
    PROVE  PostingInv'
<1>1. posting' = (posting \ {h}) \cup {[h EXCEPT !.landed = TRUE]} /\ UNCHANGED <<queue, validates>>
  BY DEF Validated, callerVars
<1>2. h.filled = OwnSequence /\ OwnSequence \in Nat
  BY LandsTakes, OwnType DEF Validated, PostingInv
<1>3. h.filled # -1
  BY <1>2
<1>4. AtHead(h)
  BY <1>3 DEF PostingInv, QueueInv
<1>5. PICK new : new = [h EXCEPT !.landed = TRUE]
  OBVIOUS
<1>6. PostOK(h)
  BY DEF PostingInv, LedgerInv
<1>7. new = [task |-> h.task, verdict |-> h.verdict, filled |-> h.filled, landed |-> TRUE]
  BY <1>5, <1>6, LandedRecord DEF PostOK
<1>8. new.task = h.task /\ new.filled = h.filled /\ new.landed
  BY <1>7
<1> QED
  BY <1>1, <1>3, <1>4, <1>5, <1>8, HeadMoves

LEMMA LostKeepsPosting ==
    ASSUME PostingInv, LedgerInv', NEW x \in lost, LostLands(x)
    PROVE  PostingInv'
<1>1. UNCHANGED <<posting, queue, validates, lost>>
  BY DEF LostLands, processVars, callerVars
<1>2. /\ x.filled = OwnSequence /\ OwnSequence' = OwnSequence + 1 /\ OwnSequence \in Nat
  BY LandsTakes, OwnType DEF LostLands, PostingInv
<1>3. TasksInv' /\ QueueInv'
  BY <1>1 DEF PostingInv, TasksInv, CallsOf, QueueInv, AtHead
<1>4. ASSUME NEW h \in posting, h.filled # -1, ~h.landed
      PROVE  /\ h.filled < OwnSequence + 1 => \E y \in lost : y.filled = h.filled
             /\ \A u \in OwnSequence + 1 .. h.filled - 1 : \E y \in lost : y.filled = u
  <2>1. h.filled \in Int
    BY DEF PostingInv, LedgerInv, PostOK
  <2>2. /\ h.filled < OwnSequence => \E y \in lost : y.filled = h.filled
        /\ \A u \in OwnSequence .. h.filled - 1 : \E y \in lost : y.filled = u
    BY <1>4 DEF PostingInv, SequenceInv
  <2>3. h.filled < OwnSequence + 1 => h.filled < OwnSequence \/ h.filled = OwnSequence
    BY <1>2, <2>1
  <2>4. OwnSequence + 1 .. h.filled - 1 \subseteq OwnSequence .. h.filled - 1
    BY <1>2, <2>1
  <2> QED
    BY <1>2, <2>2, <2>3, <2>4
<1>5. SequenceInv'
  BY <1>1, <1>2, <1>4 DEF SequenceInv
<1> QED
  BY <1>3, <1>5 DEF PostingInv

\* The head is over, with its transaction on the ledger or not: of the rest,
\* none has a Sequence filled in.
LEMMA EndKeepsPosting ==
    ASSUME PostingInv, LedgerInv', NEW h \in posting, Attested(h) \/ PostThrows(h)
    PROVE  PostingInv'
<1>1. /\ queue' = Tail(queue) /\ posting' = posting \ {h} /\ UNCHANGED validates
  BY DEF Attested, PostThrows, Dequeue, callerVars
<1>2. AtHead(h)
  BY DEF Attested, PostThrows, PostingInv, QueueInv
<1>3. \A g \in posting \ {h} : g.filled = -1 /\ ~g.landed
  BY <1>2, RestUnfilled DEF PostingInv
<1>4. queue' \in Seq(Runs \X Nat)
  BY <1>1, <1>2 DEF AtHead, PostingInv, QueueInv
<1>5. TasksInv'
  BY <1>1 DEF PostingInv, TasksInv, CallsOf
<1>6. QueueInv'
  BY <1>1, <1>3, <1>4 DEF PostingInv, QueueInv
<1>7. SequenceInv'
  BY <1>1, <1>3 DEF SequenceInv
<1> QED
  BY <1>5, <1>6, <1>7 DEF PostingInv

LEMMA RestartKeepsPosting == ASSUME PostingInv, LedgerInv', Restart PROVE PostingInv'
<1>1. posting' = {} /\ queue' = <<>> /\ UNCHANGED validates
  BY DEF Restart, callerVars
<1>2. TasksInv'
  BY <1>1 DEF PostingInv, TasksInv, CallsOf
<1> QED
  BY <1>1, <1>2 DEF PostingInv, QueueInv, SequenceInv

LEMMA PostingNext == PostingInv /\ [Next]_vars => PostingInv'
<1> SUFFICES ASSUME PostingInv, [Next]_vars PROVE PostingInv'
  OBVIOUS
<1>1. LedgerInv'
  BY LedgerNext DEF PostingInv
<1>2. CASE AwayStep
  <2>1. OwnSequence' = OwnSequence
    BY <1>2, AwayKeeps DEF OwnSequence
  <2> QED
    BY <1>1, <1>2, <2>1, AwayKeeps, PostingUnmoved
<1>3. ASSUME NEW m \in Others, NEW p \in Runs, NEW verdict \in Verdicts,
             OtherAttests(m, p, verdict)
      PROVE  PostingInv'
  <2> DEFINE e == [from |-> m, run |-> p, verdict |-> verdict]
  <2>1. ledger' = Append(ledger, e) /\ UNCHANGED <<posting, queue, validates, lost>>
    BY <1>3 DEF OtherAttests, processVars, callerVars
  <2>2. e.from # Me
    BY OtherEntry
  <2> HIDE DEF e
  <2> QED
    BY <1>1, <2>1, <2>2, PostingUnmoved, SequenceKept DEF PostingInv
<1>4. CASE OtherTraffic
  <2>1. ledger' = Append(ledger, Noise) /\ UNCHANGED <<posting, queue, validates, lost>>
    BY <1>4 DEF OtherTraffic, processVars, callerVars
  <2> QED
    BY <1>1, <2>1, NoiseIsForeign, PostingUnmoved, SequenceKept DEF PostingInv
<1>5. CASE \E h \in posting : Autofill(h) \/ Validated(h) \/ Attested(h) \/ PostThrows(h)
  BY <1>1, <1>5, AutofillKeepsPosting, ValidatedKeepsPosting, EndKeepsPosting
<1>6. CASE \/ \E p \in Runs : ValidateCached(p) \/ ValidateBegin(p)
           \/ \E x \in lost : LostLands(x)
  BY <1>1, <1>6, CachedKeepsPosting, BeginKeepsPosting, LostKeepsPosting
<1> QED
  BY <1>1, <1>2, <1>3, <1>4, <1>5, <1>6, Steps, RestartKeepsPosting DEF PostStep

\* enqueue (chain.ts:77): no submission of the member's wallet overtakes another
\* that is still heard of, between its autofill and its landing.
THEOREM NothingOvertakes == Spec => []SubmissionsInSequence
<1>1. PostingInv => SubmissionsInSequence
  <2> SUFFICES ASSUME PostingInv, NEW h \in posting, h.filled # -1, ~h.landed
               PROVE  /\ h.filled < OwnSequence => \E x \in lost : x.filled = h.filled
                      /\ h.filled > OwnSequence => \E x \in lost : x.filled = OwnSequence
    BY DEF SubmissionsInSequence
  <2>1. OwnSequence \in Nat /\ h.filled \in Int
    BY OwnType DEF PostingInv, LedgerInv, PostOK
  <2>2. h.filled > OwnSequence => OwnSequence \in OwnSequence .. h.filled - 1
    BY <2>1
  <2> QED
    BY <2>2 DEF PostingInv, SequenceInv
<1> QED
  BY <1>1, PostingInit, PostingNext, PTL DEF Spec
-----------------------------------------------------------------------------
(* What is remembered is posted.  A handler whose submission has landed has *)
(* the last word of the member about its run, unless a submission was lost; *)
(* there is at most one, the head of the queue.                             *)

OnLedger(p, verdict) ==
    \E i \in DOMAIN ledger : ledger[i] = [from |-> Me, run |-> p, verdict |-> verdict]
LostAbout(p) == \E x \in lost : x.task[1] = p
Word(p) == LastVerdict(p, Me, 1 .. Len(ledger))
Landed == {h \in posting : h.landed}

RememberedInv ==
    /\ PostingInv
    /\ approvedOnChain \in [Runs -> Verdicts \cup {"none"}]
    /\ \A h \in Landed :
          /\ OnLedger(h.task[1], h.verdict)
          /\ LostAbout(h.task[1]) \/ Word(h.task[1]) = h.verdict
    /\ \A p \in Runs : approvedOnChain[p] # "none" =>
          /\ OnLedger(p, approvedOnChain[p])
          /\ \/ LostAbout(p)
             \/ \E h \in Landed : h.task[1] = p
             \/ Word(p) = approvedOnChain[p]

LEMMA RememberedInit == Init => RememberedInv
BY PostingInit DEF Init, RememberedInv, Landed

\* A new transaction is the last word of its sender about its run.
LEMMA LastWord ==
    ASSUME LedgerInv, NEW e \in Entries, ledger' = Append(ledger, e), NEW p
    PROVE  Word(p)' = IF e.from = Me /\ e.run = p THEN e.verdict ELSE Word(p)
<1> DEFINE last == Len(ledger) + 1
           Seen == {i \in (1 .. Len(ledger)) \cap DOMAIN ledger :
                       ledger[i].from = Me /\ ledger[i].run = p}
           SeenNow == {i \in (1 .. Len(ledger')) \cap DOMAIN ledger' :
                          ledger'[i].from = Me /\ ledger'[i].run = p}
<1>1. /\ DOMAIN ledger = 1 .. Len(ledger) /\ Len(ledger) \in Nat /\ Len(ledger') = last
      /\ DOMAIN ledger' = 1 .. last
      /\ \A i \in DOMAIN ledger : ledger'[i] = ledger[i]
      /\ ledger'[last] = e
  BY DEF LedgerInv
<1>2. Word(p) = IF Seen = {} THEN "none" ELSE ledger[Max(Seen)].verdict
  BY DEF Word, LastVerdict
<1>3. Word(p)' = IF SeenNow = {} THEN "none" ELSE ledger'[Max(SeenNow)].verdict
  BY DEF Word, LastVerdict
<1>4. CASE e.from = Me /\ e.run = p
  <2>1. last \in SeenNow /\ SeenNow \subseteq 1 .. last
    BY <1>1, <1>4
  <2> HIDE DEF SeenNow
  <2>2. last \in Nat /\ SeenNow # {}
    BY <1>1, <2>1
  <2> HIDE DEF last
  <2>3. Max(SeenNow) \in SeenNow /\ \A y \in SeenNow : Max(SeenNow) >= y
    BY <2>1, <2>2, MaxIn
  <2>4. Max(SeenNow) \in 1 .. last /\ Max(SeenNow) >= last
    BY <2>1, <2>3
  <2>5. Max(SeenNow) = last
    BY <2>2, <2>4
  <2> QED
    BY <1>1, <1>3, <1>4, <2>1, <2>5
<1>5. CASE ~(e.from = Me /\ e.run = p)
  <2>1. SeenNow = Seen /\ Seen \subseteq DOMAIN ledger
    BY <1>1, <1>5
  <2> HIDE DEF SeenNow, Seen
  <2>2. Seen # {} => Max(Seen) \in DOMAIN ledger
    BY <1>1, <2>1, MaxIn
  <2> QED
    BY <1>1, <1>2, <1>3, <1>5, <2>1, <2>2
<1> QED
  BY <1>4, <1>5

LEMMA OnLedgerKept ==
    ASSUME LedgerInv, Grows, NEW p, NEW verdict, OnLedger(p, verdict)
    PROVE  OnLedger(p, verdict)'
BY LedgerKept DEF OnLedger

\* Steps that put nothing on the ledger and end no handler that has landed.
LEMMA NothingLands ==
    ASSUME RememberedInv, PostingInv', UNCHANGED <<approvedOnChain, ledger>>,
           lost \subseteq lost', Landed' = Landed
    PROVE  RememberedInv'
<1>1. \A p : (LostAbout(p) => LostAbout(p)') /\ Word(p)' = Word(p)
  BY DEF LostAbout, Word, LastVerdict
<1>2. \A p, verdict : OnLedger(p, verdict)' <=> OnLedger(p, verdict)
  BY DEF OnLedger
<1> QED
  BY <1>1, <1>2 DEF RememberedInv

\* Transactions that are not about run p do not change the word about it.
LEMMA ForeignLands ==
    ASSUME RememberedInv, PostingInv', UNCHANGED <<approvedOnChain, lost>>, Landed' = Landed,
           NEW e \in Entries, ledger' = Append(ledger, e),
           e.from # Me \/ LostAbout(e.run)
    PROVE  RememberedInv'
<1>1. Grows /\ LedgerInv
  BY DEF Grows, RememberedInv, PostingInv
<1>2. \A p, verdict : OnLedger(p, verdict) => OnLedger(p, verdict)'
  BY <1>1, OnLedgerKept
<1>3. \A p : LostAbout(p)' <=> LostAbout(p)
  BY DEF LostAbout
<1>4. \A p : Word(p)' = Word(p) \/ LostAbout(p)
  BY <1>1, LastWord
<1> QED
  BY <1>2, <1>3, <1>4 DEF RememberedInv

LEMMA ValidatedRemembered ==
    ASSUME RememberedInv, PostingInv', NEW h \in posting, Validated(h)
    PROVE  RememberedInv'
<1> DEFINE run == h.task[1]
           e == [from |-> Me, run |-> run, verdict |-> h.verdict]
<1>1. /\ ledger' = Append(ledger, e) /\ h.filled = OwnSequence /\ ~h.landed
      /\ posting' = (posting \ {h}) \cup {[h EXCEPT !.landed = TRUE]}
      /\ UNCHANGED <<approvedOnChain, lost>>
  BY DEF Validated, Lands
<1>2. PostOK(h) /\ LedgerInv /\ QueueInv /\ OwnSequence \in Nat
  BY OwnType DEF RememberedInv, PostingInv, LedgerInv
<1>3. h.filled # -1 /\ AtHead(h)
  BY <1>1, <1>2 DEF QueueInv
<1>4. Landed = {}
  BY <1>1, <1>2, <1>3, RestUnfilled DEF Landed
<1>5. PICK new : new = [h EXCEPT !.landed = TRUE]
  OBVIOUS
<1>6. new = [task |-> h.task, verdict |-> h.verdict, filled |-> h.filled, landed |-> TRUE]
  BY <1>2, <1>5, LandedRecord DEF PostOK
<1>7. new.task = h.task /\ new.verdict = h.verdict /\ new.landed
  BY <1>6
<1>8. Landed' = {new}
  BY <1>1, <1>4, <1>5, <1>7 DEF Landed
<1>9. e \in Entries /\ e.from = Me /\ e.run = run /\ e.verdict = h.verdict
  BY <1>2 DEF PostOK, Entries, Members
<1> HIDE DEF e, run
<1>10. \A p : Word(p)' = IF p = run THEN h.verdict ELSE Word(p)
  BY <1>1, <1>2, <1>9, LastWord
<1>11. OnLedger(run, h.verdict)'
  <2>1. ledger'[Len(ledger')] = e /\ Len(ledger') \in DOMAIN ledger'
    BY <1>1, <1>2, <1>9 DEF LedgerInv
  <2> QED
    BY <2>1 DEF OnLedger, e
<1>12. \A p, verdict : OnLedger(p, verdict) => OnLedger(p, verdict)'
  <2>1. Grows
    BY <1>1, <1>9 DEF Grows
  <2> QED
    BY <1>2, <2>1, OnLedgerKept
<1>13. \A p : LostAbout(p)' <=> LostAbout(p)
  BY <1>1 DEF LostAbout
<1>14. \A g \in Landed' : /\ OnLedger(g.task[1], g.verdict)'
                          /\ LostAbout(g.task[1])' \/ Word(g.task[1])' = g.verdict
  BY <1>7, <1>8, <1>10, <1>11 DEF run
<1>15. ASSUME NEW p \in Runs, approvedOnChain'[p] # "none"
       PROVE  /\ OnLedger(p, approvedOnChain[p])'
              /\ \/ LostAbout(p)'
                 \/ \E g \in Landed' : g.task[1] = p
                 \/ Word(p)' = approvedOnChain'[p]
  <2>1. PICK v : v = approvedOnChain[p] /\ v = approvedOnChain'[p]
    BY <1>1
  <2>2. OnLedger(p, v) /\ (LostAbout(p) \/ Word(p) = v)
    BY <1>4, <1>15, <2>1 DEF RememberedInv
  <2>3. OnLedger(p, v)'
    BY <1>12, <2>2
  <2>4. OnLedger(p, approvedOnChain[p])'
    BY <2>1, <2>3
  <2> QED
    BY <1>7, <1>8, <1>10, <1>13, <2>1, <2>2, <2>4 DEF run
<1>16. approvedOnChain' \in [Runs -> Verdicts \cup {"none"}]
  BY <1>1 DEF RememberedInv
<1> QED
  BY <1>14, <1>15, <1>16 DEF RememberedInv

LEMMA AttestedRemembered ==
    ASSUME RememberedInv, PostingInv', NEW h \in posting, Attested(h)
    PROVE  RememberedInv'
<1> DEFINE run == h.task[1]
<1>1. /\ posting' = posting \ {h} /\ UNCHANGED <<ledger, lost>> /\ h \in Landed
      /\ approvedOnChain' = [approvedOnChain EXCEPT ![run] = h.verdict]
  BY DEF Attested, Dequeue, Landed, ledgerVars
<1>2. PostOK(h) /\ QueueInv /\ run \in Runs /\ h.verdict \in Verdicts
  BY DEF RememberedInv, PostingInv, LedgerInv, PostOK
<1>3. AtHead(h)
  BY <1>1, <1>2 DEF QueueInv, Landed
<1>4. Landed' = {} /\ Landed = {h}
  BY <1>1, <1>2, <1>3, RestUnfilled DEF Landed
<1>5. \A p : LostAbout(p)' <=> LostAbout(p)
  BY <1>1 DEF LostAbout
<1>6. \A p, verdict : /\ OnLedger(p, verdict)' <=> OnLedger(p, verdict)
                      /\ Word(p)' = Word(p)
  BY <1>1 DEF OnLedger, Word, LastVerdict
<1>7. /\ OnLedger(run, h.verdict) /\ (LostAbout(run) \/ Word(run) = h.verdict)
  BY <1>1 DEF RememberedInv
<1>8. /\ approvedOnChain' \in [Runs -> Verdicts \cup {"none"}]
      /\ approvedOnChain'[run] = h.verdict
      /\ \A p \in Runs \ {run} : approvedOnChain'[p] = approvedOnChain[p]
  BY <1>1, <1>2 DEF RememberedInv
<1> HIDE DEF run
<1>9. ASSUME NEW p \in Runs, approvedOnChain'[p] # "none"
      PROVE  /\ OnLedger(p, approvedOnChain'[p])
             /\ LostAbout(p) \/ Word(p) = approvedOnChain'[p]
  <2>1. CASE p = run
    BY <1>7, <1>8, <2>1
  <2>2. CASE p # run
    BY <1>4, <1>8, <1>9, <2>2 DEF RememberedInv, run
  <2> QED
    BY <2>1, <2>2
<1> QED
  BY <1>4, <1>5, <1>6, <1>8, <1>9 DEF RememberedInv

LEMMA ThrownRemembered ==
    ASSUME RememberedInv, PostingInv', NEW h \in posting, PostThrows(h)
    PROVE  RememberedInv'
<1>1. /\ posting' = posting \ {h} /\ UNCHANGED <<ledger, approvedOnChain>> /\ AtHead(h)
  BY DEF PostThrows, Dequeue
<1>2. QueueInv
  BY DEF RememberedInv, PostingInv
<1>3. lost \subseteq lost' /\ (h \in Landed => Submission(h) \in lost')
  <2>1. CASE UNCHANGED lost /\ ~h.landed
    BY <2>1 DEF Landed
  <2>2. CASE lost' = IF h.filled = -1 THEN lost ELSE lost \cup {Submission(h)}
    BY <1>2, <2>2 DEF QueueInv, Landed
  <2> QED
    BY <2>1, <2>2 DEF PostThrows
<1>4. Landed' = {} /\ Landed \subseteq {h}
  BY <1>1, <1>2, RestUnfilled DEF Landed
<1>5. \A p : LostAbout(p) => LostAbout(p)'
  BY <1>3 DEF LostAbout
<1>6. h \in Landed => LostAbout(h.task[1])'
  BY <1>3 DEF LostAbout, Submission
<1>7. \A p, verdict : /\ OnLedger(p, verdict)' <=> OnLedger(p, verdict)
                      /\ Word(p)' = Word(p)
  BY <1>1 DEF OnLedger, Word, LastVerdict
<1> QED
  BY <1>1, <1>4, <1>5, <1>6, <1>7 DEF RememberedInv

LEMMA RememberedNext == RememberedInv /\ [Next]_vars => RememberedInv'
<1> SUFFICES ASSUME RememberedInv, [Next]_vars PROVE RememberedInv'
  OBVIOUS
<1>1. PostingInv' /\ LedgerInv
  BY PostingNext DEF RememberedInv, PostingInv
<1>2. CASE AwayStep
  <2>1. Landed' = Landed
    BY <1>2, AwayKeeps DEF Landed
  <2> QED
    BY <1>1, <1>2, <2>1, AwayKeeps, NothingLands
<1>3. CASE Restart
  <2>1. approvedOnChain' = [p \in Runs |-> "none"] /\ Landed' = {}
    BY <1>3 DEF Restart, Landed
  <2> QED
    BY <1>1, <2>1 DEF RememberedInv
<1>4. ASSUME NEW p \in Runs, ValidateCached(p) \/ ValidateBegin(p) PROVE RememberedInv'
  <2>1. /\ posting' = posting \/ (posting' = posting \cup {Posted(p)} /\ ~Posted(p).landed)
        /\ UNCHANGED <<approvedOnChain, ledger, lost>>
    BY <1>4, PostedOK DEF ValidateCached, ValidateBegin, processVars, ledgerVars
  <2>2. Landed' = Landed
    BY <2>1 DEF Landed
  <2> QED
    BY <1>1, <2>1, <2>2, NothingLands
<1>5. ASSUME NEW h \in posting, Autofill(h) PROVE RememberedInv'
  <2>1. PICK s : posting' = (posting \ {h}) \cup {[h EXCEPT !.filled = s]}
    BY <1>5 DEF Autofill
  <2>2. UNCHANGED <<approvedOnChain, ledger, lost>> /\ h.filled = -1
    BY <1>5 DEF Autofill, ledgerVars
  <2>3. PostOK(h) /\ ~h.landed
    BY <2>2 DEF RememberedInv, PostingInv, LedgerInv, QueueInv
  <2>4. [h EXCEPT !.filled = s].landed = h.landed
    BY <2>3 DEF PostOK
  <2>5. Landed' = Landed
    BY <2>1, <2>3, <2>4 DEF Landed
  <2> QED
    BY <1>1, <2>2, <2>5, NothingLands
<1>6. ASSUME NEW h \in posting, Validated(h) \/ Attested(h) \/ PostThrows(h)
      PROVE  RememberedInv'
  BY <1>1, <1>6, ValidatedRemembered, AttestedRemembered, ThrownRemembered
<1>7. ASSUME NEW x \in lost, LostLands(x) PROVE RememberedInv'
  <2> DEFINE e == [from |-> Me, run |-> x.task[1], verdict |-> x.verdict]
  <2>1. /\ ledger' = Append(ledger, e) /\ e.run = x.task[1]
        /\ UNCHANGED <<posting, approvedOnChain, lost>>
    BY <1>7 DEF LostLands, Lands, processVars
  <2>2. e \in Entries
    BY <1>1, OwnEntry DEF LedgerInv
  <2> HIDE DEF e
  <2>3. LostAbout(e.run) /\ Landed' = Landed
    BY <2>1 DEF LostAbout, Landed
  <2> QED
    BY <1>1, <2>1, <2>2, <2>3, ForeignLands
<1>8. ASSUME NEW m \in Others, NEW p \in Runs, NEW verdict \in Verdicts,
             OtherAttests(m, p, verdict)
      PROVE  RememberedInv'
  <2> DEFINE e == [from |-> m, run |-> p, verdict |-> verdict]
  <2>1. ledger' = Append(ledger, e) /\ UNCHANGED <<posting, approvedOnChain, lost>>
    BY <1>8 DEF OtherAttests, processVars
  <2>2. e \in Entries /\ e.from # Me
    BY OtherEntry
  <2> HIDE DEF e
  <2>3. Landed' = Landed
    BY <2>1 DEF Landed
  <2> QED
    BY <1>1, <2>1, <2>2, <2>3, ForeignLands
<1>9. CASE OtherTraffic
  <2>1. ledger' = Append(ledger, Noise) /\ UNCHANGED <<posting, approvedOnChain, lost>>
    BY <1>9 DEF OtherTraffic, processVars
  <2>2. Landed' = Landed
    BY <2>1 DEF Landed
  <2> QED
    BY <1>1, <2>1, <2>2, NoiseIsForeign, ForeignLands
<1> QED
  BY <1>2, <1>3, <1>4, <1>5, <1>6, <1>7, <1>8, <1>9, Steps DEF PostStep

\* approvedOnChain (signer/index.ts:191): a verdict the member remembers is on the
\* ledger, and its last word there unless a submission about the run was lost or has
\* just been validated.
THEOREM WhatIsRememberedIsPosted == Spec => []RememberedIsPosted
<1>1. RememberedInv => RememberedIsPosted
  BY DEF RememberedInv, RememberedIsPosted, OnLedger, LostAbout, Word, Landed
<1> QED
  BY <1>1, RememberedInit, RememberedNext, PTL DEF Spec
=============================================================================
