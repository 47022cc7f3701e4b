---------------------------- MODULE Wall2Checks ----------------------------
(***************************************************************************)
(* What a member verifies by itself before it attests a request or signs a *)
(* token: server/src/signer/verify.ts, with token.ts and the pricing of    *)
(* config.ts.  Signing is modelled by what verification tells apart: a     *)
(* bankSignature is the payload it was made over, with the bank's pinned   *)
(* key, or NoSignature.  messageHex is the token payload it encodes.       *)
(***************************************************************************)
EXTENDS Naturals

CONSTANTS
    RequestIds,    \* the requestIds in use
    MeterIds,      \* MTR-..., at least two
    AmountsKwh,    \* units asked for
    Rate           \* RATE_ZAR_PER_KWH, in cents

ASSUME RateAssumption == Rate \in Nat \ {0} /\ AmountsKwh \subseteq Nat \ {0}

NoSignature == [none |-> TRUE]

Requests == [requestId : RequestIds, meterId : MeterIds, amountKwh : AmountsKwh]

priceZar(amountKwh) == amountKwh * Rate

\* The bank issues one debitRef per requestId, so it is named after it.
SignedPayload(debit) ==
    [debitRef |-> debit.debitRef, requestId |-> debit.requestId,
     meterId |-> debit.meterId, amountKwh |-> debit.amountKwh,
     amount |-> debit.amount]

\* The debit that the bank confirms and signs for a request.
BankDebit(request) ==
    LET payload == [debitRef |-> request.requestId, requestId |-> request.requestId,
                    meterId |-> request.meterId, amountKwh |-> request.amountKwh,
                    amount |-> priceZar(request.amountKwh)]
    IN [debitRef |-> payload.debitRef, requestId |-> payload.requestId,
        meterId |-> payload.meterId, amountKwh |-> payload.amountKwh,
        amount |-> payload.amount, bankSignature |-> payload]

\* deriveTokenNonce hashes the debitRef.
DeriveTokenNonce(debitRef) == <<"nonce", debitRef>>

BuildTokenPayload(debit) ==
    [meterId |-> debit.meterId, amountKwh |-> debit.amountKwh,
     debitRef |-> debit.debitRef, nonce |-> DeriveTokenNonce(debit.debitRef)]
-----------------------------------------------------------------------------
VerifyBankSignature(debit) == debit.bankSignature = SignedPayload(debit)

ValidateDebitForRequest(request, debit) ==
    /\ VerifyBankSignature(debit)
    /\ debit.requestId = request.requestId
    /\ debit.meterId = request.meterId
    /\ debit.amountKwh = request.amountKwh
    /\ debit.amount = priceZar(request.amountKwh)

\* Mutant of RunWall1TokenChecks: the nonce of the token is not compared.
ChecksWithoutNonce(body) ==
    LET expected == BuildTokenPayload(body.debit) IN
    /\ ValidateDebitForRequest(body.request, body.debit)
    /\ body.tokenPayload.meterId = expected.meterId
    /\ body.tokenPayload.amountKwh = expected.amountKwh
    /\ body.tokenPayload.debitRef = expected.debitRef
    /\ body.message = body.tokenPayload

RunWall1TokenChecks(body) ==
    /\ ValidateDebitForRequest(body.request, body.debit)
    /\ body.tokenPayload = BuildTokenPayload(body.debit)
    /\ body.message = body.tokenPayload
-----------------------------------------------------------------------------
(* Round-2 bodies: what the coordinator sends, and the deviations from it  *)
(* that server/test/bank-signer.checks.test.ts sends.                      *)

HonestBody(request) ==
    LET token == BuildTokenPayload(BankDebit(request)) IN
    [request |-> request, debit |-> BankDebit(request),
     tokenPayload |-> token, message |-> token]

Retold(body, token) == [body EXCEPT !.tokenPayload = token, !.message = token]

Fresh(token) == [token EXCEPT !.nonce = <<"fresh">>]

\* The token is for another meter, whatever meter the request names.
Retargeted(honest) ==
    UNION {{[Retold(honest, [honest.tokenPayload EXCEPT !.meterId = m])
                EXCEPT !.request.meterId = n] : n \in MeterIds} : m \in MeterIds}

Reworded(honest) == {[honest EXCEPT !.request = other] : other \in Requests}

Repriced(honest) ==
    {[honest EXCEPT !.debit.amountKwh = k, !.debit.amount = priceZar(k)] : k \in AmountsKwh}

DeviationsFrom(honest) ==
    {honest, Retold(honest, Fresh(honest.tokenPayload)),
     [honest EXCEPT !.message = Fresh(honest.tokenPayload)],
     [honest EXCEPT !.debit.bankSignature = NoSignature]}
        \cup Reworded(honest) \cup Retargeted(honest) \cup Repriced(honest)

Bodies(request) == DeviationsFrom(HonestBody(request))
=============================================================================
