# NoGhost: TLA+ models, checks and proofs

NoGhost sells prepaid electricity tokens. A token may exist only if two
independent "walls" agree: the bank has confirmed and signed the customer's
debit (wall 1), and two of three consortium members have approved the request on
the XRP Ledger and taken part in a FROST signing ceremony (wall 2). A coordinator
drives each request through both walls, records the sale with a multisigned
ledger transaction, and hands the token to a meter. When something fails after
the debit, the coordinator must get the money back.

This directory holds TLA+ modules that follow the code action by action, TLC
configurations that check them on small instances, and theorems about them
checked by TLAPS. Source paths below are relative to `src/server/src/` unless they
start with `src/`.

1. [The system](#1-the-system)
2. [The modules and the code](#2-the-modules-and-the-code)
3. [What the runs check](#3-what-the-runs-check)
4. [Where the code and its documents disagree](#4-where-the-code-and-its-documents-disagree)
5. [What is proved](#5-what-is-proved)
6. [What is not modelled](#6-what-is-not-modelled)
7. [What could come next](#7-what-could-come-next)
8. [Running it](#8-running-it)

## 1. The system

### Components, their state and their operations

| Component | State it keeps | Operations | What makes it correct |
| --- | --- | --- | --- |
| Pipeline, `coordinator/pipeline.ts` | the record of each request: status, debit, publication, token, signer set, receipt, `debitReversed` | `runPipeline`: policy gate, pre-flight poll, debit, publish, gather approvals, ceremony with retries, meter pre-check, multisigned receipt, delivery; `reject`, `abandon` | every run ends; nothing is signed, recorded or dispensed out of order; a debit that buys nothing is reversed |
| Request store, `coordinator/store.ts` | capped maps of records, alerts and audit; consumed debitRefs; governance overlay; health; reconciliation | `createRecord` (evicts), `transition`, `claimDebitRef`, `setMemberStatus`, `recomputeReconciliation` | submission is idempotent on requestId; the reconciliation sums tell the truth |
| Meter, `coordinator/meter.ts` | redeemed nonces and debitRefs | `verifyTokenForMeter`, `deliverToken` | one debit is dispensed at most once |
| Coordinator API, `coordinator/index.ts` | sliding-window rate limiter, WebSocket clients | submit, governance and demo routes, snapshot, hub | a requestId in the store is not run again; no window admits more than its limit |
| Health poller and demo scenarios, `coordinator/health.ts`, `demo.ts` | cached health; baseline and in-flight counter | poll every 3 s; set preconditions, submit, restore | the operator's own settings survive overlapping scenarios |
| Mock bank, `bank/index.ts` | demo mode, debit log, reversal marks | debit (idempotent per requestId), reverse (idempotent), set mode | one confirmed debit per requestId |
| Signer service, `signer/index.ts`, `verify.ts` | online and refuse switches, ceremony sessions (nonces), attestations made | validate, round 1, round 2, sign-receipt, switches, sweep of expired sessions | no partial before the bank's signature and the approvals on the ledger; nonces used once, unless two calls overlap on one session; only the debit's own token is signed |
| Ledger client, `common/chain.ts` | per-account submission queue; the ledger holds publications, approvals, receipts and each account's Sequence | publish, attest, read approvals, prepare / sign / submit receipt | receipts are accepted once each and in Sequence order; a wallet's submissions do not overtake each other |
| FROST, `frost/frost.ts` | none | keygen, round 1, round 2, share verification, aggregation | any t shares sign, fewer do not; a bad share is blamed on its maker |
| Dashboard store, `src/dashboard/src/store.ts` | view, connection, socket, poll timer, toasts | snapshot, poll, reconnect, incremental events | the view does not go back in time; warnings are noticed; it ends up live |
| Setup scripts, `scripts/setup-keys.ts`, `setup-xrpl.ts` | key material on disk; the authority account | key ceremony; fund, signer list, self-test, disable master, write | what is on disk belongs together; the account is never locked out |
| Dashboard UI, smoke scripts | none that matters | rendering; straight-line checks by hand | |

### How they interact

The services talk by HTTP. Every call of the coordinator goes through `fetchJson`
with an abort deadline: 10 s for the debit, 3 s for the reversal and for round 1,
5 s for round 2. When the deadline passes the coordinator goes on without the
answer, but the peer, which knows nothing of it, still handles the call. Members
and coordinator also share the ledger: members read the approvals there before
they sign. The meter is a module inside the coordinator's process and is called
synchronously. The dashboard follows the coordinator over one WebSocket and polls
its snapshot while the socket is down. The setup scripts run before everything
else and leave the keys that the services load.

### What is hard about it

- **Interleaving at awaits.** All services are single-threaded JavaScript, so
  the unit of interleaving is the code between two `await`s. Several runs are in
  flight at once, the operator changes modes and revocations at any moment, and
  a member's round-2 handler reads its session, awaits the ledger for up to
  4.5 s and then signs with what it read.
- **Late and lost calls.** A debit may be confirmed after the coordinator has
  rejected the request; an attestation or a partial may be made after the run
  was abandoned; a reversal may succeed while its answer is lost.
- **Ambiguous ledger failures.** Publication, attestation, receipt and the
  transactions of the setup may reach the ledger although the call throws: at once,
  or long after the sender has drawn its conclusions, a receipt even after the bank
  has reversed the debit.
- **Identity.** `requestHash` covers the server-side timestamp, so publication,
  approvals and receipt belong to one *run*; the bank's log entry, the members'
  sessions and the debitRef belong to the *requestId*. A requestId can be run
  twice, because the store evicts its oldest record even if it is in flight.
- **Recovery.** Everything the coordinator, bank and members know is in memory.
- **Two copies of one state.** Dashboard and coordinator cap and order the same
  lists independently, fed by polls and events that arrive in any order.

`PROJECT.json` lists each hazard with the line where it bites and the properties
that cover it.

## 2. The modules and the code

```
Vending path
  Calls ──┬── BankService ──────────┐
          └── Ledger ──┬── Members ─┼─ TwoWalls ─┬─ TwoWallsInv ─── MoneyInv ── MCTwoWalls ─┬─ DocClaims
                       └── Pipeline ┘      │     └─ Reconciliation ─────────────────────────┴─ MCReconciliation
                                    V == INSTANCE Vending
  proofs:  TwoWallsProofs ── MoneyProofs (with Reconciliation)

One member        Wall2Checks ── SignerService ─┬─ MCSignerService
                                       │        └─ SignerServiceProofs
                                NV == INSTANCE NonceUse ── NonceUseProofs
Dashboard         Gateway ── DashboardFeed ─┬─ MCDashboardFeed
                                            └─ DashboardFeedProofs
Demo scenarios    DemoControl ─┬─ MCDemoControl
                               └─ DemoControlProofs
Cryptography      Frost ─┬─ MCFrost
                         └─ FrostProofs
Setup             KeyCeremonies ── KeyCeremoniesProofs
```

| Module | Models | State |
| --- | --- | --- |
| `Calls` | HTTP calls and runs: `http.ts`, and the points of `runPipeline` at which it awaits | `pc`, `net`, `waiting`, `failed`, `reply`, `faults` |
| `BankService` | `bank/index.ts` | `mode`, `debitLog`, `reversed` |
| `Ledger` | the ledger as `common/chain.ts` uses it | `published`, `approvals`, `receipts`, `authSeq`, `prepared`, `pending` |
| `Members` | `signer/index.ts`, `signer/verify.ts`, as the vending path meets them | `up`, `refusing`, `sessions`, `approvedOnChain`, `checking`, `signing`, `partials` |
| `Pipeline` | `coordinator/pipeline.ts`, `meter.ts`, and the parts of `store.ts` and `index.ts` it depends on | `nruns`, `req`, `status`, `online`, `refused`, `chosen`, `token`, `debitReversed`, `dispensed`, `revoked`, `merchantRevoked` |
| `TwoWalls` | the services together, the operator, the properties of the vending path | `changes` |
| `TwoWallsInv`, `MoneyInv` | the inductive invariants of the walls and of the money | |
| `Vending` | what a customer is promised (abstract) | `money`, `goods` |
| `Reconciliation` | `computeReconciliation` and `onTerminal` of `store.ts`, beside the vending path | `lastDelta`, `alerts` |
| `DemoControl` | `coordinator/demo.ts`, and of `health.ts` and `index.ts` the polls and control calls it depends on | `real`, `cache`, `revoked`, `baseline`, `inFlight`, the stage and calls of each scenario; `overtaken` (history) |
| `Wall2Checks` | `signer/verify.ts`, `common/token.ts`, pricing of `common/config.ts` | none: operators over requests, debits and round-2 bodies |
| `SignerService` | one member's whole process: `signer/index.ts` with `enqueue`, `submitTx`, `readApprovals` of `common/chain.ts` | `online`, `refuse`, `sessions`, `approvedOnChain`, `posting`, `queue`, `awaiting`, `cosigning`, `ledger`, `lost`, `uses`, `released`, and what its callers did (`madeFor`, `overlapped`, `calls`, `validates`) |
| `NonceUse` | what FROST asks of nonces (abstract) | `made`, `kept`, `uses` |
| `Gateway` | the coordinator as clients see it: submission with the rate limiter, snapshot, capped lists, hub | `now`, `merchantHits`, `records`, `requestOrder`, `alerts`, `connected`, `frames` |
| `DashboardFeed` | `src/dashboard/src/store.ts` on top of `Gateway` | `ws`, `greeted`, `polling`, `polls`, `view`, `conn`, `toasted` |
| `Frost` | `frost/frost.ts` | `keys`, `nonces`, `list`, `rho`, `c`, `partials`, `signature` |
| `KeyCeremonies` | `scripts/setup-keys.ts`, `scripts/setup-xrpl.ts` | `run`, `stage`, `written`, `attempts`, `funded`, `authority`, `disk`, `torn` |
| `MC...` | instances for TLC | |
| `DocClaims` | sentences of documents and comments that the code does not keep | |
| `...Proofs` | the proofs | |

### How state and actions correspond to the code: the vending path

- **A run** is one execution of `runPipeline`. `pc[p]` names the await at which run
  `p` is suspended; an action takes a run from one await to the next and
  contains every synchronous call in between. `Submit` for instance is the route
  handler, `createRecord` with its eviction and the policy gate, because nothing
  is awaited between them.
- **A call** is a message in `net`. The peer takes it out when it handles it:
  soon, after the deadline, or never. An answer reaches the run only if it still
  waits for that very call (`Answer`, `Settle`); otherwise it is dropped, like
  the response on an aborted fetch. Deadlines are the actions `DebitTimesOut`,
  `MemberTimesOut`, the fault branch of `CeremonyFails` (round 2) and of
  `ReverseSettled`. Calls are asynchronous but not repeated: the code has no
  retry of a call and HTTP delivers a request at most once.
- **`Promise.all`** fan-outs (validate, round 1) are the set `waiting[p]`; round 2
  is sequential in the order of `chosen`, one member at a time.
- **Handlers that await** are split there. `ValidateBegin` fixes the verdict and
  leaves a task in `checking`, `ValidateEnd` posts it. `Round2Begin` reads the
  session into a task in `signing` *without removing it*, as the code does, and
  `Round2Sign`, `Round2NoPartial` or `Round2Throws` finishes. Everything else of
  all services may happen in between.
- **Nonces** are identified by the run and the set of refusals seen when round 1
  asked for them: a run opens one ceremony per such set. `round2Sign` refuses
  commitments that are not its own nonces', so a partial needs
  `h.commitments = h.nonces`. A session overwritten by another run of the same
  requestId therefore gives an error, not a signature.
- **The bank's signature** is whether it verifies: the outcome `CONFIRMED` carries
  a valid one, `OMIT_SIGNATURE` does not. `Confirmed(p)` is that outcome for the
  requestId of run `p`, and is what members check with the pinned key.
- **Ledger failures**: where the client may throw, the transaction goes to `pending`
  (`Lose`), and `LandsLate` puts it on the ledger at any later moment, or never: after the
  run was abandoned, after the debit was reversed, after others have moved on. A receipt
  lands only at the account's Sequence, and one that is pending may already count in the
  open ledger that `autofill` reads (`OpenSequences`).
- **Reads that lag**: `ApprovalsUnread` and the fault branch of `Round2NoPartial`
  let a reader miss approvals that the ledger holds. `Round2Sign` reads and signs in one
  step, which here is the same as doing it in two, since in this module an approval on the ledger is
  final. Where it is not, in `SignerService`, the two are apart.
- **The reconciliation panel** takes part in the very step in which a run becomes
  terminal (`ReconNext == Next /\ OnTerminal`), because `transition` notifies its
  listeners synchronously. `Delta` reads the records that are still stored.

### The other components

- **A control call** of the demo (`setBankMode`, `setSignerOnline`) is three
  steps: the peer sets its switch, the refresh is answered, the answer is written
  to the cache. A call that fails goes on to its refresh all the same, since
  `tryFetchJson` never throws. `work[o]` holds the calls that owner `o` awaits, in
  parallel where the code uses `Promise.all`. An action of a scenario needs
  `work[s] = {}` and does everything up to the next `await`.
- **`SignerService`** has one action per stretch of a handler between two awaits. A
  validate handler passes through `posting` (queued, autofilled, submitted); round-2 and
  sign-receipt handlers through `awaiting` and `cosigning`, where each read of the ledger is a step
  of its own, up to `Attempts` of them, and the release a later one. What the handler uses is what its last
  read `found`. `ledger` is the authority account's history, so `readApprovals` is what is
  left of it in the last `Window` transactions. The other members attest as they like, again
  and otherwise than before. `Tick` ages the sessions and `Sweep`
  is the timer; round 1 and round 2 sweep too, as in the code. A submission whose call threw, or
  that was under way at a `Restart`, goes to `lost` and lands at any later moment or never. No
  order of calls is assumed: `Round2Begin` takes any session, any passing body and any
  commitments, `CosignBegin` a requestHash and a prepared receipt that need not belong together,
  and both may be called any number of times, side by side. Round-2 bodies are the
  honest one and those the tests deviate to (`Wall2Checks!Bodies`).
- **`Gateway` and `DashboardFeed`** share the variables of one system. A broadcast
  appends to `frames` if the hub has the connection. A poll is an entry of `polls` and
  awaits twice: `PollHead` is the check that the socket is closed, `PollBody` the
  application of the body. The reducer is `Reduce` and `ApplySnapshot`.
- **`Frost`** takes a point to be its discrete logarithm, and the hashes to be a
  random oracle that may answer any of a small set for a commitment list. The
  arithmetic is the code's, modulo a small prime: exponentiation by squaring, inverse
  by Fermat, Lagrange at 0, binding factors, per-share equation. A ceremony uses the list a
  coordinator may send: in any order, with one falsified or one repeated entry.
- **`KeyCeremonies`** numbers the runs of each script; a file on disk holds the
  number of the run that wrote it. `Stop` is a kill or a step that throws, possible
  anywhere; `Submit` may leave the transaction on the ledger and yet stop the script.

### Choices a reader should know

- debitRef is random per requestId and never collides, so a debit is identified
  with its requestId. `claimDebitRef` refuses only a debitRef claimed by *another*
  requestId; with this identification `DEBIT_ALREADY_CONSUMED` is unreachable and
  not modelled.
- Two submissions of the same requestId carry the same body.
- A health poll is one step: members answer about one moment. A member that is up
  may be missed by a poll; that counts as a fault.
- `readRequestTx`, the first await of validate, is folded into `ValidateBegin`. Its
  failure is a call that is never handled.
- A member asked to co-sign a receipt keeps no state, so the call, the check and
  the answer are the one step `FragmentSigned`.
- In `TwoWalls` members follow their code: a partial that fails its share
  verification (`BAD_PARTIAL_SIGNATURE`) does not occur there. It does in `Frost`.
- In `DemoControl` the submitted request is a stage that ends: what it does is
  `TwoWalls`'s subject. The presenter turns the bank and member switches by hand
  and leaves merchants alone. A control call that its caller has given up is not applied later.
- Two history variables record an order of steps that the code does not: `overlapped` has the nonces
  that two round-2 handlers at once were about to sign with, `overtaken` says that a periodic poll was
  answered before a switch was turned and written after it. The properties that mention them
  make their exception visible, and section 4 says why each is needed.
- In `Gateway` a request is pending until it ends, and only requests and alerts
  travel one at a time; the other parts of the snapshot are always sent whole.
  Requests are of one merchant, since merchants share nothing in the limiter.
- Hashing, canonical JSON and hexadecimal are the identity of what they encode,
  which is sound because each is injective on what the code feeds it.

### Bounds

In the vending path, three bounds exist only to keep the state space finite: `MaxRuns` (pipeline runs
started), `MaxFaults` (calls that time out, polls that miss a member, failures and
lags of the ledger client) and `MaxChanges` (operator switches). They appear in the guards of
`Submit`, `Fault` and `OperatorStep` and nowhere else. With `Persistent` things go on failing
without end, and `MaxFaults` bounds only how far they are counted.
`LandsLate` needs no bound: it takes what `Lose` has left. `RequestCap` is not such a bound: it is `REQUEST_CAP`, made small so that eviction happens. `N` and `T` are the
real 3 and 2 in every run of it. The theorems hold for every value of all of them.

| Module | Bounds, in the guards of | Constants of the code, made small |
| --- | --- | --- |
| `DemoControl` | `MaxPolls` (`HealthPoll`), `MaxDials` (`Dial`) | `Merchants`, the length of the rotation: 3 in the code, 1 in the runs, so that two scenarios get the same merchant, as the first and the fourth do with the real rotation |
| `SignerService` | `MaxNonces` (`Round1`), `MaxCalls` (round-2 and sign-receipt calls that reach the ledger), `MaxValidates`, `MaxTx` (others' transactions), `MaxFaults` (switches, restarts, failures) | `Window` (200), `Attempts` (4), `TTL` |
| `Gateway`, `DashboardFeed` | `MaxTime`, `MaxAlerts`, `MaxPolls`, `MaxDrops` (connections and polls that fail) | `RequestCap`, `AlertCap`, `RateWindow`, `RateMax` |
| `Frost` | `Coefficients`, `Nonces`, `Hashes`: the scalars drawn or answered; `Liars` (`SignShare`), members that answer falsely | `L`, the group order |
| `KeyCeremonies` | `MaxRuns` of each script | none: `N`, `Quorum`, `MaxAttempts` are the code's 3, 2 and 4 |

## 3. What the runs check

| Run | Instance | Question | Distinct states |
| --- | --- | --- | --- |
| `single` | 1 requestId, 1 run, any number of faults, 1 switch | do both walls, the receipt, the refund and the abstract promise hold whatever fails, and whenever what failed lands, and does the run end? | about 545,700 |
| `concurrent` | 2 requestIds, 2 runs, 2 faults | do goods and refund exclude each other when two receipts compete for one Sequence, and does the panel tell the truth about it? | about 1,318,500 |
| `resubmit` | 2 requestIds, 3 runs, cap 1 | what survives when an evicted requestId runs again beside its first run? | about 321,800 |
| `demo_patient` | 2 scenarios of all kinds, 2 members, 2 switches by hand, 1 periodic poll, scenarios do not overlap and nothing fails | do the presenter's settings survive? | about 3,433,500 |
| `demo_overlap` | 2 overlapping revoked-merchant scenarios, 1 member, 1 periodic poll, any call may fail | what holds of baseline and revocations however scenarios overlap, and does every scenario end? | about 528,600 |
| `signer_sessions` | 2 requestIds, 2 nonce pairs, 2 round-2 or sign-receipt calls, 1 fault | are nonces used once and only the right token signed, whatever is called, and do nonces expire? | about 967,500 |
| `signer_ledger` | 2 runs of one requestId, 1 other member, 2 validate calls, 1 nonce pair, 1 call, 1 transaction of others, 2 faults, window 2, 2 reads | is what a member remembers on the ledger, do its submissions keep their order, and is anything released without a quorum? | about 5,884,200 |
| `feed` | 2 requests, cap 1, 1 alert, 2 polls, 1 lost connection or poll | does the dashboard show what the coordinator has, and does it catch up? | about 428,000 |
| `frost` | field of 7, 3 members, thresholds 2 and 3, 2 of them false | do verified partials sign, are bad ones found, do t - 1 fail? | about 2,862,600 |
| `ceremonies` | 3 members, quorum 2, 2 runs of each script | does what is on disk belong together, and when is the account locked out? | about 36,000 |

`concurrent` and `resubmit` run `ReconSpec`, the vending path with the panel beside it.
Two more runs, `doc_...`, refute sentences of documents and comments (section 4).

**Why these bounds are enough.**

- `single`: faults are not limited (`Persistent`): every call of the run, every poll and
  every operation of the ledger client may fail, so the bound cuts nothing off. Only their count stops at
  one, and the only property that reads it is `Reconciled`, which asks whether it is zero. The switch falls at any moment and
  on any of the bank's modes, a member or the merchant.
- With 3 members and a threshold of 2 there is exactly one spare, so a retry with
  it and a retry without any both occur.
- `concurrent`: two runs of different requestIds suffice for the Sequence conflict,
  since the ledger accepts one of them whatever the number; two faults allow a
  failure after the debit and a failed reversal on top of it.
- `resubmit`: three runs with cap 1 are the least in which a requestId runs again
  (its record is evicted by another requestId first).
- `demo_*`: what scenarios share is a counter, a baseline, a cache and a merchant,
  and each property relates one scenario to the rest. The kind in
  `demo_overlap` is the one that revokes, and its preconditions set bank and member alike. One
  periodic poll can be answered and written at any moment of any scenario, and two members are
  what it takes for one to be restored while the other already is; with three, `demo_patient`
  passes as well (11.3 million states, three minutes).
- `signer_sessions`: two nonce pairs are what it takes for one to replace the other in a
  session or to be quoted in its place; two calls are what it takes to overlap. `TTL = 0`
  makes one tick the expiry; the age is compared with `TTL` and nothing else. One approval of another member is
  the quorum here, since what makes a quorum is the other run's question.
- `signer_ledger`: two validate calls overlap, for one run or for both; two faults switch refuse
  between them, lose a submission or restart the member. A window of 2 with three transactions, two of
  the member and one of another, loses an approval, and an attestation of another kind lands between a
  read and the release.
- `feed`: one more request than the cap evicts, in flight or not; one lost connection
  gives every order of hello, late poll and events. Window 1 with limit 1 and
  two moments has both edges of the limiter. With `MaxAlerts = 2` the alert cap cuts too;
  that instance passes as well (2,267,960 states, three minutes).
- `frost`: modulo 7 the inverses are not trivial and the identifiers 1 to 3 stay apart; zero
  hashes, equal nonces and every set of participants, too small ones included, occur. Two false
  partials are enough for one to make up for the other.
- `ceremonies`: a rerun over the files of one earlier run, stopped anywhere.

### Properties of the vending path

In every run, also when a requestId runs more than once:

- `PartialNeedsQuorum`: no member releases a partial for a run before the bank has
  signed its debit and T members have approved the run on the ledger.
- `TokenNeedsThreshold`: a token exists only if T distinct members, the recorded
  signer set, have each released a partial for it.
- `LedgerBacksDelivery`: receipts only for runs with a token, delivery only
  with a receipt.
- `DispensedOnce`: a debit is credited at most once, for exactly one delivered run.
- `RefundIsReal`: a record says "refunded" only if the bank did reverse a
  confirmed debit.
- `RejectedHasNoToken`: a run rejected before its debit leaves nothing on the
  ledger, even if the debit is confirmed later.
- `AttestationsFinal`: an attestation never changes.
- `EveryRunEnds`: under `FairSpec`, every run reaches a terminal status.
- `HonestDelta`: without faults the panel's delta stays zero, through refusals, refused
  receipts and evictions.
- `MInv`: the inductive invariant of section 5, checked where it is under most strain.

While no requestId has been evicted (`MaxRuns <= RequestCap`):

- `GoodsXorRefund`: no debit is both dispensed and reversed.
- `Reconciled`: when all is over and no call was lost, the bank's unreversed
  debits are exactly the debits the meter has redeemed.
- `ImplementsVending`: the services refine `Vending`, the customer's view of one
  requestId: charge, then token, then record or deliver, or refund, and never
  both delivery and refund in either order.
- `ZeroDeltaMeansBalanced`: when all is over and the delta is zero, the bank's
  unreversed debits are those the meter has redeemed, whatever was lost, except
  the debits confirmed to a run that had been rejected before.
- `PanelCurrent`: the delta broadcast last is the delta of now.
- `StuckIsAlerted`: a debit that gets stuck (reversal failed) raises the divergence
  alert in the same step.

With evictions `PanelCurrent` and `StuckIsAlerted` do not hold: an evicted record leaves the sums
without a broadcast, so a new stuck debit can bring the delta back to the
stale `lastDelta`, and no alert is raised.

### Properties of one member

- `ImplementsNonceUse`: however calls, sweeps, restarts and late ledger reads
  interleave, a nonce pair makes at most one partial, and none after it was dropped, unless two
  handlers at once were about to sign with it (`overlapped`). A handler that will fail
  because other commitments were quoted does not count.
- `PartialsAreBound`: of all bodies a caller may send, with whatever session and commitments, only the
  one token that the bank's debit authorises is signed.
- `ReleaseNeedsQuorum`: a partial or a fragment leaves only if, at some moment between the call and the
  release, T members' latest attestations on the *whole* ledger approved the requestHash
  of the call, although the member sees a window of it. It
  holds because the window shows the newest transactions: what it shows of a member is its last word.
  An attestation that lands after the read is not seen, so "at the release" would be false. For a
  fragment the requestHash is what the body says; the receipt may be another's (section 4).
- `RememberedIsPosted`: a remembered verdict is on the ledger, and it is the member's last word there,
  even after overlapping validate calls, unless a submission about the run was lost or has
  just been validated.
- `SubmissionsInSequence`: the Sequence that autofill read is not spent by another
  submission of the wallet before this one is, except by one whose outcome nobody heard.
- `NoncesExpire`: no nonces are kept for ever.

### Properties of the other components

- `BaselineHeld`, `BaselineKept` (demo): the baseline is held exactly while some
  scenario counts on it, and is never replaced in the middle of a chain.
- `RevocationScoped`: a merchant is revoked only while a scenario that revoked
  it is in flight.
- `EveryScenarioEnds`: under `FairSpec`, every scenario ends, even if every call fails.
- `HandSettingsSurvive`: when nothing is going on, the switches are where the presenter
  put them, with the periodic poll running beside the scenarios as it always does. One
  order of steps is excused (`overtaken`): a periodic poll that was answered before a switch was turned
  and is written after it can make `captureControls` take the stale value (section 4). The property needs a patient
  presenter, since overlapping scenarios capture half-restored settings, and calls that
  do not fail, since a restoring call that fails is not repeated: that is why only `demo_patient` checks it.
- `LiveViewCurrent` (dashboard): with the socket open and greeted, the view plus the frames
  under way is what the coordinator has, unless a poll was between its two awaits when the
  socket opened, or a record was evicted in flight.
- `WarningsNoticed`: a warning raised after the first snapshot and shown in the view was
  shown as a toast, whichever of poll, hello and event brought it.
- `CatchesUp`: under `FairSpec`, once connections stop failing the dashboard ends up live
  with the coordinator's state (same exceptions).
- `RateBound`: no window of `RateWindow`, wherever it starts, has more than `RateMax`
  accepted submissions.
- `BadShareFound` (FROST): an honest partial always verifies, whatever the list says of its maker;
  any other value for a genuine commitment never does.
- `VerifiedSharesSign`: the aggregate of t or more partials verifies if each of them does, so
  no request is abandoned with nobody to blame, and does not if a single one does not. Two bad partials
  can make up for each other: the aggregate alone would not tell, which is why line 179 looks at each.
- `BelowThresholdFails`: t - 1 honest partials never make a valid signature, unless the challenge is zero.
- `FilesAgree` (setup): complete sets of files are of one run, except while and after a run
  was stopped in the middle of writing, until one finishes.
- `MasterOutlastsSelfTest`: the master key is disabled only after a multisigned
  transaction went through; a manifest names only accounts without master key.
- `LockedOutOnlyInWindow`: the account is without usable keys only if the script
  stopped between disabling the master and writing a quorum's keys, or was run again.

`TypeOK` is an invariant of one run for each of `TwoWalls`, `DashboardFeed` (with `Gateway`) and
`KeyCeremonies`; for `SignerService` the types that matter are part of the proof (`TypesInv`, `LedgerInv`). Every property has a mutant in the
modules: a definition changed the way a plausible bug would change the code, under which TLC finds
that property violated.

### Fairness

- `TwoWalls!FairSpec` asks for weak fairness of the steps of each run and of
  nothing else. The code justifies it: every await in `runPipeline` is a fetch with an
  abort deadline or an operation of the ledger client, which resolves or throws, so
  a suspended run always continues. Peers may stay silent for ever. The final guard
  is the try/catch of FR-17 together with `abandon`, which never throws.
- `DemoControl!FairSpec`: weak fairness of each scenario's own calls and
  continuations; fetches have deadlines, and the request it waits for ends by FR-17 or by the
  90 s watchdog. Failures are not bounded there, and the presenter and the periodic poll may stop at any time.
- `SignerService!FairSpec`: weak fairness of `Tick` and `Sweep`. Time passes and
  `setInterval` fires; no call need ever be made or answered.
- `DashboardFeed!FairSpec`: weak fairness of the socket's steps (the reconnect timer
  fires, frames arrive) and of the polls' steps. Failures are bounded by
  `MaxDrops`, since a network that fails for ever never lets anyone catch up.

**Deadlock** is not checked where the system has nothing left to do once all permitted
runs, calls or scenarios are over. `frost` checks it.

## 4. Where the code and its documents disagree

Two sentences have a run that refutes them (`DocClaims`).

| Run | Document | What the code does |
| --- | --- | --- |
| `doc_lost_reply` | `coordinator/pipeline.ts:49` "Pre-debit rejection — no funds ever moved" | When the answer to the debit call is lost or late the request is rejected without asking the bank to reverse. The bank may have confirmed, or may confirm afterwards: the money stays taken, the record is `REJECTED`, and reconciliation leaves it out. |
| `doc_evicted_retry` | `src/FRD.md:184` "idempotent on `requestId` (no double-generation on retry)" | A retry after eviction runs again. The bank replays its confirmation, the meter refuses the replayed debit, and the run then refunds a debit that was dispensed. |

`doc_evicted_retry` is why `GoodsXorRefund`, `Reconciled` and `ImplementsVending` are stated for
`MaxRuns <= RequestCap`. `DispensedOnce` and the threshold survive it.

Modelling met more such places. They have no run of their own; where a property had to
be weakened for one, it is named.

- `signer/index.ts:336`, "Nonces are single-use: the session is deleted whether signing succeeds or
  throws." The session is read before the await of round 2 and removed after it, and nothing marks it
  as in use. Two overlapping round-2 calls for one session both sign with its nonces, which is why
  `ImplementsNonceUse` excepts `overlapped`. The coordinator makes one call for each round 1, so its own
  ceremonies do not come to this.
- `signer/index.ts:251`, "a member only co-signs a receipt for a request that reached on-chain quorum":
  the approvals are counted for `body.requestHash`, what is signed is `body.prepared`, and the two are
  not compared. `ReleaseNeedsQuorum` speaks therefore of the requestHash of the call and not of the receipt. The
  coordinator sends the two together.
- `common/chain.ts:75`, "serialize submissions per publisher account (sequence numbers) via a simple
  queue": receipts are prepared and submitted outside the queue (`chain.ts:288`, `:302`). Two undisturbed requests can
  prepare with one Sequence: the second is submitted after the first has used it, is refused, and its
  request is abandoned after its token was signed. `Vending` lets a run refund at any time before it delivers, and
  `concurrent` checks that nothing worse comes of it.
- `coordinator/demo.ts:151`, "Refresh first so the capture reflects reality, not a health poll up to 3s
  stale": the cache keeps what was written last, not what was answered last. A periodic poll that was answered before
  a switch was turned, and is written after the refresh, makes `captureControls` take the old setting, which
  the scenario then restores. `HandSettingsSurvive` excepts that order (`overtaken`).
- `src/FRD.md:187`, "`REJECTED (abandoned)` with no token": the token is stored in the
  record before the receipt is made and stays there if the receipt fails.
- `src/CONTRACTS.md:121`, revoked members are "excluded from ceremonies": the list of
  active members is polled once, and a member revoked while the first ceremony
  runs is still used as the spare.
- `coordinator/demo.ts:107` and `:130`: the last scenario gives the baseline up before it
  awaits the restoring. A scenario whose refresh ends meanwhile finds nobody in
  flight and captures the half-restored settings as the operator's own.
- `src/dashboard/src/store.ts:122`: the check that the socket is closed comes before the
  body of the poll is awaited, so a slow body overwrites what came over the socket
  meanwhile, and the indicator says "polling" until the socket reconnects (`late` in `LiveViewCurrent`
  and `CatchesUp`).
- `coordinator/store.ts:130`: a record evicted in flight keeps sending events, which
  put it back into the dashboard's list (`strays` in `ViewIsCurrent`).
- More than three warnings in one outage get no toast each (`WarningsNoticed` is checked with
  fewer).
- `scripts/setup-xrpl.ts:14`, "so we never brick the account": the self-test comes first,
  but the keys are written only after the master is disabled. A stop in between,
  or a rerun that overwrites the keys of the account before, locks it out
  (`LockedOutOnlyInWindow`). A rerun that stops while writing leaves files of two runs
  side by side (`torn` in `FilesAgree`).
- `signer/index.ts:311`: round 2 promises to drop the session on every path, but when
  `readApprovals` throws, nothing is answered and the session stays until it expires
  (`ReadThrows`; `NoncesExpire` needs the sweep).
- `signer/index.ts:191`: validate calls of one request that overlap, or that failed after landing,
  post two attestations (`RememberedIsPosted` says what remains true).
- `coordinator/pipeline.ts:537`: when the receipt's call throws the debit is reversed, and the receipt may be
  validated after that: the ledger then records a sale whose debit was refunded. Nothing is
  dispensed for it (`GoodsXorRefund`), and `Vending!Record` therefore asks only that the customer
  was charged at some time and a token made.
- `coordinator/index.ts:4`: changes of `activeScenario` are not broadcast, nor is the change of
  reconciliation by an eviction.
- `src/dashboard/src/components/DemoControls.tsx` labels every abandoned request "debit
  reversed", also when the reversal failed; `Stepper.tsx` shows the ledger step
  as done when the publication failed.

## 5. What is proved

| Theorem | Module | States |
| --- | --- | --- |
| `InvCorrect` | `TwoWallsProofs` | `Spec => []IInv` |
| `TypeCorrect` | | `Spec => []TypeOK` |
| `WallsCorrect` | | `Spec => []PartialNeedsQuorum` |
| `ThresholdCorrect` | | `Spec => []TokenNeedsThreshold` |
| `DeliveryCorrect` | | `Spec => []LedgerBacksDelivery` |
| `AttestationsCorrect` | | `Spec => AttestationsFinal` |
| `MoneyCorrect` | `MoneyProofs` | `Spec => []MInv` |
| `RefundCorrect` | | `Spec => []RefundIsReal` |
| `RejectionCorrect` | | `Spec => []RejectedHasNoToken` |
| `DispenseCorrect` | | `Spec => []DispensedOnce` |
| `GoodsOrRefund` | | `Spec => []GoodsXorRefund`, if `MaxRuns <= RequestCap` |
| `BooksBalance` | | `Spec => []Reconciled`, if `MaxRuns <= RequestCap` |
| `ServicesKeepPromise` | | `Spec => ImplementsVending`, if `MaxRuns <= RequestCap` |
| `HonestOperationBalances` | | `ReconSpec => []HonestDelta` |
| `ZeroMeansBalanced` | | `ReconSpec => []ZeroDeltaMeansBalanced`, if `MaxRuns <= RequestCap` |
| `PanelIsCurrent` | | `ReconSpec => []PanelCurrent`, if `MaxRuns <= RequestCap` |
| `StuckRaisesAlert` | | `ReconSpec => StuckIsAlerted`, if `MaxRuns <= RequestCap` |
| `PartialsBound` | `SignerServiceProofs` | `Spec => []PartialsAreBound` |
| `ReleasesHaveQuorum` | | `Spec => ReleaseNeedsQuorum` |
| `ServiceImplementsNonceUse` | | `Spec => ImplementsNonceUse` |
| `NoNonceReuse` | | no pair of nonces outside `overlapped` makes a second partial |
| `NothingOvertakes` | | `Spec => []SubmissionsInSequence` |
| `WhatIsRememberedIsPosted` | | `Spec => []RememberedIsPosted` |
| `OnceOnly` | `NonceUseProofs` | `NoNonceReuse`, of the abstract specification |
| `CeremonyTypeCorrect` | `KeyCeremoniesProofs` | `Spec => []TypeOK` |
| `FilesBelongTogether` | | `Spec => []FilesAgree` |
| `MasterKeyOutlasts` | | `Spec => []MasterOutlastsSelfTest` |
| `LockedOutOnlyThen` | | `Spec => []LockedOutOnlyInWindow` |
| `BaselineIsHeld` | `DemoControlProofs` | `Spec => []BaselineHeld` |
| `BaselineIsKept` | | `Spec => BaselineKept` |
| `RevocationIsScoped` | | `Spec => []RevocationScoped` |
| `HandSettingsAreRestored` | | `Spec => []HandSettingsSurvive`, if `Patient` and `Reliable` |
| `RateIsBounded` | `DashboardFeedProofs` | `Spec => []RateBound` |
| `FeedTypeCorrect` | | `Spec => []TypeOK` |
| `NoWarningUnnoticed` | | `Spec => []WarningsNoticed` |
| `LiveViewStaysCurrent` | | `Spec => []LiveViewCurrent` |
| `BadSharesAreFound` | `FrostProofs` | `Spec => []BadShareFound` |
| `VerifiedSharesDoSign` | | `Spec => []VerifiedSharesSign` |
| `TooFewSharesFail` | | `Spec => []BelowThresholdFails` |

The assumptions are the named ASSUMEs of the modules, which TLC evaluates in the runs. For
the vending path: there is a request, `N \in Nat`, `T \in 1..N`, the bounds
are naturals, the cap is positive. `MaxRuns <= RequestCap` says that the store never
evicts; without it `doc_evicted_retry` shows the three theorems on the money to be false, and
section 3 says what becomes of the panel. For the dashboard: caps, window and limits are naturals,
and `MaxPolls` is positive, since the first poll is made when the page opens. For FROST: `L` is a prime
greater than 2, as Ed25519's order is, and the identifiers are nonzero modulo `L`.

### The walls (`TwoWallsInv`, `TwoWallsProofs`)

None of the properties is inductive alone.

- `TypeOK` is not, because the coordinator picks the next participant of round 2 as
  the least member of `chosen[p]`, which exists only if `chosen` is not empty: that
  needs `InvChosen` (a ceremony in progress has T participants).
- `TokenNeedsThreshold` needs `InvCeremony`: during round 2 whoever is in
  `chosen` but no longer in `waiting` has released a partial, and an answer
  "partial" that has arrived is from a member that has. So when the last answer
  comes, all of `chosen` have signed.
- `PartialNeedsQuorum` needs that both halves stay true after the partial is
  released. The bank's half does since a log entry is never changed (`InvPaid`, and
  `InvStarted`: no messages exist for runs that have not begun, so `req` cannot
  change under them). The members' half needs `AttestationsFinal`.
- `AttestationsFinal` needs `InvAttest`: a pair of run and member is first asked, then at work
  in `checking`, then has attested or has an attestation in `pending`, and is never in two of these at once,
  because the coordinator makes one validate call per run and member.
- `LedgerBacksDelivery` needs `InvReceipt`: a run that prepares or submits a
  receipt, or has one in `pending`, has a token.

`IInv` is their conjunction with `TypeOK`. It does not mention `RequestCap`, which is
why these results hold through evictions. The proof has a lemma per action for
types, frame lemmas that say which variables each service leaves alone, and then
one preservation lemma per part of `IInv`. That T approvals stay T approvals uses
finiteness of the set of members, from `FiniteSetTheorems`; that a non-empty set of members has a
least element comes from the well-founded order on Nat.

### The money (`MoneyInv`, `MoneyProofs`)

`MInv` adds to `IInv` what bank, calls, records, meter and receipts say of one debit:

- `MoneyRun`: an answer of the bank is never ahead of the bank; a run past its debit is
  paid; a record's `debitReversed` follows an answer "reversed". This gives `RefundIsReal`.
- `InvGoods`: what was dispensed was dispensed for one run, the `DELIVERED` one; it is
  `DispensedOnce` made inductive.
- `InvReverse`: messages to reverse, and reversed debits, belong to a run that gave up: it will not
  deliver any more, and was paid.
- `InvRecorded`: a receipt on the ledger, or in `pending`, belongs to a run that delivered or gives up.
- `InvOneRun`: while the store evicts nothing a requestId has one run. With it the run
  that gave up and the run that delivered are one and the same, a contradiction:
  `GoodsXorRefund`.
- `InvUnheard`: of a run before its confirmed debit, or rejected, nobody but the
  coordinator and the bank has heard, and no transaction is pending. This gives `RejectedHasNoToken`.
- `InvBooks`: while no call was lost, each confirmed debit is accounted for by a run that
  will deliver it, has delivered it or reverses it. When all is over this gives `Reconciled`.

### The refinement (`MoneyProofs`)

`ImplementsVending` says that every customer `r` sees `Vending` under the mapping of
`TwoWalls` (`money` from the bank's log and reversals, `goods` from tokens, receipts and
deliveries). The proof classes each step by what customer `r` sees of it. Most steps change nothing that is mapped
(`Unseen`). The others, the bank's handling of debit and reversal, the last partial, the receipt, when it is
accepted or when it lands late, and the delivery, change it for the one customer whose request the step is about
(`Seen`), and there are a step of `Vending`: its guards (not refunded
when delivering, not delivered when refunding) are what `MInv` provides.

### The reconciliation panel (end of `MoneyProofs`)

The panel is three sums over stored records; no theory of sums is needed, since all amounts are
counts of debits. `SumsOfPanel` says what the delta is: the number of debits that are stuck
(abandoned, not reversed) and not also delivered. `PanelInv` is `MInv` with what the records say when a run is
over (`RunEnds`), and with the fact that without faults a reversal that was asked for succeeds
(`HonestReversal`, `InvAsked`), which gives `HonestDelta`.

The other three need that nothing is forgotten. The key lemma is `RecordsFinal`: `transition` in
`store.ts` has no guard that refuses to leave a terminal status, but no step of the pipeline uses that,
so a terminal record never changes and a stuck debit stays stuck (`StuckGrows`). While the store evicts nothing,
`StuckDebits` and `DeliveredDebits` are disjoint (from `GoodsXorRefund`), the delta is the number
of stuck debits (`CountsStuck`), it changes only in the step in which a run becomes terminal, and there
`onTerminal` broadcasts it. The delta of a step that adds a stuck debit is greater than before
and thus neither zero nor the last one broadcast: the two conditions of the alert.

### One member (`SignerServiceProofs`, `NonceUseProofs`)

`NoncesInv` is inductive: a session holds a pair that some run of its requestId made
(`OwnedInv`); a round-2 handler holds what it read of its session and the one token of the request it
is about, and two handlers about to sign with one pair are one and the same, unless the pair is in `overlapped` (`CallsInv`); a pair
that a session or such a handler keeps is unused, with the same exception (`UnusedInv`).
A pair counts as kept while a session holds it, or a handler that read it and is quoted it.
Under this mapping, with the overlapped pairs taken away, every step is one of `NonceUse` or a stutter: the
handler that signs takes its pair away from itself and from the session in one step, and no other handler
keeps it. The step that begins an overlap takes the pair away from `NonceUse`, which may drop it at any
time. `NoNonceReuse` follows from the refinement and `OnceOnly` by instantiation.

`LedgerInv` types the ledger and what is lost. `ReleasesHaveQuorum` rests on `ReadsInv`: a handler's `found` is
the number of approvals that its window showed at some length of the ledger between its call and now; the
ledger only grows, so that moment stays what it was. The key lemma is that the verdict seen in the window, if
there is one, is the verdict of the whole ledger, since both are the newest. `Window`, `Attempts`,
`TTL`, the number of runs, calls and restarts are arbitrary, and so are the attestations of the others.

### The setup (`KeyCeremoniesProofs`)

`CeremonyInv` relates the stage of the last run to its account (`StageInv`, `AccountInv`), the
number of files written to what is on disk (`FileInv`), and the manifest to the
account it names (`ManifestInv`). `LockedOutOnlyThen` needs a count: the members whose
files are of run g are those below `written`, so a quorum is on disk once more
than `Quorum` files are written (the encryption key is the first). `CeremonyTypeCorrect` is not
inductive alone: that no account beyond the authority is funded and no file beyond the last is written
needs that the stage is left in time (`StageInv`, `FileInv`).

### What a member posts (end of `SignerServiceProofs`)

`SubmissionsInSequence` is inductive with `QueueInv`: a handler whose Sequence is filled in is at
the head of the wallet's queue, and tasks are the handlers' own, so there is at most one. When it
is over nobody holds a Sequence, and nobody else spends the account's but a lost submission, which the property
names. That tasks are their own is `TasksInv`, on the numbering of the calls. `RememberedIsPosted` follows
from `LastWord`: a new transaction is the last word of its sender about its run, and of no other.

### The demo scenarios (`DemoControlProofs`)

`DemoInv` is `BaselineHeld` and `RevocationScoped` with the types of the stages. It is about the set
`Counting` of the scenarios between capture and settling: each step adds one, removes one
or leaves it, so `inFlight` stays its cardinality. `Math.max(0, ...)` in the code is thereby shown to
have no effect. What the calls do to switches and cache plays no part, which is
why failures and polls do no harm to these three.

Failing calls and overlaps do harm to `HandSettingsSurvive`, so `HandSettingsAreRestored` assumes
`Patient` and `Reliable`. The periodic poll may run at any time, any number of times: while `~overtaken`, what one of
its answers will write is the setting of the moment, since a switch turned after the answer sets
`overtaken` (`HealthStaysTruthful`), so a write of it changes nothing that is needed (`HealthPollKeepsHand`). The invariant
`HandInv` says of every stage what the calls under way will make of the switches:

- one scenario at a time, or the presenter, makes calls (`OneActor`);
- while a scenario refreshes, its polls tell the truth, and what the cache does not yet have right a poll
  under way will write (`Refreshing`), so at capture the cache is what is real;
- from capture to settling the baseline is what was dialled;
- while it restores the bank, and then the members, every switch that is not as dialled has a call under
  way or still in the script that puts it back, and no call sets anything else (`RestoresBank`, `RestoresSigners`).

That the script of `restoreControls` covers every member that differs is a lemma of its own
(`RestoreScriptIs`): it places each member by its rank, for any number of members. `SettleKeepsHand` needs
`BaselineHeld`: the only scenario that counts finds the baseline there and is the last.

### The dashboard and its coordinator (`DashboardFeedProofs`)

Each theorem has its own inductive invariant, each resting on the ones before.

- `RateIsBounded`, by `RateInv`: the limiter remembers every accepted submission that the window of
  this moment, or of a later one, still holds. So the hits it counts when it accepts another are all there are
  in any window that ends now, and a window that ended earlier gets no more.
- `FeedTypeCorrect`, by `TypeInv`, which types every frame and every poll under way, and so whatever `Reduce` makes of
  them. The helpers of the lists have lemmas: `TakeOf`, `PrependOf`, `RemoveFirstOf` say what a list that is
  cut, prepended to or cleared of an entry holds, and where.
- `NoWarningUnnoticed`: a snapshot under way names only alerts that had been raised (`CopiesInv`), so
  alerts arrive either in a snapshot that `applySnapshot` compares with what was seen, or by their event.
  With `FewWarnings` the cut to three toasts takes nothing away (`FreshIsAll`).
- `LiveViewStaysCurrent`, by `GreetInv` and `ChainInv`. `GreetInv`: hello is the first frame of an open socket, and no poll
  is between its awaits unless it was when the socket opened. `ChainInv`: there is a
  sequence of views that begins with what is shown, goes through the frames under way by
  `Reduce` and ends with the coordinator's snapshot. The coordinator's steps append to it, `OnMessage` drops its first,
  `hello` begins it anew whatever is shown. The core is `ServerReplayed`: one step of the coordinator, reduced with
  its event to the old snapshot, gives the new one, with lists that both sides cap and order on their own.
  `ReplayFollows` shows that such a chain is what the function `Replay` of the property computes, by
  least counterexample.

The proof found that `TypeOK` of the feed is false for `MaxPolls = 0`, since the page polls at its start; hence the
assumption `MaxPolls \in Nat \ {0}`.

### FROST (`FrostProofs`)

The three theorems hold for every prime group order, so for Ed25519's, which no run could take, for every number
of members, every threshold and every set of participants; the first two however many of them answer falsely.

`FrostInv` is inductive. It says that the keys are the shares of one polynomial with nonzero coefficients
(`KeysInv`), what a commitment list may hold (`CeremonyInv`), of each partial whether it is
what `round2Sign` gives, as long as its maker has one entry in the list (`IsAnswer` in `PartialsInv`), and that a
signature is made of the partials there are, one of each participant (`SignatureInv`). None of the three
properties mentions the polynomial, and the second and third are about nothing else.

**`BadSharesAreFound`.** The member that signed has compared its own entry (`CommitmentMatches`), so for it, and
for the bad partials the property speaks of, the coordinator's equation has the member's own nonces
(`AnswerVerifies`). The two sides then still differ: the coordinator reduces challenge times Lagrange coefficient
before it multiplies the point, the member reduces once at the end. `ReducedFactor` says this makes no
difference; it rests on the division with remainder only (`Divided`, `ModOfMultiple`).

**`VerifiedSharesDoSign` and `TooFewSharesFail`** need what the recursive functions of the code compute. The
library's induction theorems are out of the provers' reach, since they take an operator as a parameter.
A set in its place is not: `NumberInduction` and `SetInduction` say that a set of numbers, or of subsets of a
finite set, that is closed under the step is all of them, because the numbers or sets it lacks would have a
smallest one. On these rest, in this order:

1. `PowerExists`, `FoldExists`: the functions that `modPow` and the folds define recursively exist.
   `PowerNext` makes square and multiply a repeated multiplication; `SumTakes` and `ProductTakes` take any member
   out of a sum or a product first, whichever the fold began with (`FoldTakes`).
2. `NoZeroDivisors`: `L` is prime, so a product is zero modulo `L` only if a factor is; factors cancel.
3. `Fermat`, since the multiples of `a` are the nonzero scalars in another order (`ProductOfMultiples`); hence
   `InverseIs`, for `invert`.
4. `CoefficientWithout` relates the Lagrange coefficients for `ids` and for `ids \ {a}`. Summed up, with `I` the
   interpolation at zero of values `g` over `ids`, `xg` the values times their places, and `I'` over
   `ids \ {a}`, it reads `a I(g) = I(xg) + a I'(g)` (`InterpolateWithout`).
5. With `g` the powers of the identifiers that gives, by induction on the set, what each power interpolates
   to: power 0 to 1, the others below the number of participants to 0 (`MomentsAre`), and the next one not to 0
   (`NextMomentIsNot`).
6. A polynomial is a sum of powers. So n coefficients or fewer among n participants interpolate to the first, the
   secret (`SharesRecover`), and n + 1, the last not zero, never do (`SharesMiss`).

The aggregate's sum is then compared with the sum of the partials that would verify (`SumsAre`): by places in the
list or by participants, which is the same since the list has no duplicate (`SumReindexed`). The latter is
the challenge times the interpolation of the shares, plus what the group commitment adds up; Ed25519's equation
asks for the challenge times the secret instead (`SignatureVerifies`). With t shares the two agree, so the
signature verifies exactly if the answers have the sum due, as they do without a bad partial and do not with a
single one (`BadShowsInSum`). With t - 1 the two differ, unless the challenge is zero.

On the way the model changed in four places: `Lists` has the commitments in any order, not in two; `Evaluate`
takes its powers modulo the order as the code's running power does; sums are taken with
`SumFunction`, whose argument is a function and not an operator; and more than one member
may answer falsely, which showed that the aggregate of two false partials can verify.

### Only model-checked

Liveness, which the prover does not handle: `EveryRunEnds`, `EveryScenarioEnds`, `CatchesUp`, `NoncesExpire`.
Every other property of a run is a theorem too.

## 6. What is not modelled

- **A restart of the coordinator or of the bank.** The code has no recovery: after one,
  every promise that spans both lives is gone by design of this proof of concept (all state is in
  memory, `coordinator/meter.ts:14`). There is nothing to check but the loss. Members' restarts are in `SignerService`.
- **The dashboard's components.** They render the store and call the HTTP API; what they keep is
  what is folded out or filtered.
- **Smoke scripts**: straight-line checks of the testnet, run by hand.
- **The ledger client's connection**, `packRequest` with its encryption, and a
  publication that is read before it is visible (a validate call that fails).
- **Audit list, governance log, chart series, displayed meter balances.** They do not influence a run.
- **Rounding** of amounts with more than two decimals: amounts are in cents.
- **Computational security.** A signature verifies or does not; the hash is an oracle. `Frost` checks the
  algebra, not that discrete logarithms are hard.
- **The order of the single checks** of `validateDebitForRequest` and `runWall1TokenChecks`: they
  decide the wording of an error only.
- **Shape checks of request bodies** (status 400) that the coordinator always satisfies.

## 7. What could come next

1. A ledger that several wallets share, with the multisigned receipt's Sequence next to
   the members' own, to compose `SignerService` and `TwoWalls` at the transaction level.

## 8. Running it

```
tlc -workers 2 -config TwoWalls_single.cfg MCTwoWalls.tla
tlc -workers 2 -config Recon_concurrent.cfg MCReconciliation.tla
tlc -workers 2 -config Recon_resubmit.cfg MCReconciliation.tla
tlc -workers 2 -config Demo_patient.cfg MCDemoControl.tla
tlc -workers 2 -config Demo_overlap.cfg MCDemoControl.tla
tlc -workers 2 -config Signer_sessions.cfg MCSignerService.tla   # and Signer_ledger.cfg
tlc -workers 2 -config Feed.cfg MCDashboardFeed.tla
tlc -workers 2 -config Frost.cfg MCFrost.tla
tlc -workers 2 -config KeyCeremonies.cfg KeyCeremonies.tla
tlc -workers 2 -config Doc_lost_reply.cfg DocClaims.tla          # and Doc_evicted_retry.cfg
tlapm TwoWallsProofs.tla        # and the other seven ...Proofs.tla
```
