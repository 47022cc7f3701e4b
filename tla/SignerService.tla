--------------------------- MODULE SignerService ---------------------------
(***************************************************************************)
(* One member's process in full: server/src/signer/index.ts with the parts *)
(* of common/chain.ts it runs on.  Members.tla has its handlers as the     *)
(* vending path meets them; this module adds what only shows over a longer *)
(* life: the session's age and the sweep, restarts, retried and overlapping *)
(* calls, the wallet's submission queue, the repeated ledger reads, the    *)
(* window of account_tx, and the order of attestations on the ledger.      *)
(*                                                                         *)
(* The callers are pipeline runs.  Two runs of one requestId share the     *)
(* session but not the requestHash, so a run stands for its requestHash.   *)
(* A handler that awaits the ledger is a record in posting, awaiting or    *)
(* cosigning.  No order of calls is assumed: round 2 and sign-receipt may  *)
(* be called any number of times, with parts that do not belong together.  *)
(***************************************************************************)
EXTENDS Wall2Checks, Sequences, FiniteSets, FiniteSetsExt

CONSTANTS
    Runs,          \* pipeline runs that call this member
    RequestOf,     \* RequestOf[p]: the request that run p is about
    Me,            \* this member
    Others,        \* the other members
    T,             \* XRPL_MULTISIGN_QUORUM
    Window,        \* limit of account_tx, 200 in the code
    Attempts,      \* reads of onChainApproveCount, 4 in the code
    TTL,           \* SESSION_TTL_MS, in ticks
    MaxNonces,     \* bound: round-1 calls
    MaxCalls,      \* bound: round-2 and sign-receipt calls that reach the ledger
    MaxValidates,  \* bound: validate calls
    MaxTx,         \* bound: transactions of others on the authority account
    MaxFaults      \* bound: switches turned, restarts, ledger client failures

NoRun == [none |-> TRUE]

ASSUME RunsAssumption == RequestOf \in [Runs -> Requests] /\ NoRun \notin Runs
ASSUME MembersAssumption ==
    /\ Me \notin Others /\ IsFiniteSet(Others) /\ "stranger" \notin Others \cup {Me}
    /\ T \in Nat \ {0}
ASSUME LimitsAssumption ==
    {Window, Attempts} \subseteq Nat \ {0} /\ {TTL, MaxNonces} \subseteq Nat
ASSUME SignerBoundsAssumption == {MaxCalls, MaxValidates, MaxTx, MaxFaults} \subseteq Nat

VARIABLES
    online,        \* demo toggle
    refuse,        \* FR-9 governance flag
    sessions,      \* sessions[r]: nonces kept for session r, and their age
    approvedOnChain, \* verdicts this process remembers to have posted
    posting,       \* validate handlers inside postApproval
    queue,         \* the wallet's submissions, the head is being submitted
    awaiting,      \* round-2 handlers inside onChainApproveCount
    cosigning,     \* sign-receipt handlers inside onChainApproveCount
    ledger,        \* transactions on the authority account, oldest first
    lost,          \* submissions whose outcome this process will not hear
    madeFor,       \* madeFor[n]: run whose round 1 made nonces n
    overlapped,    \* nonces that two handlers at once were about to sign with
    calls,         \* round-2 and sign-receipt calls so far
    validates,     \* validate calls so far
    uses,          \* uses[n]: partials made with nonces n
    released,      \* what left the service: partials and receipt fragments
    faults         \* switches turned, restarts and failures so far

readVars == <<awaiting, cosigning>>
processVars == <<online, refuse, sessions, approvedOnChain, posting, queue, readVars>>
callerVars == <<madeFor, overlapped, calls, validates>>
outcomeVars == <<uses, released>>
ledgerVars == <<ledger, lost>>
vars == <<processVars, callerVars, outcomeVars, ledgerVars, faults>>

Nonces == 1 .. MaxNonces
NoSession == [nonces |-> 0, age |-> 0]
Verdicts == {"APPROVE", "REJECT"}
SessionOf(p) == RequestOf[p].requestId
Members == Others \cup {Me}
Noise == [from |-> "stranger", run |-> NoRun, verdict |-> "none"]

\* validate handlers are told apart by their run and their number.
Tasks == Runs \X (1 .. MaxValidates)
Submissions == [task : Tasks, verdict : Verdicts, filled : Nat \cup {-1}]
Posts == [task : Tasks, verdict : Verdicts, filled : Nat \cup {-1}, landed : BOOLEAN]
Tokens == {HonestBody(q).message : q \in Requests}

\* What a call of onChainApproveCount is about: when it was asked, what its
\* latest read has found, and how many reads it has made.
Signings == [call : 1 .. MaxCalls, session : RequestIds, run : Runs, nonces : Nonces,
             quoted : Nonces, message : Tokens, asked : Nat, found : Nat,
             tries : 0 .. Attempts]
Cosignings == [call : 1 .. MaxCalls, run : Runs, receipt : Runs, asked : Nat,
               found : Nat, tries : 0 .. Attempts]

TypeOK ==
    /\ online \in BOOLEAN /\ refuse \in BOOLEAN
    /\ sessions \in [RequestIds -> [nonces : Nonces, age : 0 .. TTL + 1] \cup {NoSession}]
    /\ approvedOnChain \in [Runs -> Verdicts \cup {"none"}]
    /\ posting \subseteq Posts
    /\ queue \in Seq(Tasks)
    /\ awaiting \subseteq Signings /\ cosigning \subseteq Cosignings
    /\ ledger \in Seq([from : Members, run : Runs, verdict : Verdicts] \cup {Noise})
    /\ madeFor \in [Nonces -> Runs \cup {NoRun}]
    /\ lost \subseteq Submissions
    /\ overlapped \subseteq Nonces /\ calls \in 0 .. MaxCalls
    /\ validates \subseteq Tasks
    /\ uses \in [Nonces -> Nat]
    /\ released \subseteq
          [call : 1 .. MaxCalls, kind : {"partial"}, run : Runs, of : Tokens, asked : Nat]
            \cup [call : 1 .. MaxCalls, kind : {"fragment"}, run : Runs, of : Runs, asked : Nat]
    /\ faults \in 0 .. MaxFaults

Init ==
    /\ online = TRUE /\ refuse = FALSE
    /\ sessions = [r \in RequestIds |-> NoSession]
    /\ approvedOnChain = [p \in Runs |-> "none"]
    /\ posting = {} /\ queue = <<>> /\ awaiting = {} /\ cosigning = {}
    /\ ledger = <<>> /\ lost = {}
    /\ madeFor = [n \in Nonces |-> NoRun] /\ overlapped = {} /\ calls = 0
    /\ validates = {}
    /\ uses = [n \in Nonces |-> 0] /\ released = {}
    /\ faults = 0

Fault == faults < MaxFaults /\ faults' = faults + 1
-----------------------------------------------------------------------------
(* common/chain.ts *)

\* The verdict of member m about run p in a span of the ledger: account_tx lists
\* the newest first, and the first one seen of a member is kept.
LastVerdict(p, m, span) ==
    LET seen == {i \in span \cap DOMAIN ledger : ledger[i].from = m /\ ledger[i].run = p}
    IN IF seen = {} THEN "none" ELSE ledger[Max(seen)].verdict

\* The last transactions, as many as account_tx returns.
Latest == Len(ledger) - Window + 1 .. Len(ledger)

\* Mutant of ReadApprovals: attestations are counted, not approvals.
ReadAttesters(p) == {m \in Members : LastVerdict(p, m, Latest) # "none"}

\* readApprovals, reduced to the members it finds to approve.
ReadApprovals(p) == {m \in Members : LastVerdict(p, m, Latest) = "APPROVE"}

\* The Sequence of this account: the number of transactions it has made.
OwnSequence == Cardinality({i \in DOMAIN ledger : ledger[i].from = Me})

\* autofill reads the open ledger, which may or may not hold the submissions
\* that were lost and not validated yet.
Fillable(s) == s >= OwnSequence /\ \A u \in OwnSequence .. s - 1 : \E x \in lost : x.filled = u

\* Mutant of AtHead: enqueue does not wait for the submission before.
AnyQueued(h) == \E i \in DOMAIN queue : queue[i] = h.task

\* enqueue chains each submission of the wallet behind the one before it.
AtHead(h) == queue # <<>> /\ Head(queue) = h.task
-----------------------------------------------------------------------------
(* POST /api/consensus/validate.  readRequestTx, its first await, is folded *)
(* into the call: it reads a publication that does not change.              *)

NextTask(p) == <<p, Cardinality({task \in validates : task[1] = p}) + 1>>

ValidateCalled(p) ==
    /\ Cardinality(validates) < MaxValidates
    /\ validates' = validates \cup {NextTask(p)}
    /\ UNCHANGED <<madeFor, overlapped, calls>>

\* Offline, or answered from approvedOnChain.
ValidateCached(p) ==
    /\ ValidateCalled(p)
    /\ ~online \/ approvedOnChain[p] # "none"
    /\ UNCHANGED <<processVars, outcomeVars, ledgerVars, faults>>

\* Fixed before the verdict is posted: a later change of refuse does not reach it.
Verdict(p) ==
    IF ~refuse /\ ValidateDebitForRequest(RequestOf[p], BankDebit(RequestOf[p]))
    THEN "APPROVE" ELSE "REJECT"

Posted(p) == [task |-> NextTask(p), verdict |-> Verdict(p), filled |-> -1, landed |-> FALSE]

\* Mutant of ValidateBegin: the verdict is remembered before it is posted.
RememberFirst(p) ==
    /\ ValidateCalled(p)
    /\ online /\ approvedOnChain[p] = "none"
    /\ posting' = posting \cup {Posted(p)}
    /\ approvedOnChain' = [approvedOnChain EXCEPT ![p] = Verdict(p)]
    /\ queue' = Append(queue, NextTask(p))
    /\ UNCHANGED <<online, refuse, sessions, readVars, outcomeVars, ledgerVars, faults>>

ValidateBegin(p) ==
    /\ ValidateCalled(p)
    /\ online /\ approvedOnChain[p] = "none"
    /\ posting' = posting \cup {Posted(p)}
    /\ queue' = Append(queue, NextTask(p))
    /\ UNCHANGED <<online, refuse, sessions, approvedOnChain, readVars, outcomeVars,
                   ledgerVars, faults>>

\* submitTx: autofill, then sign and submit.
Autofill(h) ==
    /\ h \in posting /\ h.filled = -1 /\ AtHead(h)
    /\ \E s \in OwnSequence .. OwnSequence + Cardinality(lost) :
          /\ Fillable(s)
          /\ posting' = (posting \ {h}) \cup {[h EXCEPT !.filled = s]}
    /\ UNCHANGED <<online, refuse, sessions, approvedOnChain, queue, readVars,
                   callerVars, outcomeVars, ledgerVars, faults>>

\* The ledger takes a submission only at the account's current Sequence.
Lands(x) ==
    /\ x.filled = OwnSequence
    /\ ledger' = Append(ledger, [from |-> Me, run |-> x.task[1], verdict |-> x.verdict])

\* The submission that a handler awaits is validated.
Validated(h) ==
    /\ h \in posting /\ ~h.landed
    /\ Lands(h)
    /\ posting' = (posting \ {h}) \cup {[h EXCEPT !.landed = TRUE]}
    /\ UNCHANGED <<online, refuse, sessions, approvedOnChain, queue, readVars,
                   callerVars, outcomeVars, lost, faults>>

\* One that was lost is validated after all: at once, much later, or never.
LostLands(x) ==
    /\ x \in lost
    /\ Lands(x)
    /\ UNCHANGED <<processVars, callerVars, outcomeVars, lost, faults>>

\* The head of the queue is over, the next may start.
Dequeue(h) == posting' = posting \ {h} /\ queue' = Tail(queue)

\* tesSUCCESS: the handler remembers what it has posted.
Attested(h) ==
    /\ h \in posting /\ h.landed
    /\ Dequeue(h)
    /\ approvedOnChain' = [approvedOnChain EXCEPT ![h.task[1]] = h.verdict]
    /\ UNCHANGED <<online, refuse, sessions, readVars, callerVars, outcomeVars,
                   ledgerVars, faults>>

Submission(h) == [task |-> h.task, verdict |-> h.verdict, filled |-> h.filled]

\* submitTx throws: answered 500, nothing is remembered, the queue goes on with
\* the next task.  The ledger may have refused the Sequence; or the client failed,
\* and what it had submitted is lost to this process, not to the ledger.
PostThrows(h) ==
    /\ h \in posting /\ AtHead(h)
    /\ \/ /\ h.filled \notin {-1, OwnSequence} /\ ~h.landed
          /\ UNCHANGED <<lost, faults>>
       \/ /\ Fault
          /\ lost' = IF h.filled = -1 THEN lost ELSE lost \cup {Submission(h)}
    /\ Dequeue(h)
    /\ UNCHANGED <<online, refuse, sessions, approvedOnChain, readVars, callerVars,
                   outcomeVars, ledger>>
-----------------------------------------------------------------------------
(* POST /api/ceremony/round1, and the life of a session *)

\* Mutant of Expired: an exact age is waited for, and missed by a late timer.
ExpiredTooLate(s) == s # NoSession /\ s.age > TTL + 1

Expired(s) == s # NoSession /\ s.age > TTL

Swept == [r \in RequestIds |-> IF Expired(sessions[r]) THEN NoSession ELSE sessions[r]]

Drop(kept, r) == [kept EXCEPT ![r] = NoSession]

Round1(p) ==
    \E n \in Nonces :
        /\ madeFor[n] = NoRun /\ \A k \in 1 .. n - 1 : madeFor[k] # NoRun
        /\ online
        /\ madeFor' = [madeFor EXCEPT ![n] = p]
        /\ sessions' = [Swept EXCEPT ![SessionOf(p)] = [nonces |-> n, age |-> 0]]
        /\ UNCHANGED <<online, refuse, approvedOnChain, posting, queue, readVars,
                       overlapped, calls, validates, outcomeVars, ledgerVars, faults>>

\* Time passes for every session; only the age up to expiry is told apart.
Tick ==
    /\ \E r \in RequestIds : sessions[r] # NoSession /\ sessions[r].age <= TTL
    /\ sessions' = [r \in RequestIds |->
                       IF sessions[r] # NoSession /\ sessions[r].age <= TTL
                       THEN [sessions[r] EXCEPT !.age = @ + 1] ELSE sessions[r]]
    /\ UNCHANGED <<online, refuse, approvedOnChain, posting, queue, readVars,
                   callerVars, outcomeVars, ledgerVars, faults>>

\* setInterval(sweepExpiredSessions, 60_000)
Sweep ==
    /\ Swept # sessions
    /\ sessions' = Swept
    /\ UNCHANGED <<online, refuse, approvedOnChain, posting, queue, readVars,
                   callerVars, outcomeVars, ledgerVars, faults>>
-----------------------------------------------------------------------------
(* onChainApproveCount, which round 2 and sign-receipt await *)

Begun == calls < MaxCalls /\ calls' = calls + 1

\* Too few approvals found so far, and reads left.
MayRead(h) == h.found < T /\ h.tries < Attempts

\* One answer of account_tx.  What it found is used later, at the release.
ReadNow(h) == [h EXCEPT !.found = Cardinality(ReadApprovals(h.run)), !.tries = @ + 1]

Exhausted(h) == h.found < T /\ h.tries = Attempts
-----------------------------------------------------------------------------
(* POST /api/ceremony/round2, with a body about run p for session r.  While *)
(* the member is offline a call is answered 503 and changes nothing.        *)

\* The messages of the bodies about run p that pass the checks.
Passing == [p \in Runs |-> {body.message : body \in {b \in Bodies(RequestOf[p]) :
                                                       RunWall1TokenChecks(b)}}]

SomeBodyFails == \E p \in Runs : \E body \in Bodies(RequestOf[p]) : ~RunWall1TokenChecks(body)

\* 403, 400 or 401: the checks before the first await.
Round2Rejected(r) ==
    /\ online
    /\ refuse \/ Swept[r] = NoSession \/ SomeBodyFails
    /\ sessions' = Drop(Swept, r)
    /\ UNCHANGED <<online, refuse, approvedOnChain, posting, queue, readVars,
                   callerVars, outcomeVars, ledgerVars, faults>>

\* The handler keeps the nonces it has read; commitments made for nonces n come
\* with the body.
SigningCall(r, p, n, message) ==
    [call |-> calls + 1, session |-> r, run |-> p, nonces |-> Swept[r].nonces,
     quoted |-> n, message |-> message, asked |-> Len(ledger), found |-> 0, tries |-> 0]

\* Mutant of CommitmentMatches: the integrity check is missing.
AnyCommitment(h) == TRUE

\* round2Sign: the commitment quoted for this member is that of its nonces.
CommitmentMatches(h) == h.quoted = h.nonces

\* Nothing marks the session as in use, so it may be read again while the ledger
\* is awaited.
Overlap(n) == \E h \in awaiting : h.nonces = n /\ CommitmentMatches(h)

Round2Begin(r, p, n) ==
    /\ online /\ ~refuse
    /\ Swept[r] # NoSession /\ madeFor[n] # NoRun
    /\ Begun
    /\ \E message \in Passing[p] : awaiting' = awaiting \cup {SigningCall(r, p, n, message)}
    /\ overlapped' = IF Swept[r].nonces = n /\ Overlap(n)
                     THEN overlapped \cup {n} ELSE overlapped
    /\ sessions' = Swept
    /\ UNCHANGED <<online, refuse, approvedOnChain, posting, queue, cosigning, madeFor,
                   validates, outcomeVars, ledgerVars, faults>>

ReadForPartial(h) ==
    /\ h \in awaiting /\ MayRead(h)
    /\ awaiting' = (awaiting \ {h}) \cup {ReadNow(h)}
    /\ UNCHANGED <<online, refuse, sessions, approvedOnChain, posting, queue, cosigning,
                   callerVars, outcomeVars, ledgerVars, faults>>

\* 409 NO_ONCHAIN_QUORUM
NoQuorum(h) ==
    /\ h \in awaiting /\ Exhausted(h)
    /\ awaiting' = awaiting \ {h}
    /\ sessions' = Drop(sessions, h.session)
    /\ UNCHANGED <<online, refuse, approvedOnChain, posting, queue, cosigning,
                   callerVars, outcomeVars, ledgerVars, faults>>

\* What leaves the service in answer to the call of handler h.
Release(h, kind, of) ==
    released' = released \cup
        {[call |-> h.call, kind |-> kind, run |-> h.run, of |-> of, asked |-> h.asked]}

\* The partial is made with the nonces read before the await; the session
\* is removed whether round2Sign succeeds or throws.
Round2Sign(h) ==
    /\ h \in awaiting /\ h.found >= T
    /\ awaiting' = awaiting \ {h}
    /\ sessions' = Drop(sessions, h.session)
    /\ IF CommitmentMatches(h)
       THEN /\ uses' = [uses EXCEPT ![h.nonces] = @ + 1]
            /\ Release(h, "partial", h.message)
       ELSE UNCHANGED outcomeVars
    /\ UNCHANGED <<online, refuse, approvedOnChain, posting, queue, cosigning,
                   callerVars, ledgerVars, faults>>

\* readApprovals throws outside every try: nothing is answered, and a session
\* stays until it expires.
ReadThrows(h) ==
    /\ h \in awaiting /\ MayRead(h)
    /\ Fault
    /\ awaiting' = awaiting \ {h}
    /\ UNCHANGED <<online, refuse, sessions, approvedOnChain, posting, queue, cosigning,
                   callerVars, outcomeVars, ledgerVars>>
-----------------------------------------------------------------------------
(* POST /api/consensus/sign-receipt: keeps nothing but the awaiting handler *)

\* The body names the requestHash of run p and holds a prepared receipt of run q;
\* the handler does not compare them.
CosignBegin(p, q) ==
    /\ online
    /\ Begun
    /\ cosigning' = cosigning \cup
          {[call |-> calls + 1, run |-> p, receipt |-> q, asked |-> Len(ledger),
            found |-> 0, tries |-> 0]}
    /\ UNCHANGED <<online, refuse, sessions, approvedOnChain, posting, queue, awaiting,
                   madeFor, overlapped, validates, outcomeVars, ledgerVars, faults>>

ReadForReceipt(h) ==
    /\ h \in cosigning /\ MayRead(h)
    /\ cosigning' = (cosigning \ {h}) \cup {ReadNow(h)}
    /\ UNCHANGED <<online, refuse, sessions, approvedOnChain, posting, queue, awaiting,
                   callerVars, outcomeVars, ledgerVars, faults>>

\* 409, or readApprovals throws.
CosignFails(h) ==
    /\ h \in cosigning
    /\ \/ Exhausted(h) /\ UNCHANGED faults
       \/ MayRead(h) /\ Fault
    /\ cosigning' = cosigning \ {h}
    /\ UNCHANGED <<online, refuse, sessions, approvedOnChain, posting, queue, awaiting,
                   callerVars, outcomeVars, ledgerVars>>

FragmentSign(h) ==
    /\ h \in cosigning /\ h.found >= T
    /\ cosigning' = cosigning \ {h}
    /\ Release(h, "fragment", h.receipt)
    /\ UNCHANGED <<online, refuse, sessions, approvedOnChain, posting, queue, awaiting,
                   callerVars, uses, ledgerVars, faults>>
-----------------------------------------------------------------------------
(* The operator, the other members, the rest of the ledger, and restarts *)

ToggleOnline ==
    /\ Fault
    /\ online' = ~online
    /\ UNCHANGED <<refuse, sessions, approvedOnChain, posting, queue, readVars,
                   callerVars, outcomeVars, ledgerVars>>

ToggleRefuse ==
    /\ Fault
    /\ refuse' = ~refuse
    /\ UNCHANGED <<online, sessions, approvedOnChain, posting, queue, readVars,
                   callerVars, outcomeVars, ledgerVars>>

ByOthers == Cardinality({i \in DOMAIN ledger : ledger[i].from # Me})

\* The other members run the same code, so they too may attest a run again and
\* otherwise than before.
OtherAttests(m, p, verdict) ==
    /\ ByOthers < MaxTx
    /\ ledger' = Append(ledger, [from |-> m, run |-> p, verdict |-> verdict])
    /\ UNCHANGED <<processVars, callerVars, outcomeVars, lost, faults>>

OtherTraffic ==
    /\ ByOthers < MaxTx
    /\ ledger' = Append(ledger, Noise)
    /\ UNCHANGED <<processVars, callerVars, outcomeVars, lost, faults>>

\* Everything the process knows is in memory.  A submission under way is lost.
Restart ==
    /\ Fault
    /\ online' = TRUE /\ refuse' = FALSE
    /\ sessions' = [r \in RequestIds |-> NoSession]
    /\ approvedOnChain' = [p \in Runs |-> "none"]
    /\ posting' = {} /\ queue' = <<>> /\ awaiting' = {} /\ cosigning' = {}
    /\ lost' = lost \cup {Submission(h) : h \in {g \in posting : g.filled # -1}}
    /\ UNCHANGED <<callerVars, outcomeVars, ledger>>
-----------------------------------------------------------------------------
HandlerStep ==
    \/ \E h \in posting : Autofill(h) \/ Validated(h) \/ Attested(h) \/ PostThrows(h)
    \/ \E h \in awaiting : \/ ReadForPartial(h) \/ NoQuorum(h) \/ Round2Sign(h)
                           \/ ReadThrows(h)
    \/ \E h \in cosigning : ReadForReceipt(h) \/ CosignFails(h) \/ FragmentSign(h)

CallStep ==
    \/ \E p \in Runs : ValidateCached(p) \/ ValidateBegin(p) \/ Round1(p)
    \/ \E r \in RequestIds : Round2Rejected(r)
    \/ \E r \in RequestIds, p \in Runs, n \in Nonces : Round2Begin(r, p, n)
    \/ \E p, q \in Runs : CosignBegin(p, q)

WorldStep ==
    \/ ToggleOnline \/ ToggleRefuse \/ OtherTraffic \/ Restart
    \/ \E x \in lost : LostLands(x)
    \/ \E m \in Others, p \in Runs, verdict \in Verdicts : OtherAttests(m, p, verdict)

Next == HandlerStep \/ CallStep \/ WorldStep \/ Tick \/ Sweep

Spec == Init /\ [][Next]_vars

\* Time passes and the sweep's timer fires; nothing else is assumed.
FairSpec == Spec /\ WF_vars(Tick) /\ WF_vars(Sweep)
-----------------------------------------------------------------------------
(* What the service promises *)

\* A nonce pair makes at most one partial and never one after it was dropped,
\* however rounds, late reads, sweeps, retries and restarts interleave, unless a
\* second call is under way with the very pair that a first one is about to sign
\* with: each of the two may then sign with it, and the service makes no promise
\* about the pair (overlapped).  A handler keeps the pair that it read if it is
\* the one its caller quotes.
NV == INSTANCE NonceUse WITH
    made <- {n \in Nonces : madeFor[n] # NoRun},
    kept <- {n \in Nonces \ overlapped :
                \/ \E r \in RequestIds : sessions[r].nonces = n
                \/ \E h \in awaiting : h.nonces = n /\ h.quoted = n},
    uses <- [n \in Nonces |-> IF n \in overlapped THEN 0 ELSE uses[n]]

ImplementsNonceUse == NV!Spec

\* Of all bodies a caller may send, only the one token that the bank's debit for
\* the body's request authorises is ever signed (FR-20 at wall 2), whatever the
\* session and the commitments that come with it.
PartialsAreBound ==
    \A x \in released : x.kind = "partial" =>
        x.of = BuildTokenPayload(BankDebit(RequestOf[x.run]))

\* The members whose latest attestation about run p among the first k
\* transactions of the whole ledger is an APPROVE.
ApproversAfter(p, k) == {m \in Members : LastVerdict(p, m, 1 .. k) = "APPROVE"}

\* A partial or a receipt fragment leaves only if at some moment since its call
\* the latest attestations on the whole ledger, not just in the window, approved
\* the run it was asked about T times.  An attestation that lands between that
\* read and the release is not seen.
ReleaseNeedsQuorum ==
    [][\A x \in released' \ released :
          \E k \in x.asked .. Len(ledger) : Cardinality(ApproversAfter(x.run, k)) >= T]_vars

\* What approvedOnChain says was posted is on the ledger; it is also this member's
\* last word there, even if two validate calls overlapped, unless a submission
\* about the run was lost or has just been validated.
RememberedIsPosted ==
    \A p \in Runs : approvedOnChain[p] # "none" =>
        /\ \E i \in DOMAIN ledger :
              ledger[i] = [from |-> Me, run |-> p, verdict |-> approvedOnChain[p]]
        /\ \/ \E x \in lost : x.task[1] = p
           \/ \E h \in posting : h.landed /\ h.task[1] = p
           \/ LastVerdict(p, Me, 1 .. Len(ledger)) = approvedOnChain[p]

\* A submission of the member's wallet is never overtaken by another that is still
\* heard of: if what autofill read is no longer the account's Sequence, a lost
\* submission has used it, or may still use the one before.
SubmissionsInSequence ==
    \A h \in posting : h.filled # -1 /\ ~h.landed =>
        /\ h.filled < OwnSequence => \E x \in lost : x.filled = h.filled
        /\ h.filled > OwnSequence => \E x \in lost : x.filled = OwnSequence

\* No nonces are kept for ever, even if round 2 never comes or throws.
NoncesExpire ==
    \A n \in Nonces : (\E r \in RequestIds : sessions[r].nonces = n)
                          ~> ~(\E r \in RequestIds : sessions[r].nonces = n)
=============================================================================
