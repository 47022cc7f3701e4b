------------------------------ MODULE Members ------------------------------
(***************************************************************************)
(* The consortium's signer services, server/src/signer/index.ts and        *)
(* verify.ts.  A handler that awaits the ledger is two actions: what it    *)
(* does before the await leaves a task behind, what it does after it       *)
(* consumes the task, and other handlers may run in between.               *)
(*                                                                         *)
(* The parameter r is the requestId of the run; debitOk says whether the   *)
(* debit carried by the request, or found on the ledger, passes            *)
(* validateDebitForRequest with the pinned bank key.                       *)
(***************************************************************************)
EXTENDS Ledger

VARIABLES
    up,            \* members whose demo toggle online is on
    refusing,      \* members with the FR-9 governance flag refuse set
    sessions,      \* sessions[s][r]: nonces that member s keeps for session r
    approvedOnChain,  \* approvedOnChain[s]: runs for which s has seen its attestation land
    checking,      \* validate handlers awaiting postApproval
    signing,       \* round-2 handlers awaiting readApprovals
    partials       \* partials[p]: members that released a partial for run p

memberVars == <<up, refusing, sessions, approvedOnChain, checking, signing, partials>>

\* A nonce pair is made by one round-1 call; a run makes one call per member
\* and per set of refusals seen so far.  The commitments sent in round 2
\* name the nonce pairs of the caller's own round 1.
Nonces == [run : Runs, refused : SUBSET Signers]
NoSession == [run |-> 0, refused |-> {}]

TypeOKMembers ==
    /\ up \subseteq Signers
    /\ refusing \subseteq Signers
    /\ sessions \in [Signers -> [Requests -> Nonces \cup {NoSession}]]
    /\ approvedOnChain \in [Signers -> SUBSET Runs]
    /\ checking \subseteq [run : Runs, by : Signers, verdict : Verdicts]
    /\ signing \subseteq [run : Runs, by : Signers, commitments : Nonces,
                          nonces : Nonces]
    /\ partials \in [Runs -> SUBSET Signers]

InitMembers ==
    /\ up = Signers
    /\ refusing = {}
    /\ sessions = [s \in Signers |-> [r \in Requests |-> NoSession]]
    /\ approvedOnChain = [s \in Signers |-> {}]
    /\ checking = {}
    /\ signing = {}
    /\ partials = [p \in Runs |-> {}]

DropSession(s, r) == sessions' = [sessions EXCEPT ![s][r] = NoSession]

-----------------------------------------------------------------------------
(* POST /api/consensus/validate *)

\* The verdict is fixed here, before the await: a later change of refuse does
\* not reach it.  Offline, or remembered as attested: answer at once, post
\* nothing.
ValidateBegin(m, debitOk) ==
    LET p == m.run  s == m.to IN
    /\ m \in net /\ m.kind = "validate"
    /\ net' = net \ {m}
    /\ IF s \notin up \/ p \in approvedOnChain[s]
       THEN Settle(p, "gather", s, FALSE) /\ UNCHANGED checking
       ELSE /\ checking' = checking \cup
                 {[run |-> p, by |-> s, verdict |-> IF debitOk /\ s \notin refusing
                                                    THEN "APPROVE" ELSE "REJECT"]}
            /\ UNCHANGED <<waiting, failed>>
    /\ UNCHANGED <<pc, reply, faults, chainVars, up, refusing, sessions,
                   approvedOnChain, signing, partials>>

ValidateEnd(h) ==
    /\ h \in checking
    /\ checking' = checking \ {h}
    /\ AttestTx(h.run, h.by, h.verdict)
    /\ approvedOnChain' = [approvedOnChain EXCEPT ![h.by] = @ \cup {h.run}]
    /\ Settle(h.run, "gather", h.by, FALSE)
    /\ UNCHANGED <<pc, net, reply, faults, prepared, pending, up, refusing, sessions,
                   signing, partials>>

\* postApproval throws: nothing is remembered of the attestation.
ValidateThrows(h) ==
    /\ h \in checking
    /\ checking' = checking \ {h}
    /\ Fault
    /\ Lose(Attestation(h.run, h.by, h.verdict))
    /\ Settle(h.run, "gather", h.by, FALSE)
    /\ UNCHANGED <<pc, net, reply, up, refusing, sessions, approvedOnChain, signing,
                   partials>>
-----------------------------------------------------------------------------
(* POST /api/ceremony/round1 *)

Round1(m, r, nonces) ==
    LET p == m.run  s == m.to IN
    /\ m \in net /\ m.kind = "round1"
    /\ net' = net \ {m}
    /\ sessions' = IF s \in up THEN [sessions EXCEPT ![s][r] = nonces] ELSE sessions
    /\ Settle(p, "round1", s, s \notin up)
    /\ UNCHANGED <<pc, reply, faults, chainVars, up, refusing, approvedOnChain,
                   checking, signing, partials>>
-----------------------------------------------------------------------------
(* POST /api/ceremony/round2 *)

Round2Call(m) == m \in net /\ m.kind = "round2" /\ net' = net \ {m}

Round2Offline(m) ==
    /\ Round2Call(m)
    /\ m.to \notin up
    /\ Answer(m.run, "round2", m.to, "error")
    /\ UNCHANGED <<pc, waiting, failed, faults, chainVars, memberVars>>

Round2Refuse(m, r) ==
    /\ Round2Call(m)
    /\ m.to \in up \cap refusing
    /\ DropSession(m.to, r)
    /\ Answer(m.run, "round2", m.to, "refused")
    /\ UNCHANGED <<pc, waiting, failed, faults, chainVars, up, refusing,
                   approvedOnChain, checking, signing, partials>>

\* Unknown session, or runWall1TokenChecks fails: answered, session gone.
Round2Reject(m, r, debitOk) ==
    /\ Round2Call(m)
    /\ m.to \in up \ refusing
    /\ sessions[m.to][r] = NoSession \/ ~debitOk
    /\ DropSession(m.to, r)
    /\ Answer(m.run, "round2", m.to, "error")
    /\ UNCHANGED <<pc, waiting, failed, faults, chainVars, up, refusing,
                   approvedOnChain, checking, signing, partials>>

\* The handler keeps the session it read and leaves it in the map while it
\* awaits the approvals.
Round2Begin(m, r, debitOk, commitments) ==
    /\ Round2Call(m)
    /\ m.to \in up \ refusing
    /\ sessions[m.to][r] # NoSession /\ debitOk
    /\ signing' = signing \cup
         {[run |-> m.run, by |-> m.to, commitments |-> commitments,
           nonces |-> sessions[m.to][r]]}
    /\ UNCHANGED <<pc, waiting, failed, reply, faults, chainVars, up, refusing,
                   sessions, approvedOnChain, checking, partials>>

\* The quorum is on the ledger and round2Sign finds that the commitments are
\* those of the nonces it was given: the partial is released.
Round2Sign(h, r) ==
    /\ h \in signing
    /\ HasQuorum(h.run)
    /\ h.commitments = h.nonces
    /\ signing' = signing \ {h}
    /\ partials' = [partials EXCEPT ![h.run] = @ \cup {h.by}]
    /\ DropSession(h.by, r)
    /\ Answer(h.run, "round2", h.by, "partial")
    /\ UNCHANGED <<pc, net, waiting, failed, faults, chainVars, up, refusing,
                   approvedOnChain, checking>>

\* 409 NO_ONCHAIN_QUORUM, or round2Sign throws on a commitment mismatch.  With
\* the quorum on the ledger, the 409 takes a ledger that lags four reads long.
Round2NoPartial(h, r) ==
    /\ h \in signing
    /\ \/ /\ h.commitments # h.nonces \/ ~HasQuorum(h.run)
          /\ UNCHANGED faults
       \/ Fault
    /\ signing' = signing \ {h}
    /\ DropSession(h.by, r)
    /\ Answer(h.run, "round2", h.by, "error")
    /\ UNCHANGED <<pc, net, waiting, failed, chainVars, up, refusing, approvedOnChain,
                   checking, partials>>

\* readApprovals throws outside the handler's try: no answer is ever sent and
\* the session stays.
Round2Throws(h) ==
    /\ h \in signing
    /\ signing' = signing \ {h}
    /\ Fault
    /\ UNCHANGED <<pc, net, waiting, failed, reply, chainVars, up, refusing, sessions,
                   approvedOnChain, checking, partials>>
-----------------------------------------------------------------------------
(* POST /api/admin/online, POST /api/admin/refuse *)

ToggleOnline(s) ==
    /\ up' = IF s \in up THEN up \ {s} ELSE up \cup {s}
    /\ UNCHANGED <<refusing, sessions, approvedOnChain, checking, signing, partials>>

ToggleRefuse(s) ==
    /\ refusing' = IF s \in refusing THEN refusing \ {s} ELSE refusing \cup {s}
    /\ UNCHANGED <<up, sessions, approvedOnChain, checking, signing, partials>>
=============================================================================
