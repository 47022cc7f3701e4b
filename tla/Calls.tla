------------------------------- MODULE Calls -------------------------------
(***************************************************************************)
(* What the services share: the pipeline runs, the members, and the HTTP   *)
(* calls between the coordinator and its peers.                            *)
(*                                                                         *)
(* A run is one execution of runPipeline.  JavaScript runs to completion   *)
(* between two awaits, so pc[p] names the await at which run p is          *)
(* suspended and every action of the model goes from one await to the      *)
(* next.  A request message stays in net until its peer handles it, which  *)
(* may be never (it was lost) or long after the caller's deadline: fetch   *)
(* gives up, the peer does not know.  An answer to a call that is no       *)
(* longer awaited goes nowhere, because the aborted fetch has closed its   *)
(* socket.                                                                 *)
(***************************************************************************)
EXTENDS Naturals, FiniteSets

CONSTANTS
    Requests,      \* the requestIds that clients submit
    N,             \* consortium members, SIGNERS in config.ts
    T,             \* THRESHOLD.t, and XRPL_MULTISIGN_QUORUM, which equals it
    MaxRuns,       \* bound: pipeline runs started
    MaxFaults,     \* bound: calls lost or late, failures of the ledger client
    Persistent     \* TRUE: failures go on without end, and only their count stops

ASSUME RequestsAssumption == Requests # {}
ASSUME ConsortiumAssumption == N \in Nat /\ T \in 1 .. N
ASSUME BoundsAssumption ==
    MaxRuns \in Nat /\ MaxFaults \in Nat /\ Persistent \in BOOLEAN

VARIABLES
    pc,            \* pc[p]: the await at which run p is suspended
    net,           \* HTTP requests sent and not yet handled
    waiting,       \* waiting[p]: members whose answers run p still needs
    failed,        \* failed[p]: some answer of this round-1 fan-out is bad
    reply,         \* reply[p]: the answer that has arrived for run p's call
    faults         \* calls that were lost or late so far

callVars == <<pc, net, waiting, failed, reply, faults>>

Signers == 1 .. N
Runs == 1 .. MaxRuns
Bank == 0

Steps == {"idle", "preflight", "debit", "publish", "approvers", "gather",
          "poll", "round1", "round2", "prepare", "fragment", "submit",
          "reverse", "done"}

BankAnswers == {"none", "declined", "timeout", "CONFIRMED", "OMIT_SIGNATURE", "reversed"}
MemberAnswers == {"partial", "refused", "error"}

Replies == [from : {Bank}, is : BankAnswers] \cup [from : Signers, is : MemberAnswers]
NoReply == [from |-> Bank, is |-> "none"]

CallMsg(kind, p, to) == [kind |-> kind, run |-> p, to |-> to]

Messages == [kind : {"debit", "reverse"}, run : Runs, to : {Bank}]
                \cup [kind : {"validate", "round1", "round2"}, run : Runs, to : Signers]

TypeOKCalls ==
    /\ pc \in [Runs -> Steps]
    /\ net \subseteq Messages
    /\ waiting \in [Runs -> SUBSET Signers]
    /\ failed \in [Runs -> BOOLEAN]
    /\ reply \in [Runs -> Replies]
    /\ faults \in 0 .. MaxFaults

InitCalls ==
    /\ pc = [p \in Runs |-> "idle"]
    /\ net = {}
    /\ waiting = [p \in Runs |-> {}]
    /\ failed = [p \in Runs |-> FALSE]
    /\ reply = [p \in Runs |-> NoReply]
    /\ faults = 0
-----------------------------------------------------------------------------
Goto(p, step) == pc' = [pc EXCEPT ![p] = step]

\* A call awaited on its own: debit, round 2, reverse.
Ask(p, kind, to) ==
    /\ net' = net \cup {CallMsg(kind, p, to)}
    /\ reply' = [reply EXCEPT ![p] = NoReply]

\* The peer answers the single call that run p awaits at step.
Answer(p, step, from, what) ==
    reply' = IF pc[p] = step
             THEN [reply EXCEPT ![p] = [from |-> from, is |-> what]]
             ELSE reply

\* Member s answers one call of a Promise.all fan-out made at step.
Settle(p, step, s, bad) ==
    IF pc[p] = step /\ s \in waiting[p]
    THEN /\ waiting' = [waiting EXCEPT ![p] = @ \ {s}]
         /\ failed' = [failed EXCEPT ![p] = @ \/ bad]
    ELSE UNCHANGED <<waiting, failed>>

\* One call, or one operation of the ledger client, goes wrong.
Fault ==
    \/ faults < MaxFaults /\ faults' = faults + 1
    \/ Persistent /\ faults > 0 /\ UNCHANGED faults
=============================================================================
