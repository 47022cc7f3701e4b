---------------------------- MODULE DemoControl ----------------------------
(***************************************************************************)
(* The scripted demo scenarios (server/src/coordinator/demo.ts), the       *)
(* health cache they read and the control calls they make (health.ts).     *)
(*                                                                         *)
(* A control call sets a switch at its peer and then refreshes the cache   *)
(* with a poll; a poll is answered at one moment and written to the cache  *)
(* at a later one.  A scenario awaits its calls: work[o] holds the calls   *)
(* that owner o has made and that are not over.                            *)
(***************************************************************************)
EXTENDS Naturals, FiniteSets, Sequences

CONSTANTS
    Scenarios,     \* scenarios that the presenter may start
    N,             \* consortium members; member 1 is the utility
    Merchants,     \* length of the merchant rotation
    Kinds,         \* the kinds of scenario that are started
    Patient,       \* the presenter waits until nothing is going on
    Reliable,      \* no call to a peer fails
    MaxPolls,      \* bound: rounds of the 3 s health poll
    MaxDials       \* bound: switches the presenter turns by hand

AllKinds == {"legit", "ghost", "collusion-short", "forged-attestation", "revoked-merchant"}

ASSUME DemoAssumption ==
    /\ N \in Nat \ {0} /\ Merchants \in Nat \ {0} /\ Kinds \subseteq AllKinds
    /\ {Patient, Reliable} \subseteq BOOLEAN
    /\ MaxPolls \in Nat /\ MaxDials \in Nat
    /\ Scenarios \cap {"health", "presenter"} = {}

VARIABLES
    real,          \* the bank's mode and the members whose switch is on
    cache,         \* the same, as the coordinator believes
    revoked,       \* merchants that are revoked
    baseline,      \* what the last scenario to end restores
    inFlight,      \* scenarios that count on the baseline
    rotation,      \* picks the merchant of the next scenario
    at,            \* at[s]: stage of scenario s
    kind, merchant,
    script,        \* script[s]: batches of calls scenario s has still to make
    work,          \* work[o]: calls under way, each batch in parallel
    target,        \* target[s]: settings scenario s is restoring
    polls, dials,  \* counters of the two bounds
    dialled,       \* what the presenter has dialled in by hand
    overtaken      \* history: a switch turned before a periodic poll that had
                   \* been answered was written

switches == <<real, revoked, dialled, overtaken>>
shared == <<baseline, inFlight>>
runVars == <<at, kind, merchant, rotation, script, target>>
vars == <<switches, cache, shared, runVars, work, polls, dials>>

Signers == 1 .. N
Owners == Scenarios \cup {"health", "presenter"}
Modes == {"CONFIRM", "DECLINE", "OMIT_SIGNATURE", "TIMEOUT"}
Settings == [mode : Modes, on : SUBSET Signers]
NoSettings == [none |-> TRUE]

Stages == {"idle", "refresh", "apply", "check", "running", "restoreBank",
           "restoreSigners", "refreshLast", "done"}

\* A call: set a switch of the bank or of member who, then (or only) read and
\* write what the cache has of the bank or of all members.
Call(step, to, who, value, saw) ==
    [step |-> step, to |-> to, who |-> who, value |-> value, saw |-> saw]
SetBank(mode) == Call("set", "bank", 0, mode, NoSettings)
SetSigner(i, value) == Call("set", "signers", i, value, NoSettings)
Poll(to) == Call("read", to, 0, "", NoSettings)
PollAll == {Poll("bank"), Poll("signers")}

SetOf(i, isOn) == SetSigner(i, IF isOn THEN "on" ELSE "off")

\* applyPreconditions: batches of calls, one after the other.
Preconditions(k) ==
    LET AllOn == {SetSigner(i, "on") : i \in Signers} IN
    CASE k \in {"legit", "revoked-merchant"} -> <<{SetBank("CONFIRM")}, AllOn>>
      [] k = "forged-attestation" -> <<{SetBank("OMIT_SIGNATURE")}, AllOn>>
      [] k = "ghost" -> <<{SetBank("DECLINE")}>>
      [] k = "collusion-short" ->
            <<{SetBank("CONFIRM")}>> \o [i \in Signers |-> {SetOf(i, i = 1)}]

\* restoreControls, second part: the members whose cached switch differs, one
\* after the other in their order.
RestoreScript(have, want) ==
    LET differ == {i \in Signers : (i \in have) # (i \in want)}
        Place(i) == Cardinality({k \in differ : k <= i})
    IN  [j \in 1 .. Cardinality(differ) |->
            {SetOf(i, i \in want) : i \in {k \in differ : Place(k) = j}}]

Init ==
    /\ real = [mode |-> "CONFIRM", on |-> Signers] /\ dialled = real /\ cache = real
    /\ revoked = {} /\ baseline = NoSettings /\ inFlight = 0 /\ rotation = 0
    /\ at = [s \in Scenarios |-> "idle"]
    /\ kind = [s \in Scenarios |-> "legit"]
    /\ merchant = [s \in Scenarios |-> 0]
    /\ script = [s \in Scenarios |-> <<>>]
    /\ target = [s \in Scenarios |-> NoSettings]
    /\ work = [o \in Owners |-> {}]
    /\ polls = 0 /\ dials = 0 /\ overtaken = FALSE
-----------------------------------------------------------------------------
(* Calls and polls *)

Becomes(o, c, new) == work' = [work EXCEPT ![o] = (@ \ {c}) \cup new]

Switched(settings, c) ==
    IF c.to = "bank" THEN [settings EXCEPT !.mode = c.value]
    ELSE [settings EXCEPT !.on = IF c.value = "on" THEN @ \cup {c.who} ELSE @ \ {c.who}]

\* The periodic poll has an answer that a call to to makes out of date.
AnsweredBefore(to) == \E d \in work["health"] : d.step = "write" /\ d.to = to

\* The peer handles the call, or the call fails; a refresh follows either way.
PeerSets(o, c) ==
    /\ c \in work[o] /\ c.step = "set"
    /\ \/ /\ real' = Switched(real, c)
          /\ dialled' = IF o = "presenter" THEN real' ELSE dialled
          /\ overtaken' = (overtaken \/ AnsweredBefore(c.to))
       \/ ~Reliable /\ UNCHANGED <<real, dialled, overtaken>>
    /\ Becomes(o, c, {Call("read", c.to, c.who, "", NoSettings)})
    /\ UNCHANGED <<revoked, cache, shared, runVars, polls, dials>>

\* What a poll finds: the bank's mode, or the members that answer online.  A
\* member that does not answer is reported offline.
Findings(to) ==
    IF to = "bank" THEN {[mode |-> real.mode, on |-> {}]}
    ELSE {[mode |-> "none", on |-> seen] : seen \in IF Reliable THEN {real.on}
                                                             ELSE SUBSET real.on}

\* The peers answer a poll.
PeerReads(o, c) ==
    /\ c \in work[o] /\ c.step = "read"
    /\ \E found \in Findings(c.to) : Becomes(o, c, {Call("write", c.to, c.who, "", found)})
    /\ UNCHANGED <<switches, cache, shared, runVars, polls, dials>>

\* updateBankHealth, updateSignerHealths.  A poll of the bank that fails leaves
\* the mode as it was.
PollWrites(o, c) ==
    /\ c \in work[o] /\ c.step = "write"
    /\ Becomes(o, c, {})
    /\ \/ c.to = "bank" /\ cache' = [cache EXCEPT !.mode = c.saw.mode]
       \/ c.to = "signers" /\ cache' = [cache EXCEPT !.on = c.saw.on]
       \/ c.to = "bank" /\ ~Reliable /\ UNCHANGED cache
    /\ UNCHANGED <<switches, shared, runVars, polls, dials>>

\* index.ts polls every 3 s; a round is over after at most 1.5 s.
HealthPoll ==
    /\ polls < MaxPolls /\ work["health"] = {}
    /\ polls' = polls + 1
    /\ work' = [work EXCEPT !["health"] = PollAll]
    /\ UNCHANGED <<switches, cache, shared, runVars, dials>>
-----------------------------------------------------------------------------
(* Scenarios *)

Active == {s \in Scenarios : at[s] \notin {"idle", "done"}}
Ready(s, stage) == at[s] = stage /\ work[s] = {}

Undisturbed == Patient => Active = {} /\ work["presenter"] = {}

\* Scenario s awaits the first batch of todo, then the others, in a stage.
Await(s, stage, todo) ==
    /\ at' = [at EXCEPT ![s] = stage]
    /\ work' = [work EXCEPT ![s] = Head(todo)]
    /\ script' = [script EXCEPT ![s] = Tail(todo)]

\* runScenario, up to its first await.
Start(s, k) ==
    /\ at[s] = "idle" /\ Undisturbed
    /\ kind' = [kind EXCEPT ![s] = k]
    /\ merchant' = [merchant EXCEPT ![s] = rotation % Merchants]
    /\ rotation' = rotation + 1
    /\ Await(s, "refresh", <<PollAll>>)
    /\ UNCHANGED <<switches, cache, shared, target, polls, dials>>

\* Mutant of Capture: every scenario captures.
CaptureAlways(s) ==
    /\ Ready(s, "refresh")
    /\ baseline' = cache
    /\ inFlight' = inFlight + 1
    /\ Await(s, "apply", Preconditions(kind[s]))
    /\ UNCHANGED <<switches, cache, kind, merchant, rotation, target, polls, dials>>

\* Mutant of Capture: captures hardcoded defaults.
CaptureDefaults(s) ==
    /\ Ready(s, "refresh")
    /\ baseline' = IF inFlight = 0 THEN [mode |-> "CONFIRM", on |-> Signers] ELSE baseline
    /\ inFlight' = inFlight + 1
    /\ Await(s, "apply", Preconditions(kind[s]))
    /\ UNCHANGED <<switches, cache, kind, merchant, rotation, target, polls, dials>>

\* Mutant of Capture: counts itself before it looks.
CaptureTooLate(s) ==
    /\ Ready(s, "refresh")
    /\ inFlight' = inFlight + 1
    /\ baseline' = IF inFlight' = 0 THEN cache ELSE baseline
    /\ Await(s, "apply", Preconditions(kind[s]))
    /\ UNCHANGED <<switches, cache, kind, merchant, rotation, target, polls, dials>>

\* The first scenario of a chain captures the presenter's settings.
Capture(s) ==
    /\ Ready(s, "refresh")
    /\ baseline' = IF inFlight = 0 THEN cache ELSE baseline
    /\ inFlight' = inFlight + 1
    /\ Await(s, "apply", Preconditions(kind[s]))
    /\ UNCHANGED <<switches, cache, kind, merchant, rotation, target, polls, dials>>

\* The next batch of preconditions; after the last, revoke the merchant and poll.
Apply(s) ==
    /\ Ready(s, "apply")
    /\ \/ script[s] # <<>> /\ Await(s, "apply", script[s]) /\ UNCHANGED revoked
       \/ /\ script[s] = <<>>
          /\ revoked' = IF kind[s] = "revoked-merchant" THEN revoked \cup {merchant[s]}
                                                        ELSE revoked
          /\ Await(s, "check", <<PollAll>>)
    /\ UNCHANGED <<real, dialled, overtaken, cache, shared, kind, merchant, rotation,
                   target, polls, dials>>

\* restoreControls after the bank: the list of members is the cache of now.
RestoreSigners(s, want) ==
    LET todo == RestoreScript(cache.on, want.on) IN
    IF todo = <<>> THEN Await(s, "refreshLast", <<PollAll>>)
                   ELSE Await(s, "restoreSigners", todo)

\* Mutant of Settle: leaves the merchant to the last scenario of the chain.
SettleLate(s) ==
    LET left == inFlight - 1 IN
    /\ inFlight' = left
    /\ revoked' = IF kind[s] = "revoked-merchant" /\ left = 0 THEN revoked \ {merchant[s]}
                                                              ELSE revoked
    /\ IF left > 0
       THEN /\ Await(s, "refreshLast", <<PollAll>>)
            /\ UNCHANGED <<baseline, target>>
       ELSE /\ baseline' = NoSettings
            /\ target' = [target EXCEPT ![s] = baseline]
            /\ IF cache.mode # baseline.mode
               THEN Await(s, "restoreBank", <<{SetBank(baseline.mode)}>>)
               ELSE RestoreSigners(s, baseline)

\* restorePreconditions, up to its first await.  The last scenario to end takes
\* the baseline away and restores it.
Settle(s) ==
    LET left == IF inFlight = 0 THEN 0 ELSE inFlight - 1 IN
    /\ inFlight' = left
    /\ revoked' = IF kind[s] = "revoked-merchant" THEN revoked \ {merchant[s]} ELSE revoked
    /\ IF left > 0 \/ baseline = NoSettings
       THEN /\ Await(s, "refreshLast", <<PollAll>>)
            /\ UNCHANGED <<baseline, target>>
       ELSE /\ baseline' = NoSettings
            /\ target' = [target EXCEPT ![s] = baseline]
            /\ IF cache.mode # baseline.mode
               THEN Await(s, "restoreBank", <<{SetBank(baseline.mode)}>>)
               ELSE RestoreSigners(s, baseline)

\* Submit the request.  With its merchant revoked it is rejected synchronously
\* and the scenario settles in the same turn.
Launch(s) ==
    /\ Ready(s, "check")
    /\ \/ merchant[s] \in revoked /\ Settle(s)
       \/ /\ merchant[s] \notin revoked
          /\ at' = [at EXCEPT ![s] = "running"]
          /\ UNCHANGED <<revoked, shared, target, work, script>>
    /\ UNCHANGED <<real, dialled, overtaken, cache, kind, merchant, rotation, polls, dials>>

\* The request reaches a terminal status, or the watchdog fires.
RequestEnds(s) ==
    /\ Ready(s, "running")
    /\ Settle(s)
    /\ UNCHANGED <<real, dialled, overtaken, cache, kind, merchant, rotation, polls, dials>>

\* Mutant of Restore: repeats itself until the cache shows the target.
RestoreUntilSeen(s) ==
    /\ at[s] \in {"restoreBank", "restoreSigners"} /\ work[s] = {}
    /\ IF script[s] # <<>> THEN Await(s, at[s], script[s]) ELSE RestoreSigners(s, target[s])
    /\ UNCHANGED <<switches, cache, shared, kind, merchant, rotation, target, polls, dials>>

\* The bank is restored: go on with the members, one after the other, then poll.
Restore(s) ==
    /\ \/ Ready(s, "restoreBank") /\ RestoreSigners(s, target[s])
       \/ /\ Ready(s, "restoreSigners")
          /\ IF script[s] # <<>> THEN Await(s, "restoreSigners", script[s])
                                 ELSE Await(s, "refreshLast", <<PollAll>>)
    /\ UNCHANGED <<switches, cache, shared, kind, merchant, rotation, target, polls, dials>>

Finish(s) ==
    /\ Ready(s, "refreshLast")
    /\ at' = [at EXCEPT ![s] = "done"]
    /\ target' = [target EXCEPT ![s] = NoSettings]
    /\ UNCHANGED <<switches, cache, shared, kind, merchant, rotation, script, work, polls,
                   dials>>

\* POST /api/demo/bank-mode, POST /api/demo/signers/:signerId.
Dial(c) ==
    /\ dials < MaxDials /\ work["presenter"] = {} /\ Undisturbed
    /\ dials' = dials + 1
    /\ work' = [work EXCEPT !["presenter"] = {c}]
    /\ UNCHANGED <<switches, cache, shared, runVars, polls>>
-----------------------------------------------------------------------------
CallStep(o) == \E c \in work[o] : PeerSets(o, c) \/ PeerReads(o, c) \/ PollWrites(o, c)

Continue(s) ==
    Capture(s) \/ Apply(s) \/ Launch(s) \/ RequestEnds(s) \/ Restore(s) \/ Finish(s)

PresenterStep ==
    \/ \E s \in Scenarios, k \in Kinds : Start(s, k)
    \/ \E m \in Modes : Dial(SetBank(m))
    \/ \E i \in Signers, b \in BOOLEAN : Dial(SetOf(i, b))

Next ==
    \/ PresenterStep
    \/ HealthPoll
    \/ \E o \in Owners : CallStep(o)
    \/ \E s \in Scenarios : Continue(s)

Spec == Init /\ [][Next]_vars

\* Every call ends by its deadline, every request ends (FR-17, or the watchdog).
FairSpec == Spec /\ \A s \in Scenarios : WF_vars(CallStep(s) \/ Continue(s))
-----------------------------------------------------------------------------
\* demo.ts, "captured once by the first scenario in a chain and restored once by
\* the last to finish": the baseline is held exactly while some scenario counts
\* on it, however scenarios overlap and whatever fails.
BaselineHeld ==
    /\ inFlight = Cardinality({s \in Scenarios : at[s] \in {"apply", "check", "running"}})
    /\ (baseline # NoSettings) <=> (inFlight > 0)

\* A baseline, once captured, is not replaced while scenarios are in flight.
BaselineKept == [][inFlight > 0 /\ inFlight' > 0 => baseline' = baseline]_vars

\* demo.ts, "Merchant revocation is scoped to this one scenario": a merchant is
\* revoked only while a scenario that revoked it is in flight.
RevocationScoped ==
    \A m \in revoked : \E s \in Scenarios :
        kind[s] = "revoked-merchant" /\ merchant[s] = m /\ at[s] \in {"check", "running"}

\* Every scenario ends, and with it the restoring, even if every call fails.
EveryScenarioEnds == \A s \in Scenarios : at[s] # "idle" ~> at[s] = "done"

\* demo.ts: restoring to the baseline "is what stops a scenario from silently
\* wiping whatever the presenter had dialled in by hand".  It holds for a patient
\* presenter, without failures and as long as no answer of the periodic poll was
\* written after a switch had made it out of date.
HandSettingsSurvive ==
    ~overtaken /\ Active = {} /\ work["presenter"] = {} => real = dialled
=============================================================================
