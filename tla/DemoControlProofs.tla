-------------------------- MODULE DemoControlProofs --------------------------
(***************************************************************************)
(* Theorems about the demo scenarios, for every consortium, rotation and   *)
(* set of scenarios, whatever overlaps and whatever call fails; only the   *)
(* last one needs that nothing overlaps and no call fails.  The periodic   *)
(* poll runs beside the scenarios in all of them.                          *)
(***************************************************************************)
EXTENDS DemoControl, FiniteSetTheorems, SequenceTheorems, TLAPS

\* The scenarios that count on the baseline.
Counting == {s \in Scenarios : at[s] \in {"apply", "check", "running"}}

TypesInv ==
    /\ at \in [Scenarios -> Stages]
    /\ kind = [s \in Scenarios |-> kind[s]]
    /\ merchant = [s \in Scenarios |-> merchant[s]]
    /\ inFlight \in Nat
    /\ DOMAIN cache = {"mode", "on"}

DemoInv == TypesInv /\ IsFiniteSet(Counting) /\ BaselineHeld /\ RevocationScoped

LEMMA CacheIsSettings == TypesInv => cache # NoSettings
<1>1. DOMAIN NoSettings = {"none"}
  BY DEF NoSettings
<1> QED
  BY <1>1 DEF TypesInv

LEMMA DemoInit == Init => DemoInv
<1> SUFFICES ASSUME Init PROVE DemoInv
  OBVIOUS
<1>1. TypesInv
  BY DEF Init, TypesInv, Stages
<1>2. Counting = {}
  BY DEF Init, Counting
<1>3. inFlight = Cardinality(Counting) /\ ~(inFlight > 0) /\ baseline = NoSettings
  BY <1>2, FS_EmptySet DEF Init
<1>4. BaselineHeld
  BY <1>3 DEF BaselineHeld, Counting
<1> QED
  BY <1>1, <1>2, <1>4, FS_EmptySet DEF DemoInv, RevocationScoped, Init

-----------------------------------------------------------------------------
(* Steps that leave the stages of the scenarios alone: calls, polls, dials *)

LEMMA QuietStep ==
    ASSUME DemoInv, DOMAIN cache' = {"mode", "on"},
           UNCHANGED <<at, kind, merchant, shared, revoked>>
    PROVE  DemoInv'
<1>1. Counting' = Counting
  BY DEF Counting
<1> QED
  BY <1>1 DEF DemoInv, TypesInv, BaselineHeld, RevocationScoped, Counting, shared

LEMMA CallKeeps ==
    ASSUME DemoInv, NEW o \in Owners, CallStep(o)
    PROVE  DemoInv'
<1>1. UNCHANGED <<at, kind, merchant, shared, revoked>>
  BY DEF CallStep, PeerSets, PeerReads, PollWrites, switches, runVars
<1>2. DOMAIN cache' = {"mode", "on"}
  BY DEF CallStep, PeerSets, PeerReads, PollWrites, DemoInv, TypesInv
<1> QED
  BY <1>1, <1>2, QuietStep

-----------------------------------------------------------------------------
(* The steps of a scenario                                                 *)

\* A scenario moves between two stages without beginning or ceasing to count.
LEMMA MovesOn ==
    ASSUME DemoInv, NEW s \in Scenarios, NEW stage \in Stages,
           at' = [at EXCEPT ![s] = stage],
           (stage \in {"apply", "check", "running"}) <=> s \in Counting,
           UNCHANGED <<shared, cache>>
    PROVE  /\ TypesInv' <=> /\ kind' = [t \in Scenarios |-> kind'[t]]
                            /\ merchant' = [t \in Scenarios |-> merchant'[t]]
           /\ IsFiniteSet(Counting)' /\ BaselineHeld'
<1>1. Counting' = Counting
  BY DEF Counting, DemoInv, TypesInv
<1> QED
  BY <1>1 DEF DemoInv, TypesInv, BaselineHeld, Counting, shared

LEMMA StartKeeps ==
    ASSUME DemoInv, NEW s \in Scenarios, NEW k \in Kinds, Start(s, k)
    PROVE  DemoInv'
<1>1. TypesInv' /\ IsFiniteSet(Counting)' /\ BaselineHeld'
  <2>1. /\ kind' = [t \in Scenarios |-> kind'[t]]
        /\ merchant' = [t \in Scenarios |-> merchant'[t]]
    BY DEF Start, DemoInv, TypesInv
  <2> QED
    BY <2>1, MovesOn DEF Start, Await, Counting, Stages
<1>2. RevocationScoped'
  <2> SUFFICES ASSUME NEW m \in revoked
               PROVE  \E t \in Scenarios : /\ kind'[t] = "revoked-merchant"
                                           /\ merchant'[t] = m
                                           /\ at'[t] \in {"check", "running"}
    BY DEF RevocationScoped, Start, switches
  <2>1. PICK t \in Scenarios : /\ kind[t] = "revoked-merchant" /\ merchant[t] = m
                               /\ at[t] \in {"check", "running"}
    BY DEF DemoInv, RevocationScoped
  <2>2. t # s
    BY <2>1 DEF Start
  <2>3. kind'[t] = kind[t] /\ merchant'[t] = merchant[t] /\ at'[t] = at[t]
    BY <2>2 DEF Start, Await, DemoInv, TypesInv
  <2> QED
    BY <2>1, <2>3
<1> QED
  BY <1>1, <1>2 DEF DemoInv

\* The stages in which a scenario's revocation is in force are not left.
LEMMA RevocationKept ==
    ASSUME DemoInv, NEW s \in Scenarios, NEW stage \in Stages,
           at' = [at EXCEPT ![s] = stage],
           at[s] \in {"check", "running"} => stage \in {"check", "running"},
           UNCHANGED <<kind, merchant, revoked>>
    PROVE  RevocationScoped'
BY DEF DemoInv, TypesInv, RevocationScoped

LEMMA CaptureKeeps ==
    ASSUME DemoInv, NEW s \in Scenarios, Capture(s)
    PROVE  DemoInv'
<1>1. at[s] = "refresh" /\ at' = [at EXCEPT ![s] = "apply"]
  BY DEF Capture, Ready, Await
<1>2. s \notin Counting /\ Counting' = Counting \cup {s}
  BY <1>1 DEF Counting, DemoInv, TypesInv
<1>3. IsFiniteSet(Counting)' /\ inFlight' = Cardinality(Counting')
  BY <1>2, FS_AddElement DEF Capture, DemoInv, BaselineHeld, Counting
<1>4. TypesInv'
  BY <1>1 DEF Capture, DemoInv, TypesInv, Stages
<1>5. baseline' # NoSettings /\ inFlight' > 0
  BY CacheIsSettings DEF Capture, DemoInv, TypesInv, BaselineHeld
<1>6. RevocationScoped'
  BY <1>1, RevocationKept DEF Capture, switches, Stages
<1> QED
  BY <1>3, <1>4, <1>5, <1>6 DEF DemoInv, BaselineHeld, Counting

LEMMA ApplyKeeps ==
    ASSUME DemoInv, NEW s \in Scenarios, Apply(s)
    PROVE  DemoInv'
<1>1. at[s] = "apply" /\ s \in Counting /\ UNCHANGED <<kind, merchant, shared, cache>>
  BY DEF Apply, Ready, Counting
<1>2. CASE script[s] # <<>> /\ Await(s, "apply", script[s]) /\ UNCHANGED revoked
  <2>1. at' = [at EXCEPT ![s] = "apply"] /\ "apply" \in Stages
    BY <1>2 DEF Await, Stages
  <2>2. RevocationScoped'
    BY <1>1, <1>2, <2>1, RevocationKept
  <2> QED
    BY <1>1, <2>1, <2>2, MovesOn DEF DemoInv, TypesInv
<1>3. CASE /\ revoked' = IF kind[s] = "revoked-merchant" THEN revoked \cup {merchant[s]}
                                                         ELSE revoked
           /\ Await(s, "check", <<PollAll>>)
  <2>1. at' = [at EXCEPT ![s] = "check"] /\ "check" \in Stages
    BY <1>3 DEF Await, Stages
  <2>2. at'[s] = "check" /\ \A t \in Scenarios \ {s} : at'[t] = at[t]
    BY <2>1 DEF DemoInv, TypesInv
  <2>3. RevocationScoped'
    BY <1>1, <1>3, <2>2 DEF DemoInv, RevocationScoped
  <2> QED
    BY <1>1, <2>1, <2>3, MovesOn DEF DemoInv, TypesInv
<1> QED
  BY <1>2, <1>3 DEF Apply

\* The scenario stops counting, its merchant is reinstated, and with the last
\* one the baseline goes.
LEMMA SettleKeeps ==
    ASSUME DemoInv, NEW s \in Scenarios, s \in Counting, Settle(s),
           UNCHANGED <<kind, merchant, cache>>
    PROVE  DemoInv'
<1>1. PICK stage \in {"refreshLast", "restoreBank", "restoreSigners"} :
          at' = [at EXCEPT ![s] = stage]
  BY DEF Settle, RestoreSigners, Await
<1>2. Counting' = Counting \ {s}
  BY <1>1 DEF Counting, DemoInv, TypesInv
<1>3. /\ IsFiniteSet(Counting)'
      /\ Cardinality(Counting') = inFlight - 1 /\ Cardinality(Counting') \in Nat
  BY <1>2, FS_RemoveElement, FS_CardinalityType DEF DemoInv, BaselineHeld, Counting
<1>4. inFlight > 0 /\ inFlight' = inFlight - 1 /\ inFlight' \in Nat
  BY <1>3 DEF Settle, DemoInv, TypesInv
<1>5. (baseline' # NoSettings) <=> inFlight' > 0
  BY <1>4 DEF Settle, DemoInv, TypesInv, BaselineHeld
<1>6. TypesInv'
  BY <1>1, <1>4 DEF DemoInv, TypesInv, Stages
<1>7. RevocationScoped'
  <2> SUFFICES ASSUME NEW m \in revoked'
               PROVE  \E t \in Scenarios : /\ kind[t] = "revoked-merchant"
                                           /\ merchant[t] = m
                                           /\ at'[t] \in {"check", "running"}
    BY DEF RevocationScoped
  <2>1. m \in revoked /\ (kind[s] = "revoked-merchant" => m # merchant[s])
    BY DEF Settle
  <2>2. PICK t \in Scenarios : /\ kind[t] = "revoked-merchant" /\ merchant[t] = m
                               /\ at[t] \in {"check", "running"}
    BY <2>1 DEF DemoInv, RevocationScoped
  <2>3. t # s
    BY <2>1, <2>2
  <2> QED
    BY <1>1, <2>2, <2>3 DEF DemoInv, TypesInv
<1> QED
  BY <1>3, <1>4, <1>5, <1>6, <1>7 DEF DemoInv, BaselineHeld, Counting

LEMMA LaunchKeeps ==
    ASSUME DemoInv, NEW s \in Scenarios, Launch(s)
    PROVE  DemoInv'
<1>1. at[s] = "check" /\ s \in Counting /\ UNCHANGED <<kind, merchant, cache>>
  BY DEF Launch, Ready, Counting
<1>2. CASE Settle(s)
  BY <1>1, <1>2, SettleKeeps
<1>3. CASE at' = [at EXCEPT ![s] = "running"] /\ UNCHANGED <<revoked, shared>>
  <2>1. RevocationScoped'
    BY <1>1, <1>3, RevocationKept DEF Stages
  <2>2. TypesInv' /\ IsFiniteSet(Counting)' /\ BaselineHeld'
    BY <1>1, <1>3, MovesOn DEF DemoInv, TypesInv, Stages
  <2> QED
    BY <2>1, <2>2 DEF DemoInv
<1> QED
  BY <1>2, <1>3 DEF Launch

LEMMA RequestEndsKeeps ==
    ASSUME DemoInv, NEW s \in Scenarios, RequestEnds(s)
    PROVE  DemoInv'
BY SettleKeeps DEF RequestEnds, Ready, Counting

\* The last stages, in which a scenario counts no more.
LEMMA WindsDown ==
    ASSUME DemoInv, NEW s \in Scenarios, Restore(s) \/ Finish(s)
    PROVE  DemoInv'
<1>1. UNCHANGED <<kind, merchant, shared, cache, revoked>>
  BY DEF Restore, Finish, switches
<1>2. at[s] \in {"restoreBank", "restoreSigners", "refreshLast"}
  BY DEF Restore, Finish, Ready
<1>3. PICK stage \in {"restoreSigners", "refreshLast", "done"} :
          at' = [at EXCEPT ![s] = stage]
  BY DEF Restore, Finish, RestoreSigners, Await
<1>4. stage \in Stages /\ s \notin Counting
  BY <1>2 DEF Stages, Counting
<1>5. RevocationScoped'
  BY <1>1, <1>2, <1>3, <1>4, RevocationKept
<1>6. TypesInv' /\ IsFiniteSet(Counting)' /\ BaselineHeld'
  BY <1>1, <1>3, <1>4, MovesOn DEF DemoInv, TypesInv
<1> QED
  BY <1>5, <1>6 DEF DemoInv

LEMMA DemoNext == DemoInv /\ [Next]_vars => DemoInv'
<1> SUFFICES ASSUME DemoInv, [Next]_vars PROVE DemoInv'
  OBVIOUS
<1>1. CASE PresenterStep
  <2>1. ASSUME NEW s \in Scenarios, NEW k \in Kinds, Start(s, k) PROVE DemoInv'
    BY <2>1, StartKeeps
  <2>2. ASSUME NEW c, Dial(c) PROVE DemoInv'
    BY <2>2, QuietStep DEF Dial, switches, runVars, DemoInv, TypesInv
  <2> QED
    BY <1>1, <2>1, <2>2 DEF PresenterStep
<1>2. CASE HealthPoll
  BY <1>2, QuietStep DEF HealthPoll, switches, runVars, DemoInv, TypesInv
<1>3. CASE \E o \in Owners : CallStep(o)
  BY <1>3, CallKeeps
<1>4. CASE \E s \in Scenarios : Continue(s)
  BY <1>4, CaptureKeeps, ApplyKeeps, LaunchKeeps, RequestEndsKeeps, WindsDown DEF Continue
<1>5. CASE UNCHANGED vars
  BY <1>5, QuietStep DEF vars, switches, runVars, DemoInv, TypesInv
<1> QED
  BY <1>1, <1>2, <1>3, <1>4, <1>5 DEF Next

LEMMA DemoCorrect == Spec => []DemoInv
<1> QED
  BY DemoInit, DemoNext, PTL DEF Spec

-----------------------------------------------------------------------------
\* runScenario and restorePreconditions: however scenarios overlap and whatever
\* fails, the baseline is held exactly while some scenario counts on it.
THEOREM BaselineIsHeld == Spec => []BaselineHeld
<1>1. DemoInv => BaselineHeld
  BY DEF DemoInv
<1> QED
  BY <1>1, DemoCorrect, PTL

\* restorePreconditions: a merchant is revoked only while a scenario that revoked
\* it is in flight.
THEOREM RevocationIsScoped == Spec => []RevocationScoped
<1>1. DemoInv => RevocationScoped
  BY DEF DemoInv
<1> QED
  BY <1>1, DemoCorrect, PTL

\* Between two scenarios of a chain nothing replaces the captured baseline.
LEMMA BaselineStep ==
    ASSUME DemoInv, [Next]_vars, inFlight > 0, inFlight' > 0
    PROVE  baseline' = baseline
<1>1. CASE UNCHANGED shared
  BY <1>1 DEF shared
<1>2. ASSUME NEW s \in Scenarios, Capture(s) PROVE baseline' = baseline
  BY <1>2 DEF Capture, DemoInv, TypesInv
<1>3. ASSUME NEW s \in Scenarios, Settle(s) PROVE baseline' = baseline
  BY <1>3 DEF Settle, DemoInv, TypesInv
<1>4. UNCHANGED shared \/ \E s \in Scenarios : Capture(s) \/ Settle(s)
  BY DEF Next, PresenterStep, Start, Dial, HealthPoll, CallStep, PeerSets, PeerReads,
         PollWrites, Continue, Apply, Launch, RequestEnds, Restore, Finish, vars
<1> QED
  BY <1>1, <1>2, <1>3, <1>4

\* captureControls is called only by the first scenario of a chain.
THEOREM BaselineIsKept == Spec => BaselineKept
<1>1. DemoInv /\ [Next]_vars =>
          [inFlight > 0 /\ inFlight' > 0 => baseline' = baseline]_vars
  BY BaselineStep
<1> QED
  BY <1>1, DemoCorrect, PTL DEF Spec, BaselineKept
-----------------------------------------------------------------------------
(* The presenter's settings, with a patient presenter and reliable calls:  *)
(* whoever makes calls makes them alone, but for the periodic poll, and no *)
(* answer of that poll is overtaken by a switch.                           *)

SetCalls == {SetBank(m) : m \in Modes} \cup {SetOf(i, b) : i \in Signers, b \in BOOLEAN}

IsCall(c) ==
    /\ c.step \in {"set", "read", "write"} /\ c.to \in {"bank", "signers"}
    /\ c.step = "set" => c \in SetCalls
    /\ c.step = "write" => IF c.to = "bank" THEN c.saw.mode \in Modes
                                            ELSE c.saw.on \subseteq Signers

HandTypes ==
    /\ {real, dialled, cache} \subseteq Settings
    /\ work = [o \in Owners |-> work[o]] /\ \A o \in Owners : \A c \in work[o] : IsCall(c)
    /\ script \in [Scenarios -> Seq(SUBSET SetCalls)]
    /\ kind \in [Scenarios -> AllKinds]
    /\ target = [s \in Scenarios |-> target[s]]

\* One scenario at a time, or the presenter, makes calls.
OneActor ==
    /\ work["presenter"] # {} => Active = {}
    /\ \A s \in Scenarios : s \notin Active => work[s] = {}
    /\ \A s, t \in Active : s = t

\* The polls that owner o has under way tell the truth.
Truthful(o) ==
    \A c \in work[o] :
        /\ c.step # "set"
        /\ c.step = "write" => IF c.to = "bank" THEN c.saw.mode = real.mode
                                                ELSE c.saw.on = real.on

\* The polls under way tell the truth and complete the cache.
Refreshing(s) ==
    /\ Truthful(s)
    /\ cache.mode = real.mode \/ \E c \in work[s] : c.to = "bank"
    /\ cache.on = real.on \/ \E c \in work[s] : c.to = "signers"

RestoresBank(s) ==
    /\ target[s] = dialled /\ cache.on = real.on
    /\ \A c \in work[s] : c.to = "bank" /\ (c.step = "set" => c.value = dialled.mode)
    /\ real.mode = dialled.mode \/ \E c \in work[s] : c.step = "set"

\* The call that puts switch i back.
PutsBack(i) == SetOf(i, i \in dialled.on)

RestoresSigners(s) ==
    /\ real.mode = dialled.mode
    /\ \A c \in work[s] : c.step = "set" => \E i \in Signers : c = PutsBack(i)
    /\ \A c \in work[s] : c.to = "signers"
    /\ \A j \in 1 .. Len(script[s]) : \A c \in script[s][j] : \E i \in Signers : c = PutsBack(i)
    /\ \A i \in Signers :
        \/ (i \in real.on) = (i \in dialled.on)
        \/ PutsBack(i) \in work[s]
        \/ \E j \in 1 .. Len(script[s]) : PutsBack(i) \in script[s][j]

StageIsRight(s) ==
    /\ at[s] \in {"refresh", "refreshLast"} => real = dialled
    /\ at[s] \in {"apply", "check", "running"} => baseline = dialled
    /\ at[s] \in {"refresh", "check", "running"} => Refreshing(s)
    /\ at[s] = "restoreBank" => RestoresBank(s)
    /\ at[s] = "restoreSigners" => RestoresSigners(s)
    /\ at[s] = "refreshLast" => \A c \in work[s] : c.step # "set"

HandInv ==
    /\ HandTypes /\ OneActor /\ Truthful("health")
    /\ \A s \in Scenarios : StageIsRight(s)
    /\ Active = {} => real = dialled

USE DemoAssumption

LEMMA ScenariosAreOwners ==
    /\ Scenarios \subseteq Owners /\ "presenter" \in Owners /\ "health" \in Owners
    /\ "presenter" \notin Scenarios /\ "health" \notin Scenarios
BY DEF Owners

\* A set of calls that a script awaits at once.
LEMMA SetCallsAre ==
    /\ \A c \in SetCalls : c.step = "set" /\ IsCall(c)
    /\ \A m \in Modes : SetBank(m) \in SetCalls
    /\ \A i \in Signers, b \in BOOLEAN : SetOf(i, b) \in SetCalls
<1>1. \A m \in Modes : SetBank(m).step = "set" /\ SetBank(m).to = "bank"
  BY DEF SetBank, Call
<1>2. \A i \in Signers, b \in BOOLEAN : SetOf(i, b).step = "set" /\ SetOf(i, b).to = "signers"
  BY DEF SetOf, SetSigner, Call
<1> QED
  BY <1>1, <1>2 DEF SetCalls, IsCall

\* What a call to set a switch does.
LEMMA SwitchedIs ==
    ASSUME NEW settings \in Settings, NEW c \in SetCalls
    PROVE  /\ Switched(settings, c) \in Settings
           /\ c.to = "bank" => /\ Switched(settings, c).mode = c.value
                               /\ Switched(settings, c).on = settings.on
           /\ c.to # "bank" => Switched(settings, c).mode = settings.mode
<1>1. ASSUME NEW m \in Modes, c = SetBank(m)
      PROVE  /\ c.to = "bank" /\ c.value = m
             /\ Switched(settings, c) = [mode |-> m, on |-> settings.on]
  BY <1>1 DEF SetBank, Call, Switched, Settings
<1>2. ASSUME NEW i \in Signers, NEW b \in BOOLEAN, c = SetOf(i, b)
      PROVE  /\ c.to = "signers"
             /\ Switched(settings, c) = [mode |-> settings.mode,
                    on |-> IF b THEN settings.on \cup {i} ELSE settings.on \ {i}]
  BY <1>2 DEF SetOf, SetSigner, Call, Switched, Settings
<1>3. (\E m \in Modes : c = SetBank(m)) \/ \E i \in Signers, b \in BOOLEAN : c = SetOf(i, b)
  BY DEF SetCalls
<1> QED
  BY <1>1, <1>2, <1>3 DEF Settings

\* Putting switch i back leaves the others alone.
LEMMA PutBackIs ==
    ASSUME NEW settings \in Settings, dialled \in Settings, NEW i \in Signers
    PROVE  /\ PutsBack(i) \in SetCalls /\ PutsBack(i).to = "signers"
           /\ \A k \in Signers : (k \in Switched(settings, PutsBack(i)).on) =
                 IF k = i THEN k \in dialled.on ELSE k \in settings.on
           /\ \A k \in Signers : PutsBack(k) = PutsBack(i) => k = i
<1>1. /\ PutsBack(i).to = "signers" /\ PutsBack(i).who = i
      /\ PutsBack(i).value = IF i \in dialled.on THEN "on" ELSE "off"
  BY DEF PutsBack, SetOf, SetSigner, Call
<1>2. PutsBack(i) \in SetCalls
  <2>1. (i \in dialled.on) \in BOOLEAN
    OBVIOUS
  <2> QED
    BY <2>1, SetCallsAre, Zenon DEF PutsBack
<1>3. Switched(settings, PutsBack(i)).on =
         IF i \in dialled.on THEN settings.on \cup {i} ELSE settings.on \ {i}
  BY <1>1 DEF Switched, Settings
<1>4. \A k \in Signers : PutsBack(k).who = k
  BY DEF PutsBack, SetOf, SetSigner, Call
<1> QED
  BY <1>1, <1>2, <1>3, <1>4

LEMMA HandInit == Init => HandInv
<1> SUFFICES ASSUME Init PROVE HandInv
  OBVIOUS
<1>1. [mode |-> "CONFIRM", on |-> Signers] \in Settings
  BY DEF Settings, Modes
<1>2. HandTypes
  <2>1. <<>> \in Seq(SUBSET SetCalls) /\ "legit" \in AllKinds
    BY DEF AllKinds
  <2> QED
    BY <1>1, <2>1 DEF Init, HandTypes
<1>3. Active = {}
  BY DEF Init, Active
<1>4. OneActor
  BY <1>3, ScenariosAreOwners DEF Init, OneActor
<1>5. \A s \in Scenarios : StageIsRight(s)
  BY DEF Init, StageIsRight
<1>6. Truthful("health")
  BY ScenariosAreOwners DEF Init, Truthful
<1> QED
  BY <1>2, <1>3, <1>4, <1>5, <1>6 DEF Init, HandInv

\* Scenario s moves, alone.
LEMMA Alone ==
    ASSUME HandInv, DemoInv, NEW s \in Scenarios, \A t \in Active : t = s,
           work["presenter"] = {}, HandTypes',
           \A t \in Scenarios \ {s} : at'[t] = at[t],
           \A o \in Owners \ {s} : work'[o] = work[o],
           StageIsRight(s)', at'[s] # "idle",
           real' = real \/ Truthful("health")',
           at'[s] = "done" => real' = dialled' /\ work'[s] = {}
    PROVE  HandInv'
<1>1. \A t \in Scenarios \ {s} : t \notin Active /\ t \notin Active'
  BY DEF Active
<1>2. OneActor'
  <2>1. work'["presenter"] = {}
    BY ScenariosAreOwners
  <2>2. \A t \in Scenarios : t \notin Active' => work'[t] = {}
    <3> SUFFICES ASSUME NEW t \in Scenarios, t \notin Active' PROVE work'[t] = {}
      OBVIOUS
    <3>1. CASE t = s
      BY <3>1 DEF Active
    <3>2. CASE t # s
      BY <1>1, <3>2, ScenariosAreOwners DEF HandInv, OneActor
    <3> QED
      BY <3>1, <3>2
  <2>3. \A t, u \in Active' : t = u
    BY <1>1 DEF Active
  <2> QED
    BY <2>1, <2>2, <2>3 DEF OneActor
<1>3. \A t \in Scenarios : StageIsRight(t)'
  <2> SUFFICES ASSUME NEW t \in Scenarios, t # s PROVE StageIsRight(t)'
    OBVIOUS
  <2>1. at'[t] \in {"idle", "done"}
    BY <1>1 DEF Active
  <2> QED
    BY <2>1 DEF StageIsRight
<1>4. Active' = {} => real' = dialled'
  BY DEF Active
<1>5. Truthful("health")'
  <2>1. work'["health"] = work["health"] /\ Truthful("health")
    BY ScenariosAreOwners DEF HandInv
  <2> QED
    BY <2>1 DEF Truthful
<1> QED
  BY <1>2, <1>3, <1>4, <1>5 DEF HandInv
-----------------------------------------------------------------------------
(* Calls *)

LEMMA PollAllIs ==
    /\ \A c \in PollAll : IsCall(c) /\ c.step = "read"
    /\ \E c \in PollAll : c.to = "bank"
    /\ \E c \in PollAll : c.to = "signers"
<1>1. \A to \in {"bank", "signers"} :
         IsCall(Poll(to)) /\ Poll(to).step = "read" /\ Poll(to).to = to
  BY DEF Poll, Call, IsCall
<1>2. PollAll = {Poll("bank"), Poll("signers")}
  BY DEF PollAll
<1> QED
  BY <1>1, <1>2, Zenon

\* A call that is under way has at most one successor.
LEMMA NextOfCall ==
    ASSUME HandTypes, Reliable, NEW o \in Owners, NEW c \in work[o],
           PeerSets(o, c) \/ PeerReads(o, c) \/ PollWrites(o, c)
    PROVE  /\ IsCall(c) /\ UNCHANGED <<at, kind, script, target, baseline>>
           /\ \A p \in Owners \ {o} : work'[p] = work[p]
           /\ \A d \in work'[o] : IsCall(d) /\ (d.step = "set" => d \in work[o])
           /\ HandTypes'
<1>1. IsCall(c) /\ UNCHANGED <<at, kind, script, target, baseline>>
  BY DEF HandTypes, PeerSets, PeerReads, PollWrites, runVars, shared
<1>2. PICK new : /\ work' = [work EXCEPT ![o] = (@ \ {c}) \cup new]
                 /\ \A d \in new : IsCall(d) /\ d.step # "set"
  <2>1. CASE PeerSets(o, c)
    <3>1. IsCall(Call("read", c.to, c.who, "", NoSettings))
      BY <1>1 DEF IsCall, Call
    <3>2. Call("read", c.to, c.who, "", NoSettings).step # "set"
      BY DEF Call
    <3>3. Becomes(o, c, {Call("read", c.to, c.who, "", NoSettings)})
      BY <2>1 DEF PeerSets
    <3> DEFINE next == Call("read", c.to, c.who, "", NoSettings)
    <3>4. Becomes(o, c, {next}) /\ \A d \in {next} : IsCall(d) /\ d.step # "set"
      BY <3>1, <3>2, <3>3, Zenon
    <3> HIDE DEF next
    <3> QED
      BY <3>4, Zenon DEF Becomes
  <2>2. CASE PeerReads(o, c)
    <3>1. PICK found \in Findings(c.to) :
              Becomes(o, c, {Call("write", c.to, c.who, "", found)})
      BY <2>2 DEF PeerReads
    <3>2. IF c.to = "bank" THEN found.mode \in Modes ELSE found.on \subseteq Signers
      BY DEF Findings, HandTypes, Settings
    <3>3. IsCall(Call("write", c.to, c.who, "", found))
      BY <1>1, <3>2 DEF IsCall, Call
    <3>4. Call("write", c.to, c.who, "", found).step # "set"
      BY DEF Call
    <3> DEFINE next == Call("write", c.to, c.who, "", found)
    <3>5. Becomes(o, c, {next}) /\ \A d \in {next} : IsCall(d) /\ d.step # "set"
      BY <3>1, <3>3, <3>4, Zenon
    <3> HIDE DEF next
    <3> QED
      BY <3>5, Zenon DEF Becomes
  <2>3. CASE PollWrites(o, c)
    BY <2>3 DEF PollWrites, Becomes
  <2> QED
    BY <2>1, <2>2, <2>3
<1>3. /\ work' = [p \in Owners |-> work'[p]]
      /\ \A p \in Owners \ {o} : work'[p] = work[p]
      /\ work'[o] = (work[o] \ {c}) \cup new
  BY <1>2 DEF HandTypes
<1>4. \A d \in work'[o] : IsCall(d) /\ (d.step = "set" => d \in work[o])
  BY <1>2, <1>3 DEF HandTypes
<1>5. {real', dialled'} \subseteq Settings
  <2>1. CASE PeerSets(o, c)
    <3>1. c \in SetCalls
      BY <1>1, <2>1 DEF IsCall, PeerSets
    <3>2. Switched(real, c) \in Settings
      BY <3>1, SwitchedIs DEF HandTypes
    <3> QED
      BY <2>1, <3>2 DEF PeerSets, HandTypes
  <2>2. CASE PeerReads(o, c) \/ PollWrites(o, c)
    BY <2>2 DEF PeerReads, PollWrites, switches, HandTypes
  <2> QED
    BY <2>1, <2>2
<1>6. cache' \in Settings
  <2>1. CASE PollWrites(o, c)
    BY <1>1, <2>1 DEF PollWrites, IsCall, HandTypes, Settings
  <2>2. CASE PeerSets(o, c) \/ PeerReads(o, c)
    BY <2>2 DEF PeerSets, PeerReads, HandTypes
  <2> QED
    BY <2>1, <2>2
<1>7. \A p \in Owners : \A d \in work'[p] : IsCall(d)
  BY <1>3, <1>4 DEF HandTypes
<1>8. HandTypes'
  BY <1>1, <1>3, <1>5, <1>6, <1>7 DEF HandTypes
<1> QED
  BY <1>1, <1>3, <1>4, <1>8

\* A switch leaves the answers of the periodic poll true, unless it overtakes one.
LEMMA HealthStaysTruthful ==
    ASSUME HandTypes, Reliable, NEW o \in Owners \ {"health"}, NEW c \in work[o],
           PeerSets(o, c) \/ PeerReads(o, c) \/ PollWrites(o, c),
           Truthful("health"), ~overtaken'
    PROVE  Truthful("health")'
<1>1. work'["health"] = work["health"]
  BY NextOfCall, ScenariosAreOwners
<1>2. CASE PeerSets(o, c)
  <2>1. c \in SetCalls /\ real' = Switched(real, c) /\ real \in Settings
    BY <1>2 DEF PeerSets, HandTypes, IsCall
  <2>2. \A d \in work["health"] : d.step = "write" => d.to # c.to
    BY <1>2 DEF PeerSets, AnsweredBefore
  <2>3. /\ c.to = "bank" => real'.on = real.on
        /\ c.to # "bank" => real'.mode = real.mode
    BY <2>1, SwitchedIs
  <2>4. \A d \in work["health"] : d.to \in {"bank", "signers"}
    BY ScenariosAreOwners DEF HandTypes, IsCall
  <2>5. c.to \in {"bank", "signers"}
    BY DEF HandTypes, IsCall
  <2> QED
    BY <1>1, <2>2, <2>3, <2>4, <2>5 DEF Truthful
<1>3. CASE PeerReads(o, c) \/ PollWrites(o, c)
  BY <1>1, <1>3 DEF PeerReads, PollWrites, switches, Truthful
<1> QED
  BY <1>2, <1>3

LEMMA PresenterCalls ==
    ASSUME HandInv, Reliable, CallStep("presenter"), ~overtaken'
    PROVE  HandInv'
<1>1. PICK c \in work["presenter"] :
          PeerSets("presenter", c) \/ PeerReads("presenter", c) \/ PollWrites("presenter", c)
  BY DEF CallStep
<1>2. Active = {} /\ real = dialled
  BY <1>1 DEF HandInv, OneActor
<1>3. /\ HandTypes' /\ at' = at
      /\ \A o \in Owners \ {"presenter"} : work'[o] = work[o]
  BY <1>1, ScenariosAreOwners, NextOfCall DEF HandInv
<1>4. Active' = {}
  BY <1>2, <1>3 DEF Active
<1>5. real' = dialled'
  BY <1>1, <1>2 DEF PeerSets, PeerReads, PollWrites, switches
<1>6. OneActor'
  BY <1>2, <1>3, <1>4, ScenariosAreOwners DEF OneActor, HandInv
<1>7. \A s \in Scenarios : StageIsRight(s)'
  <2> SUFFICES ASSUME NEW s \in Scenarios PROVE StageIsRight(s)'
    OBVIOUS
  <2>1. at'[s] \in {"idle", "done"}
    BY <1>4 DEF Active
  <2> QED
    BY <2>1 DEF StageIsRight
<1>8. Truthful("health")'
  BY <1>1, ScenariosAreOwners, HealthStaysTruthful DEF HandInv
<1> QED
  BY <1>3, <1>5, <1>6, <1>7, <1>8 DEF HandInv

\* A true answer of the periodic poll disturbs no scenario.
LEMMA HealthCalls ==
    ASSUME HandInv, Reliable, CallStep("health")
    PROVE  HandInv'
<1>1. PICK c \in work["health"] :
          PeerSets("health", c) \/ PeerReads("health", c) \/ PollWrites("health", c)
  BY DEF CallStep
<1>2. /\ IsCall(c) /\ HandTypes'
      /\ UNCHANGED <<at, script, target, baseline>>
      /\ \A o \in Owners \ {"health"} : work'[o] = work[o]
  BY <1>1, ScenariosAreOwners, NextOfCall DEF HandInv
<1>3. c.step # "set" /\ Truthful("health") /\ cache \in Settings /\ real \in Settings
  BY <1>1 DEF HandInv, Truthful, HandTypes
<1>4. UNCHANGED <<real, dialled>>
  BY <1>1, <1>3 DEF PeerSets, PeerReads, PollWrites, switches
<1>5. /\ cache'.mode \in {cache.mode, real.mode} /\ cache'.on \in {cache.on, real.on}
      /\ Truthful("health")'
  <2>1. CASE PeerReads("health", c)
    <3>1. PICK found \in Findings(c.to) :
              Becomes("health", c, {Call("write", c.to, c.who, "", found)})
      BY <2>1 DEF PeerReads
    <3> DEFINE next == Call("write", c.to, c.who, "", found)
    <3>2. next.step = "write" /\ next.to = c.to /\ next.saw = found
      BY DEF Call
    <3>3. IF c.to = "bank" THEN found.mode = real.mode ELSE found.on = real.on
      BY DEF Findings
    <3>4. work'["health"] = (work["health"] \ {c}) \cup {next}
      BY <3>1, ScenariosAreOwners, Zenon DEF Becomes, HandInv, HandTypes
    <3> HIDE DEF next
    <3>5. cache' = cache
      BY <2>1 DEF PeerReads
    <3>6. Truthful("health")'
      BY <1>3, <1>4, <3>2, <3>3, <3>4 DEF Truthful
    <3> QED
      BY <3>5, <3>6
  <2>2. CASE PollWrites("health", c)
    <3>1. work'["health"] = work["health"] \ {c}
      BY <2>2, ScenariosAreOwners DEF PollWrites, Becomes, HandInv, HandTypes
    <3>2. Truthful("health")'
      BY <1>3, <1>4, <3>1 DEF Truthful
    <3>3. cache'.mode \in {cache.mode, real.mode} /\ cache'.on \in {cache.on, real.on}
      BY <1>3, <2>2 DEF PollWrites, Truthful, Settings
    <3> QED
      BY <3>2, <3>3
  <2> QED
    BY <1>1, <1>3, <2>1, <2>2 DEF PeerSets
<1>6. Active' = Active
  BY <1>2 DEF Active
<1>7. OneActor'
  BY <1>2, <1>6, ScenariosAreOwners DEF HandInv, OneActor
<1>8. ASSUME NEW s \in Scenarios PROVE StageIsRight(s)'
  <2>1. work'[s] = work[s] /\ at'[s] = at[s] /\ StageIsRight(s)
    BY <1>2, ScenariosAreOwners DEF HandInv
  <2>2. Refreshing(s) => Refreshing(s)'
    BY <1>4, <1>5, <2>1 DEF Refreshing, Truthful
  <2>3. RestoresBank(s) => RestoresBank(s)'
    BY <1>2, <1>4, <1>5, <2>1 DEF RestoresBank
  <2>4. RestoresSigners(s) => RestoresSigners(s)'
    <3>1. \A i \in Signers : PutsBack(i)' = PutsBack(i)
      BY <1>4 DEF PutsBack
    <3> QED
      BY <1>2, <1>4, <2>1, <3>1 DEF RestoresSigners
  <2> QED
    BY <1>2, <1>4, <2>1, <2>2, <2>3, <2>4 DEF StageIsRight
<1> QED
  BY <1>2, <1>4, <1>5, <1>6, <1>7, <1>8 DEF HandInv

\* A new round of the periodic poll has no answers yet.
LEMMA HealthPollKeepsHand ==
    ASSUME HandInv, HealthPoll
    PROVE  HandInv'
<1>1. /\ UNCHANGED <<real, dialled, cache, at, kind, script, target, baseline>>
      /\ work' = [work EXCEPT !["health"] = PollAll]
  BY DEF HealthPoll, switches, shared, runVars
<1>2. /\ work' = [o \in Owners |-> work'[o]] /\ work'["health"] = PollAll
      /\ \A o \in Owners \ {"health"} : work'[o] = work[o]
  BY <1>1, ScenariosAreOwners DEF HandInv, HandTypes
<1>3. \A c \in PollAll : IsCall(c) /\ c.step = "read"
  BY PollAllIs
<1>4. HandTypes' /\ Truthful("health")'
  BY <1>1, <1>2, <1>3 DEF HandInv, HandTypes, Truthful
<1>5. OneActor' /\ (Active' = {} => real' = dialled')
  BY <1>1, <1>2, ScenariosAreOwners DEF HandInv, OneActor, Active
<1>6. ASSUME NEW s \in Scenarios PROVE StageIsRight(s)'
  <2>1. work'[s] = work[s] /\ StageIsRight(s)
    BY <1>2, ScenariosAreOwners DEF HandInv
  <2>2. \A i \in Signers : PutsBack(i)' = PutsBack(i)
    BY <1>1 DEF PutsBack
  <2> QED
    BY <1>1, <2>1, <2>2 DEF StageIsRight, Refreshing, Truthful, RestoresBank, RestoresSigners
<1> QED
  BY <1>4, <1>5, <1>6 DEF HandInv

\* A scenario's own call, by its stage.
LEMMA CallOfScenario ==
    ASSUME HandTypes, Reliable, NEW s \in Scenarios, NEW c \in work[s], StageIsRight(s),
           at[s] \in Stages,
           PeerSets(s, c) \/ PeerReads(s, c) \/ PollWrites(s, c)
    PROVE  StageIsRight(s)'
<1>1. /\ s \in Owners /\ s # "presenter" /\ IsCall(c) /\ HandTypes'
      /\ UNCHANGED <<at, script, target, baseline, dialled>>
  BY NextOfCall, ScenariosAreOwners DEF PeerSets, PeerReads, PollWrites, switches
<1>2. CASE PeerSets(s, c)
  <2>1. c \in SetCalls /\ c.step = "set" /\ real' = Switched(real, c) /\ cache' = cache
    BY <1>1, <1>2 DEF PeerSets, IsCall
  <2> DEFINE next == Call("read", c.to, c.who, "", NoSettings)
  <2>2. next.step = "read" /\ next.to = c.to
    BY DEF Call
  <2> HIDE DEF next
  <2>3. work'[s] = (work[s] \ {c}) \cup {next}
    BY <1>1, <1>2 DEF PeerSets, Becomes, HandTypes, next
  <2>4. at[s] \notin {"refresh", "check", "running", "refreshLast"}
    BY <2>1 DEF StageIsRight, Refreshing, Truthful
  <2>5. CASE at[s] = "restoreBank"
    <3>1. RestoresBank(s) /\ real \in Settings
      BY <2>5 DEF StageIsRight, HandTypes
    <3>2. c.to = "bank" /\ real'.mode = dialled.mode /\ real'.on = real.on
      BY <2>1, <3>1, SwitchedIs DEF RestoresBank
    <3>3. RestoresBank(s)'
      BY <1>1, <2>1, <2>2, <2>3, <3>1, <3>2 DEF RestoresBank
    <3> QED
      BY <1>1, <2>5, <3>3 DEF StageIsRight
  <2>6. CASE at[s] = "restoreSigners"
    <3>1. RestoresSigners(s) /\ real \in Settings /\ dialled \in Settings
      BY <2>6 DEF StageIsRight, HandTypes
    <3>2. PICK i \in Signers : c = PutsBack(i)
      BY <2>1, <3>1 DEF RestoresSigners
    <3>3. /\ c.to = "signers" /\ real'.mode = real.mode
          /\ \A k \in Signers : (k \in real'.on) =
                IF k = i THEN k \in dialled.on ELSE k \in real.on
          /\ \A k \in Signers : PutsBack(k) = c => k = i
      BY <2>1, <3>1, <3>2, PutBackIs, SwitchedIs
    <3>4. \A k \in Signers : PutsBack(k)' = PutsBack(k)
      BY <1>1 DEF PutsBack
    <3>5. \A k \in Signers :
            \/ (k \in real'.on) = (k \in dialled.on)
            \/ PutsBack(k) \in work'[s]
            \/ \E j \in 1 .. Len(script[s]) : PutsBack(k) \in script[s][j]
      BY <2>3, <3>1, <3>3 DEF RestoresSigners
    <3>6. \A d \in work'[s] : /\ d.to = "signers"
                              /\ d.step = "set" => \E k \in Signers : d = PutsBack(k)
      BY <2>2, <2>3, <3>1, <3>3 DEF RestoresSigners
    <3>7. RestoresSigners(s)'
      BY <1>1, <3>1, <3>3, <3>4, <3>5, <3>6 DEF RestoresSigners
    <3> QED
      BY <1>1, <2>6, <3>7 DEF StageIsRight
  <2>7. CASE at[s] \in {"apply", "idle", "done"}
    BY <1>1, <2>7 DEF StageIsRight
  <2> QED
    BY <2>4, <2>5, <2>6, <2>7 DEF Stages
<1>3. CASE PeerReads(s, c) \/ PollWrites(s, c)
  <2>1. c.step # "set" /\ real' = real
    BY <1>3 DEF PeerReads, PollWrites, switches
  <2>2. PICK new : /\ work'[s] = (work[s] \ {c}) \cup new
                   /\ \A d \in new : d.step # "set" /\ d.to = c.to
    <3>1. CASE PollWrites(s, c)
      BY <1>1, <3>1 DEF PollWrites, Becomes, HandTypes
    <3>2. CASE PeerReads(s, c)
      <4>1. PICK found : Becomes(s, c, {Call("write", c.to, c.who, "", found)})
        BY <3>2 DEF PeerReads
      <4>2. /\ Call("write", c.to, c.who, "", found).step # "set"
            /\ Call("write", c.to, c.who, "", found).to = c.to
        BY DEF Call
      <4> DEFINE next == Call("write", c.to, c.who, "", found)
      <4>3. work'[s] = (work[s] \ {c}) \cup {next}
        BY <1>1, <4>1, Zenon DEF Becomes, HandTypes
      <4>4. next.step # "set" /\ next.to = c.to
        BY <4>2
      <4>5. \A d \in {next} : d.step # "set" /\ d.to = c.to
        BY <4>4, Zenon
      <4> HIDE DEF next
      <4> QED
        BY <4>3, <4>5, Zenon
    <3> QED
      BY <1>3, <3>1, <3>2
  <2>3. CASE at[s] \in {"refresh", "check", "running"}
    <3>1. Refreshing(s)
      BY <2>3 DEF StageIsRight
    <3>2. ASSUME PeerReads(s, c) PROVE Refreshing(s)'
      <4>1. PICK found \in Findings(c.to) :
                Becomes(s, c, {Call("write", c.to, c.who, "", found)})
        BY <3>2 DEF PeerReads
      <4> DEFINE next == Call("write", c.to, c.who, "", found)
      <4>2. next.step = "write" /\ next.to = c.to /\ next.saw = found
        BY DEF Call
      <4>3. IF c.to = "bank" THEN found.mode = real.mode ELSE found.on = real.on
        BY DEF Findings
      <4>4. work'[s] = (work[s] \ {c}) \cup {next}
        BY <1>1, <4>1, Zenon DEF Becomes, HandTypes
      <4> HIDE DEF next
      <4>5. cache' = cache
        BY <3>2 DEF PeerReads
      <4> QED
        BY <2>1, <3>1, <4>2, <4>3, <4>4, <4>5 DEF Refreshing, Truthful
    <3>3. ASSUME PollWrites(s, c) PROVE Refreshing(s)'
      <4>1. work'[s] = work[s] \ {c}
        BY <1>1, <3>3 DEF PollWrites, Becomes, HandTypes
      <4>2. CASE c.to = "bank"
        <5>1. cache'.mode = real.mode /\ cache'.on = cache.on
          BY <3>1, <3>3, <4>2 DEF PollWrites, Refreshing, Truthful, HandTypes, Settings
        <5> QED
          BY <2>1, <3>1, <4>1, <4>2, <5>1 DEF Refreshing, Truthful
      <4>3. CASE c.to # "bank"
        <5>1. cache'.on = real.on /\ cache'.mode = cache.mode
          BY <3>1, <3>3, <4>3 DEF PollWrites, Refreshing, Truthful, HandTypes, Settings
        <5> QED
          BY <1>1, <2>1, <3>1, <4>1, <4>3, <5>1 DEF Refreshing, Truthful, IsCall
      <4> QED
        BY <4>2, <4>3
    <3>4. Refreshing(s)'
      BY <1>3, <3>2, <3>3
    <3> QED
      BY <1>1, <2>1, <2>3, <3>4 DEF StageIsRight
  <2>4. CASE at[s] = "restoreBank"
    <3>1. RestoresBank(s)
      BY <2>4 DEF StageIsRight
    <3>2. c.to = "bank"
      BY <3>1 DEF RestoresBank
    <3>3. cache'.on = cache.on
      BY <1>3, <3>2 DEF PeerReads, PollWrites, HandTypes, Settings
    <3>4. RestoresBank(s)'
      BY <1>1, <2>1, <2>2, <3>1, <3>2, <3>3 DEF RestoresBank
    <3> QED
      BY <1>1, <2>4, <3>4 DEF StageIsRight
  <2>5. CASE at[s] = "restoreSigners"
    <3>1. RestoresSigners(s)
      BY <2>5 DEF StageIsRight
    <3>2. \A k \in Signers : PutsBack(k)' = PutsBack(k) /\ PutsBack(k).step = "set"
      BY <1>1 DEF PutsBack, SetOf, SetSigner, Call
    <3>3. \A k \in Signers : PutsBack(k) \in work[s] => PutsBack(k) \in work'[s]
      BY <2>1, <2>2, <3>2
    <3>4. \A d \in work'[s] : /\ d.to = "signers"
                              /\ d.step = "set" => \E k \in Signers : d = PutsBack(k)
      BY <2>2, <3>1 DEF RestoresSigners
    <3>5. RestoresSigners(s)'
      BY <1>1, <2>1, <3>1, <3>2, <3>3, <3>4 DEF RestoresSigners
    <3> QED
      BY <1>1, <2>5, <3>5 DEF StageIsRight
  <2>6. CASE at[s] = "refreshLast"
    BY <1>1, <2>1, <2>2, <2>6 DEF StageIsRight
  <2>7. CASE at[s] \in {"apply", "idle", "done"}
    BY <1>1, <2>7 DEF StageIsRight
  <2> QED
    BY <2>3, <2>4, <2>5, <2>6, <2>7 DEF Stages
<1> QED
  BY <1>2, <1>3
-----------------------------------------------------------------------------
(* What scenarios await *)

LEMMA PreconditionsAre ==
    ASSUME NEW k \in AllKinds
    PROVE  Preconditions(k) \in Seq(SUBSET SetCalls) /\ Preconditions(k) # <<>>
<1> DEFINE AllOn == {SetSigner(i, "on") : i \in Signers}
           Others == [i \in Signers |-> {SetOf(i, i = 1)}]
<1>1. AllOn \in SUBSET SetCalls
  <2>1. \A i \in Signers : SetSigner(i, "on") = SetOf(i, TRUE)
    BY DEF SetOf
  <2> QED
    BY <2>1, SetCallsAre
<1>2. Others \in Seq(SUBSET SetCalls)
  <2>1. \A i \in Signers : {SetOf(i, i = 1)} \in SUBSET SetCalls
    <3> SUFFICES ASSUME NEW i \in Signers PROVE SetOf(i, i = 1) \in SetCalls
      BY Zenon
    <3>1. (i = 1) \in BOOLEAN
      OBVIOUS
    <3> QED
      BY <3>1, SetCallsAre, Zenon
  <2>2. Others \in [1 .. N -> SUBSET SetCalls]
    BY <2>1, Zenon DEF Signers
  <2> QED
    BY <2>2, SeqDef
<1>3. \A m \in Modes : {SetBank(m)} \in SUBSET SetCalls
  BY SetCallsAre
<1>4. {"CONFIRM", "OMIT_SIGNATURE", "DECLINE"} \subseteq Modes
  BY DEF Modes
<1> HIDE DEF AllOn, Others
<1>5. ASSUME NEW B \in SUBSET SetCalls
      PROVE  /\ <<B>> \in Seq(SUBSET SetCalls) /\ <<B>> # <<>>
             /\ <<B, AllOn>> \in Seq(SUBSET SetCalls) /\ <<B, AllOn>> # <<>>
             /\ <<B>> \o Others \in Seq(SUBSET SetCalls) /\ <<B>> \o Others # <<>>
  <2>1. <<B>> \in Seq(SUBSET SetCalls) /\ <<B, AllOn>> \in Seq(SUBSET SetCalls)
    BY <1>1
  <2>2. /\ <<B>> \o Others \in Seq(SUBSET SetCalls)
        /\ Len(<<B>> \o Others) = 1 + Len(Others) /\ Len(Others) \in Nat
    BY <1>2, <2>1, ConcatProperties, LenProperties
  <2>3. <<B>> \o Others # <<>>
    BY <2>2
  <2> QED
    BY <2>1, <2>2, <2>3
<1> QED
  BY <1>3, <1>4, <1>5 DEF Preconditions, AllKinds, AllOn, Others

LEMMA BatchesAre ==
    ASSUME NEW todo \in Seq(SUBSET SetCalls), todo # <<>>
    PROVE  /\ Head(todo) \subseteq SetCalls /\ Tail(todo) \in Seq(SUBSET SetCalls)
           /\ \A c : (\E j \in 1 .. Len(todo) : c \in todo[j]) <=>
                     (c \in Head(todo) \/ \E j \in 1 .. Len(Tail(todo)) : c \in Tail(todo)[j])
<1>1. Len(todo) \in Nat \ {0}
  BY EmptySeq, LenProperties
<1>2. /\ Head(todo) \in SUBSET SetCalls /\ Head(todo) = todo[1]
      /\ Tail(todo) \in Seq(SUBSET SetCalls) /\ Len(Tail(todo)) = Len(todo) - 1
      /\ \A j \in 1 .. Len(Tail(todo)) : Tail(todo)[j] = todo[j + 1]
  BY HeadTailProperties
<1>3. \A j \in 1 .. Len(todo) : j = 1 \/ j - 1 \in 1 .. Len(Tail(todo))
  BY <1>1, <1>2
<1>4. \A j \in 1 .. Len(Tail(todo)) : j + 1 \in 1 .. Len(todo)
  BY <1>1, <1>2
<1>5. \A j \in 1 .. Len(todo) : j = 1 \/ todo[j] = Tail(todo)[j - 1]
  BY <1>1, <1>2, <1>3
<1>6. 1 \in 1 .. Len(todo)
  BY <1>1
<1> QED
  BY <1>2, <1>3, <1>4, <1>5, <1>6

\* The script of restoreControls has a call for each member that differs.
LEMMA RestoreScriptIs ==
    ASSUME NEW have, NEW want
    PROVE  /\ RestoreScript(have, want) \in Seq(SUBSET SetCalls)
           /\ \A j \in 1 .. Len(RestoreScript(have, want)) :
                \A c \in RestoreScript(have, want)[j] : \E i \in Signers : c = SetOf(i, i \in want)
           /\ \A i \in Signers :
                \/ (i \in have) = (i \in want)
                \/ \E j \in 1 .. Len(RestoreScript(have, want)) :
                      SetOf(i, i \in want) \in RestoreScript(have, want)[j]
<1> DEFINE differ == {i \in Signers : (i \in have) # (i \in want)}
           Place(i) == Cardinality({k \in differ : k <= i})
           Batch(j) == {SetOf(i, i \in want) : i \in {k \in differ : Place(k) = j}}
           n == Cardinality(differ)
<1>1. IsFiniteSet(Signers)
  BY FS_Interval DEF Signers
<1>2. IsFiniteSet(differ) /\ n \in Nat
  BY <1>1, FS_Subset, FS_CardinalityType
<1>3. ASSUME NEW i \in differ PROVE Place(i) \in 1 .. n
  <2>1. {k \in differ : k <= i} \subseteq differ /\ i \in {k \in differ : k <= i}
    BY DEF Signers
  <2>2. IsFiniteSet({k \in differ : k <= i}) /\ Place(i) \in Nat /\ Place(i) <= n
    BY <1>2, <2>1, FS_Subset, FS_CardinalityType
  <2>3. Place(i) # 0
    BY <2>1, <2>2, FS_EmptySet
  <2> QED
    BY <1>2, <2>2, <2>3
<1>4. \A j : Batch(j) \in SUBSET SetCalls
  <2>1. \A i \in Signers : SetOf(i, i \in want) \in SetCalls
    <3> SUFFICES ASSUME NEW i \in Signers PROVE SetOf(i, i \in want) \in SetCalls
      OBVIOUS
    <3>1. (i \in want) \in BOOLEAN
      OBVIOUS
    <3> QED
      BY <3>1, SetCallsAre, Zenon
  <2> QED
    BY <2>1
<1> DEFINE todo == RestoreScript(have, want)
<1>5. todo = [j \in 1 .. n |-> Batch(j)]
  BY DEF RestoreScript
<1>6. \A j, c : c \in Batch(j) => \E i \in Signers : c = SetOf(i, i \in want)
  OBVIOUS
<1>7. \A i \in differ : SetOf(i, i \in want) \in Batch(Place(i))
  OBVIOUS
<1> HIDE DEF todo, differ, Place, Batch, n
<1>8. todo \in [1 .. n -> SUBSET SetCalls]
  BY <1>4, <1>5
<1>9. todo \in Seq(SUBSET SetCalls) /\ Len(todo) = n
  BY <1>2, <1>8, SeqDef, LenProperties
<1>10. \A i \in Signers : (i \in have) = (i \in want) \/ i \in differ
  BY DEF differ
<1>11. \A j \in 1 .. Len(todo) : todo[j] = Batch(j)
  BY <1>5, <1>9
<1>12. \A i \in differ : SetOf(i, i \in want) \in todo[Place(i)]
  BY <1>3, <1>7, <1>9, <1>11
<1>13. \A i \in Signers :
          \/ (i \in have) = (i \in want)
          \/ \E j \in 1 .. Len(todo) : SetOf(i, i \in want) \in todo[j]
  BY <1>3, <1>9, <1>10, <1>12
<1> QED
  BY <1>6, <1>9, <1>11, <1>13 DEF todo
-----------------------------------------------------------------------------
(* The steps of the one active scenario *)

LEMMA AwaitIs ==
    ASSUME HandInv, DemoInv, NEW s \in Scenarios, NEW stage \in Stages, NEW todo,
           \A c \in Head(todo) : IsCall(c), Tail(todo) \in Seq(SUBSET SetCalls),
           Await(s, stage, todo)
    PROVE  /\ at'[s] = stage /\ \A t \in Scenarios \ {s} : at'[t] = at[t]
           /\ work' = [o \in Owners |-> work'[o]]
           /\ work'[s] = Head(todo) /\ \A o \in Owners \ {s} : work'[o] = work[o]
           /\ \A o \in Owners : \A c \in work'[o] : IsCall(c)
           /\ script'[s] = Tail(todo) /\ script' \in [Scenarios -> Seq(SUBSET SetCalls)]
<1>1. /\ work' = [o \in Owners |-> work'[o]]
      /\ work'[s] = Head(todo) /\ \A o \in Owners \ {s} : work'[o] = work[o]
  BY ScenariosAreOwners DEF Await, HandInv, HandTypes
<1>2. \A o \in Owners : \A c \in work'[o] : IsCall(c)
  BY <1>1 DEF HandInv, HandTypes
<1>3. script'[s] = Tail(todo) /\ script' \in [Scenarios -> Seq(SUBSET SetCalls)]
  BY DEF Await, HandInv, HandTypes
<1>4. at'[s] = stage /\ \A t \in Scenarios \ {s} : at'[t] = at[t]
  BY DEF Await, DemoInv, TypesInv
<1> QED
  BY <1>1, <1>2, <1>3, <1>4

LEMMA AwaitPolls ==
    ASSUME HandInv, DemoInv, NEW s \in Scenarios, NEW stage \in Stages,
           Await(s, stage, <<PollAll>>)
    PROVE  /\ at'[s] = stage /\ \A t \in Scenarios \ {s} : at'[t] = at[t]
           /\ work' = [o \in Owners |-> work'[o]]
           /\ work'[s] = PollAll /\ \A o \in Owners \ {s} : work'[o] = work[o]
           /\ \A o \in Owners : \A c \in work'[o] : IsCall(c)
           /\ script' \in [Scenarios -> Seq(SUBSET SetCalls)]
           /\ \A c \in work'[s] : c.step # "set"
           /\ Refreshing(s)'
<1>1. Head(<<PollAll>>) = PollAll /\ Tail(<<PollAll>>) = <<>>
  OBVIOUS
<1>2. <<>> \in Seq(SUBSET SetCalls) /\ \A c \in Head(<<PollAll>>) : IsCall(c)
  BY <1>1, PollAllIs
<1>3. work'[s] = PollAll
  BY <1>1, <1>2, AwaitIs
<1>4. \A c \in work'[s] : c.step = "read"
  BY <1>3, PollAllIs
<1>5. (\E c \in work'[s] : c.to = "bank") /\ (\E c \in work'[s] : c.to = "signers")
  BY <1>3, PollAllIs, Zenon
<1>6. Refreshing(s)'
  BY <1>4, <1>5 DEF Refreshing, Truthful
<1> QED
  BY <1>1, <1>2, <1>3, <1>4, <1>6, AwaitIs

\* While one is active, it is alone.
LEMMA NoOthers ==
    ASSUME HandInv, NEW s \in Scenarios, s \in Active
    PROVE  work["presenter"] = {} /\ \A t \in Active : t = s
BY DEF HandInv, OneActor

LEMMA CallsKeepHand ==
    ASSUME HandInv, DemoInv, DemoInv', Reliable, NEW o \in Owners, CallStep(o), ~overtaken'
    PROVE  HandInv'
<1>1. CASE o = "presenter"
  BY <1>1, PresenterCalls
<1>2. CASE o = "health"
  BY <1>2, HealthCalls
<1>3. CASE o \in Scenarios
  <2>1. PICK c \in work[o] : PeerSets(o, c) \/ PeerReads(o, c) \/ PollWrites(o, c)
    BY DEF CallStep
  <2>2. o \in Active /\ work["presenter"] = {} /\ \A t \in Active : t = o
    BY <1>3, <2>1, NoOthers DEF HandInv, OneActor
  <2>3. /\ HandTypes' /\ at' = at /\ \A p \in Owners \ {o} : work'[p] = work[p]
    BY <2>1, NextOfCall DEF HandInv
  <2>4. StageIsRight(o)'
    BY <1>3, <2>1, CallOfScenario DEF HandInv, DemoInv, TypesInv
  <2>5. at'[o] \notin {"idle", "done"}
    BY <2>2, <2>3 DEF Active
  <2>6. Truthful("health")'
    BY <1>3, <2>1, ScenariosAreOwners, HealthStaysTruthful DEF HandInv
  <2> QED
    BY <1>3, <2>2, <2>3, <2>4, <2>5, <2>6, Alone
<1> QED
  BY <1>1, <1>2, <1>3 DEF Owners

LEMMA DialKeepsHand ==
    ASSUME HandInv, DemoInv, Patient, NEW c \in SetCalls, Dial(c)
    PROVE  HandInv'
<1>1. Active = {} /\ Active' = {} /\ UNCHANGED <<real, dialled, cache, at, kind, script, target>>
  BY DEF Dial, Undisturbed, switches, runVars, Active
<1>2. /\ work' = [o \in Owners |-> work'[o]] /\ work'["presenter"] = {c}
      /\ \A o \in Owners \ {"presenter"} : work'[o] = work[o]
  BY ScenariosAreOwners DEF Dial, HandInv, HandTypes
<1>3. \A o \in Owners : \A d \in work'[o] : IsCall(d)
  <2>1. IsCall(c) /\ \A o \in Owners : \A d \in work[o] : IsCall(d)
    BY SetCallsAre DEF HandInv, HandTypes
  <2> QED
    BY <1>2, <2>1
<1>4. HandTypes'
  BY <1>1, <1>2, <1>3 DEF HandInv, HandTypes
<1>5. OneActor'
  BY <1>1, <1>2, ScenariosAreOwners DEF HandInv, OneActor
<1>6. \A s \in Scenarios : StageIsRight(s)'
  <2> SUFFICES ASSUME NEW s \in Scenarios PROVE StageIsRight(s)'
    OBVIOUS
  <2>1. at'[s] \in {"idle", "done"}
    BY <1>1 DEF Active
  <2> QED
    BY <2>1 DEF StageIsRight
<1>7. Truthful("health")'
  BY <1>1, <1>2, ScenariosAreOwners DEF HandInv, Truthful
<1> QED
  BY <1>1, <1>4, <1>5, <1>6, <1>7 DEF HandInv

LEMMA StartKeepsHand ==
    ASSUME HandInv, DemoInv, Patient, NEW s \in Scenarios, NEW k \in Kinds, Start(s, k)
    PROVE  HandInv'
<1>1. /\ Active = {} /\ work["presenter"] = {} /\ real = dialled
      /\ UNCHANGED <<real, dialled, cache, target>>
  BY DEF Start, Undisturbed, switches, HandInv
<1>2. /\ at'[s] = "refresh" /\ \A t \in Scenarios \ {s} : at'[t] = at[t]
      /\ work' = [o \in Owners |-> work'[o]]
      /\ \A o \in Owners \ {s} : work'[o] = work[o]
      /\ \A o \in Owners : \A c \in work'[o] : IsCall(c)
      /\ script' \in [Scenarios -> Seq(SUBSET SetCalls)]
      /\ Refreshing(s)'
  <2>1. "refresh" \in Stages /\ Await(s, "refresh", <<PollAll>>)
    BY DEF Stages, Start
  <2> QED
    BY <2>1, AwaitPolls
<1>3. kind' \in [Scenarios -> AllKinds]
  BY DEF Start, HandInv, HandTypes
<1>4. HandTypes'
  BY <1>1, <1>2, <1>3 DEF HandInv, HandTypes
<1>5. StageIsRight(s)'
  BY <1>1, <1>2 DEF StageIsRight
<1> QED
  BY <1>1, <1>2, <1>4, <1>5, Alone

\* A completed refresh: the cache is what the peers have.
LEMMA CacheIsReal ==
    ASSUME HandTypes, NEW s \in Scenarios, Refreshing(s), work[s] = {}
    PROVE  cache = real
<1>1. cache.mode = real.mode /\ cache.on = real.on
  BY DEF Refreshing
<1>2. cache \in Settings /\ real \in Settings
  BY DEF HandTypes
<1> QED
  BY <1>1, <1>2 DEF Settings

LEMMA CaptureKeepsHand ==
    ASSUME HandInv, DemoInv, NEW s \in Scenarios, Capture(s)
    PROVE  HandInv'
<1>1. at[s] = "refresh" /\ work[s] = {} /\ s \in Active
  BY DEF Capture, Ready, Active
<1>2. work["presenter"] = {} /\ \A t \in Active : t = s
  BY <1>1, NoOthers
<1>3. cache = dialled
  BY <1>1, CacheIsReal DEF HandInv, StageIsRight
<1>4. inFlight = 0
  <2>1. Counting = {}
    BY <1>1, <1>2 DEF Counting, Active
  <2> QED
    BY <2>1, FS_EmptySet DEF DemoInv, BaselineHeld, Counting
<1>5. UNCHANGED <<real, dialled, cache, kind, target>> /\ baseline' = dialled
  BY <1>3, <1>4 DEF Capture, switches
<1>6. /\ at'[s] = "apply" /\ \A t \in Scenarios \ {s} : at'[t] = at[t]
      /\ work' = [o \in Owners |-> work'[o]]
      /\ \A o \in Owners \ {s} : work'[o] = work[o]
      /\ \A o \in Owners : \A c \in work'[o] : IsCall(c)
      /\ script' \in [Scenarios -> Seq(SUBSET SetCalls)]
  <2> DEFINE todo == Preconditions(kind[s])
  <2>1. "apply" \in Stages /\ Await(s, "apply", todo)
    BY DEF Stages, Capture
  <2>2. todo \in Seq(SUBSET SetCalls) /\ todo # <<>>
    BY PreconditionsAre DEF HandInv, HandTypes
  <2> HIDE DEF todo
  <2>3. (\A c \in Head(todo) : IsCall(c)) /\ Tail(todo) \in Seq(SUBSET SetCalls)
    BY <2>2, BatchesAre, SetCallsAre
  <2> QED
    BY <2>1, <2>3, AwaitIs
<1>7. HandTypes'
  BY <1>5, <1>6 DEF HandInv, HandTypes
<1>8. StageIsRight(s)'
  BY <1>5, <1>6 DEF StageIsRight
<1> QED
  BY <1>2, <1>5, <1>6, <1>7, <1>8, Alone

LEMMA ApplyKeepsHand ==
    ASSUME HandInv, DemoInv, NEW s \in Scenarios, Apply(s)
    PROVE  HandInv'
<1>1. /\ at[s] = "apply" /\ s \in Active /\ baseline = dialled
      /\ UNCHANGED <<real, dialled, cache, kind, target, baseline>>
  BY DEF Apply, Ready, Active, shared, HandInv, StageIsRight
<1>2. work["presenter"] = {} /\ \A t \in Active : t = s
  BY <1>1, NoOthers
<1>3. CASE script[s] # <<>> /\ Await(s, "apply", script[s])
  <2>1. "apply" \in Stages /\ script[s] \in Seq(SUBSET SetCalls)
    BY DEF Stages, HandInv, HandTypes
  <2>2. (\A c \in Head(script[s]) : IsCall(c)) /\ Tail(script[s]) \in Seq(SUBSET SetCalls)
    BY <1>3, <2>1, BatchesAre, SetCallsAre
  <2>3. /\ at'[s] = "apply" /\ \A t \in Scenarios \ {s} : at'[t] = at[t]
        /\ work' = [o \in Owners |-> work'[o]]
        /\ \A o \in Owners \ {s} : work'[o] = work[o]
        /\ \A o \in Owners : \A c \in work'[o] : IsCall(c)
        /\ script' \in [Scenarios -> Seq(SUBSET SetCalls)]
    BY <1>3, <2>1, <2>2, AwaitIs
  <2>4. HandTypes'
    BY <1>1, <2>3 DEF HandInv, HandTypes
  <2>5. StageIsRight(s)'
    BY <1>1, <2>3 DEF StageIsRight
  <2> QED
    BY <1>1, <1>2, <2>3, <2>4, <2>5, Alone
<1>4. CASE Await(s, "check", <<PollAll>>)
  <2>1. /\ at'[s] = "check" /\ \A t \in Scenarios \ {s} : at'[t] = at[t]
        /\ work' = [o \in Owners |-> work'[o]]
        /\ \A o \in Owners \ {s} : work'[o] = work[o]
        /\ \A o \in Owners : \A c \in work'[o] : IsCall(c)
        /\ script' \in [Scenarios -> Seq(SUBSET SetCalls)]
        /\ Refreshing(s)'
    <3>1. "check" \in Stages
      BY DEF Stages
    <3> QED
      BY <1>4, <3>1, AwaitPolls
  <2>2. HandTypes'
    BY <1>1, <2>1 DEF HandInv, HandTypes
  <2>3. StageIsRight(s)'
    BY <1>1, <2>1 DEF StageIsRight
  <2> QED
    BY <1>1, <1>2, <2>1, <2>2, <2>3, Alone
<1> QED
  BY <1>3, <1>4 DEF Apply

\* With the bank as it was, restoreControls turns to the members.
LEMMA RestoreSignersKeepsHand ==
    ASSUME HandInv, DemoInv, NEW s \in Scenarios, s \in Active,
           UNCHANGED <<real, dialled, cache, kind>>,
           target' = [t \in Scenarios |-> target'[t]],
           real.mode = dialled.mode, cache.on = real.on,
           RestoreSigners(s, dialled)
    PROVE  HandInv'
<1> DEFINE todo == RestoreScript(cache.on, dialled.on)
<1>1. /\ todo \in Seq(SUBSET SetCalls)
      /\ \A j \in 1 .. Len(todo) : \A c \in todo[j] : \E i \in Signers : c = PutsBack(i)
      /\ \A i \in Signers :
            \/ (i \in real.on) = (i \in dialled.on)
            \/ \E j \in 1 .. Len(todo) : PutsBack(i) \in todo[j]
  BY RestoreScriptIs DEF PutsBack
<1>2. /\ todo = <<>> => Await(s, "refreshLast", <<PollAll>>)
      /\ todo # <<>> => Await(s, "restoreSigners", todo)
  BY DEF RestoreSigners
<1> HIDE DEF todo
<1>3. work["presenter"] = {} /\ \A t \in Active : t = s
  BY NoOthers
<1>4. {"refreshLast", "restoreSigners"} \subseteq Stages
  BY DEF Stages
<1>5. CASE todo = <<>>
  <2>1. \A i \in Signers : (i \in real.on) = (i \in dialled.on)
    BY <1>1, <1>5
  <2>2. real = dialled
    <3>1. real \in Settings /\ dialled \in Settings
      BY DEF HandInv, HandTypes
    <3>2. real.on = dialled.on
      BY <2>1, <3>1 DEF Settings
    <3> QED
      BY <3>1, <3>2 DEF Settings
  <2>3. /\ at'[s] = "refreshLast" /\ \A t \in Scenarios \ {s} : at'[t] = at[t]
        /\ work' = [o \in Owners |-> work'[o]]
        /\ \A o \in Owners \ {s} : work'[o] = work[o]
        /\ \A o \in Owners : \A c \in work'[o] : IsCall(c)
        /\ script' \in [Scenarios -> Seq(SUBSET SetCalls)]
        /\ \A c \in work'[s] : c.step # "set"
    BY <1>2, <1>4, <1>5, AwaitPolls
  <2>4. HandTypes'
    BY <2>3 DEF HandInv, HandTypes
  <2>5. StageIsRight(s)'
    BY <2>2, <2>3 DEF StageIsRight
  <2> QED
    BY <1>3, <2>3, <2>4, <2>5, Alone
<1>6. CASE todo # <<>>
  <2>1. /\ Head(todo) \subseteq SetCalls /\ Tail(todo) \in Seq(SUBSET SetCalls)
        /\ \A c : (\E j \in 1 .. Len(todo) : c \in todo[j]) <=>
                  (c \in Head(todo) \/ \E j \in 1 .. Len(Tail(todo)) : c \in Tail(todo)[j])
    BY <1>1, <1>6, BatchesAre
  <2>2. /\ at'[s] = "restoreSigners" /\ \A t \in Scenarios \ {s} : at'[t] = at[t]
        /\ work' = [o \in Owners |-> work'[o]]
        /\ work'[s] = Head(todo) /\ \A o \in Owners \ {s} : work'[o] = work[o]
        /\ \A o \in Owners : \A c \in work'[o] : IsCall(c)
        /\ script'[s] = Tail(todo) /\ script' \in [Scenarios -> Seq(SUBSET SetCalls)]
    <3>1. \A c \in Head(todo) : IsCall(c)
      BY <2>1, SetCallsAre
    <3> QED
      BY <1>2, <1>4, <1>6, <2>1, <3>1, AwaitIs
  <2>3. HandTypes'
    BY <2>2 DEF HandInv, HandTypes
  <2>4. \A i \in Signers : PutsBack(i)' = PutsBack(i) /\ PutsBack(i).to = "signers"
    BY DEF PutsBack, SetOf, SetSigner, Call
  <2>5. RestoresSigners(s)'
    <3>1. \A c \in Head(todo) : \E i \in Signers : c = PutsBack(i)
      BY <1>1, <2>1
    <3>2. \A j \in 1 .. Len(Tail(todo)) : \A c \in Tail(todo)[j] : \E i \in Signers : c = PutsBack(i)
      BY <1>1, <2>1
    <3>3. \A i \in Signers :
            \/ (i \in real.on) = (i \in dialled.on)
            \/ PutsBack(i) \in Head(todo)
            \/ \E j \in 1 .. Len(Tail(todo)) : PutsBack(i) \in Tail(todo)[j]
      BY <1>1, <2>1
    <3> QED
      BY <2>2, <2>4, <3>1, <3>2, <3>3 DEF RestoresSigners
  <2>6. StageIsRight(s)'
    BY <2>2, <2>5 DEF StageIsRight
  <2> QED
    BY <1>3, <2>2, <2>3, <2>6, Alone
<1> QED
  BY <1>5, <1>6

\* The scenario is the last of its chain: it takes the baseline and restores it.
LEMMA SettleKeepsHand ==
    ASSUME HandInv, DemoInv, NEW s \in Scenarios, at[s] \in {"check", "running"},
           work[s] = {}, Settle(s), UNCHANGED <<real, dialled, cache, kind>>
    PROVE  HandInv'
<1>1. s \in Active /\ cache = real /\ baseline = dialled
  <2>1. Refreshing(s) /\ baseline = dialled /\ HandTypes
    BY DEF HandInv, StageIsRight
  <2> QED
    BY <2>1, CacheIsReal DEF Active
<1>2. work["presenter"] = {} /\ \A t \in Active : t = s
  BY <1>1, NoOthers
<1>3. inFlight = 1
  <2>1. Counting = {s}
    BY <1>2 DEF Counting, Active
  <2> QED
    BY <2>1, FS_Singleton DEF DemoInv, BaselineHeld, Counting
<1>4. baseline # NoSettings
  BY <1>3 DEF DemoInv, BaselineHeld
<1>5. /\ target' = [target EXCEPT ![s] = dialled]
      /\ IF cache.mode # dialled.mode
         THEN Await(s, "restoreBank", <<{SetBank(dialled.mode)}>>)
         ELSE RestoreSigners(s, dialled)
  BY <1>1, <1>3, <1>4 DEF Settle
<1>6. target' = [t \in Scenarios |-> target'[t]] /\ target'[s] = dialled
  BY <1>5 DEF HandInv, HandTypes
<1>7. CASE cache.mode = dialled.mode
  BY <1>1, <1>5, <1>6, <1>7, RestoreSignersKeepsHand
<1>8. CASE cache.mode # dialled.mode
  <2> DEFINE call == SetBank(dialled.mode)
  <2>1. call \in SetCalls /\ IsCall(call)
    BY SetCallsAre DEF HandInv, HandTypes, Settings
  <2>2. call.to = "bank" /\ call.value = dialled.mode /\ call.step = "set"
    BY DEF SetBank, Call
  <2>3. Await(s, "restoreBank", <<{call}>>) /\ "restoreBank" \in Stages
    BY <1>5, <1>8 DEF Stages
  <2> HIDE DEF call
  <2>4. Head(<<{call}>>) = {call} /\ Tail(<<{call}>>) = <<>>
    OBVIOUS
  <2>5. /\ at'[s] = "restoreBank" /\ \A t \in Scenarios \ {s} : at'[t] = at[t]
        /\ work' = [o \in Owners |-> work'[o]]
        /\ work'[s] = {call} /\ \A o \in Owners \ {s} : work'[o] = work[o]
        /\ \A o \in Owners : \A c \in work'[o] : IsCall(c)
        /\ script' \in [Scenarios -> Seq(SUBSET SetCalls)]
    <3>1. (\A c \in Head(<<{call}>>) : IsCall(c)) /\ Tail(<<{call}>>) \in Seq(SUBSET SetCalls)
      BY <2>1, <2>4
    <3> QED
      BY <2>3, <2>4, <3>1, AwaitIs
  <2>6. HandTypes'
    BY <1>6, <2>5 DEF HandInv, HandTypes
  <2>7. RestoresBank(s)'
    BY <1>1, <1>6, <2>2, <2>5 DEF RestoresBank
  <2>8. StageIsRight(s)'
    BY <2>5, <2>7 DEF StageIsRight
  <2> QED
    BY <1>1, <1>2, <2>5, <2>6, <2>8, Alone
<1> QED
  BY <1>7, <1>8

LEMMA LaunchKeepsHand ==
    ASSUME HandInv, DemoInv, NEW s \in Scenarios, Launch(s)
    PROVE  HandInv'
<1>1. at[s] = "check" /\ work[s] = {} /\ UNCHANGED <<real, dialled, cache, kind>>
  BY DEF Launch, Ready
<1>2. CASE Settle(s)
  BY <1>1, <1>2, SettleKeepsHand
<1>3. CASE at' = [at EXCEPT ![s] = "running"] /\ UNCHANGED <<shared, target, work, script>>
  <2>1. at'[s] = "running" /\ \A t \in Scenarios \ {s} : at'[t] = at[t]
    BY <1>3 DEF DemoInv, TypesInv
  <2>2. HandTypes'
    BY <1>1, <1>3 DEF HandInv, HandTypes
  <2>3. Refreshing(s) /\ baseline = dialled
    BY <1>1 DEF HandInv, StageIsRight
  <2>4. Refreshing(s)' /\ baseline' = dialled'
    BY <1>1, <1>3, <2>3 DEF Refreshing, Truthful, shared
  <2>5. StageIsRight(s)'
    BY <2>1, <2>4 DEF StageIsRight
  <2>6. s \in Active
    BY <1>1 DEF Active
  <2>7. work["presenter"] = {} /\ \A t \in Active : t = s
    BY <2>6, NoOthers
  <2>8. \A o \in Owners \ {s} : work'[o] = work[o]
    BY <1>3
  <2> QED
    BY <1>1, <2>1, <2>2, <2>5, <2>7, <2>8, Alone
<1> QED
  BY <1>2, <1>3 DEF Launch

LEMMA RequestEndsKeepsHand ==
    ASSUME HandInv, DemoInv, NEW s \in Scenarios, RequestEnds(s)
    PROVE  HandInv'
BY SettleKeepsHand DEF RequestEnds, Ready

LEMMA RestoreKeepsHand ==
    ASSUME HandInv, DemoInv, NEW s \in Scenarios, Restore(s)
    PROVE  HandInv'
<1>1. /\ at[s] \in {"restoreBank", "restoreSigners"} /\ work[s] = {} /\ s \in Active
      /\ UNCHANGED <<real, dialled, cache, kind, target>>
  BY DEF Restore, Ready, Active, switches
<1>2. work["presenter"] = {} /\ \A t \in Active : t = s
  BY <1>1, NoOthers
<1>3. CASE at[s] = "restoreBank"
  <2>1. RestoresBank(s)
    BY <1>3 DEF HandInv, StageIsRight
  <2>2. real.mode = dialled.mode /\ cache.on = real.on /\ target[s] = dialled
    BY <1>1, <2>1 DEF RestoresBank
  <2>3. RestoreSigners(s, dialled)
    BY <1>3, <2>2 DEF Restore, Ready
  <2>4. target' = [t \in Scenarios |-> target'[t]]
    BY <1>1 DEF HandInv, HandTypes
  <2> QED
    BY <1>1, <2>2, <2>3, <2>4, RestoreSignersKeepsHand
<1>4. CASE at[s] = "restoreSigners" /\ script[s] # <<>>
  <2>1. RestoresSigners(s) /\ script[s] \in Seq(SUBSET SetCalls)
    BY <1>4 DEF HandInv, HandTypes, StageIsRight
  <2>2. Await(s, "restoreSigners", script[s]) /\ "restoreSigners" \in Stages
    BY <1>4 DEF Restore, Ready, Stages
  <2>3. /\ Head(script[s]) \subseteq SetCalls /\ Tail(script[s]) \in Seq(SUBSET SetCalls)
        /\ \A c : (\E j \in 1 .. Len(script[s]) : c \in script[s][j]) <=>
                  (\/ c \in Head(script[s])
                   \/ \E j \in 1 .. Len(Tail(script[s])) : c \in Tail(script[s])[j])
    BY <1>4, <2>1, BatchesAre
  <2>4. /\ at'[s] = "restoreSigners" /\ \A t \in Scenarios \ {s} : at'[t] = at[t]
        /\ work' = [o \in Owners |-> work'[o]]
        /\ work'[s] = Head(script[s]) /\ \A o \in Owners \ {s} : work'[o] = work[o]
        /\ \A o \in Owners : \A c \in work'[o] : IsCall(c)
        /\ script'[s] = Tail(script[s]) /\ script' \in [Scenarios -> Seq(SUBSET SetCalls)]
    <3>1. \A c \in Head(script[s]) : IsCall(c)
      BY <2>3, SetCallsAre
    <3> QED
      BY <2>2, <2>3, <3>1, AwaitIs
  <2>5. HandTypes'
    BY <1>1, <2>4 DEF HandInv, HandTypes
  <2>6. \A i \in Signers : PutsBack(i)' = PutsBack(i) /\ PutsBack(i).to = "signers"
    BY <1>1 DEF PutsBack, SetOf, SetSigner, Call
  <2>7. RestoresSigners(s)'
    <3>1. \A c \in Head(script[s]) : \E i \in Signers : c = PutsBack(i)
      BY <2>1, <2>3 DEF RestoresSigners
    <3>2. \A j \in 1 .. Len(Tail(script[s])) : \A c \in Tail(script[s])[j] :
            \E i \in Signers : c = PutsBack(i)
      BY <2>1, <2>3 DEF RestoresSigners
    <3>3. \A i \in Signers :
            \/ (i \in real.on) = (i \in dialled.on)
            \/ PutsBack(i) \in Head(script[s])
            \/ \E j \in 1 .. Len(Tail(script[s])) : PutsBack(i) \in Tail(script[s])[j]
      BY <1>1, <2>1, <2>3 DEF RestoresSigners
    <3>4. real.mode = dialled.mode
      BY <2>1 DEF RestoresSigners
    <3> QED
      BY <1>1, <2>4, <2>6, <3>1, <3>2, <3>3, <3>4 DEF RestoresSigners
  <2>8. StageIsRight(s)'
    BY <2>4, <2>7 DEF StageIsRight
  <2> QED
    BY <1>1, <1>2, <2>4, <2>5, <2>8, Alone
<1>5. CASE at[s] = "restoreSigners" /\ script[s] = <<>>
  <2>1. RestoresSigners(s)
    BY <1>5 DEF HandInv, StageIsRight
  <2>2. real = dialled
    <3>1. real \in Settings /\ dialled \in Settings
      BY DEF HandInv, HandTypes
    <3>2. \A i \in Signers : (i \in real.on) = (i \in dialled.on)
      BY <1>1, <1>5, <2>1 DEF RestoresSigners
    <3>3. real.mode = dialled.mode
      BY <2>1 DEF RestoresSigners
    <3>4. real.on = dialled.on
      BY <3>1, <3>2 DEF Settings
    <3> QED
      BY <3>1, <3>3, <3>4 DEF Settings
  <2>3. Await(s, "refreshLast", <<PollAll>>) /\ "refreshLast" \in Stages
    BY <1>5 DEF Restore, Ready, Stages
  <2>4. /\ at'[s] = "refreshLast" /\ \A t \in Scenarios \ {s} : at'[t] = at[t]
        /\ work' = [o \in Owners |-> work'[o]]
        /\ \A o \in Owners \ {s} : work'[o] = work[o]
        /\ \A o \in Owners : \A c \in work'[o] : IsCall(c)
        /\ script' \in [Scenarios -> Seq(SUBSET SetCalls)]
        /\ \A c \in work'[s] : c.step # "set"
    BY <2>3, AwaitPolls
  <2>5. HandTypes'
    BY <1>1, <2>4 DEF HandInv, HandTypes
  <2>6. StageIsRight(s)'
    BY <1>1, <2>2, <2>4 DEF StageIsRight
  <2> QED
    BY <1>1, <1>2, <2>4, <2>5, <2>6, Alone
<1> QED
  BY <1>1, <1>3, <1>4, <1>5

LEMMA FinishKeepsHand ==
    ASSUME HandInv, DemoInv, NEW s \in Scenarios, Finish(s)
    PROVE  HandInv'
<1>1. /\ at[s] = "refreshLast" /\ work[s] = {} /\ s \in Active
      /\ UNCHANGED <<real, dialled, cache, kind, work, script>>
  BY DEF Finish, Ready, Active, switches
<1>2. work["presenter"] = {} /\ \A t \in Active : t = s
  BY <1>1, NoOthers
<1>3. real = dialled
  BY <1>1 DEF HandInv, StageIsRight
<1>4. at'[s] = "done" /\ \A t \in Scenarios \ {s} : at'[t] = at[t]
  BY DEF Finish, DemoInv, TypesInv
<1>5. target' = [t \in Scenarios |-> target'[t]]
  BY DEF Finish, HandInv, HandTypes
<1>6. HandTypes'
  BY <1>1, <1>5 DEF HandInv, HandTypes
<1>7. StageIsRight(s)'
  BY <1>4 DEF StageIsRight
<1> QED
  BY <1>1, <1>2, <1>3, <1>4, <1>6, <1>7, Alone
-----------------------------------------------------------------------------
\* An overtaken poll is not forgotten.
LEMMA OvertakenStays ==
    ASSUME [Next]_vars, overtaken
    PROVE  overtaken'
<1>1. CASE PresenterStep \/ HealthPoll \/ \E o \in Owners : CallStep(o)
  BY <1>1 DEF PresenterStep, HealthPoll, Start, Dial, CallStep, PeerSets, PeerReads, PollWrites,
     switches
<1>2. ASSUME NEW s \in Scenarios, Continue(s) PROVE overtaken'
  BY <1>2 DEF Continue, Capture, Apply, Launch, RequestEnds, Restore, Finish, switches
<1>3. CASE UNCHANGED vars
  BY <1>3 DEF vars, switches
<1> QED
  BY <1>1, <1>2, <1>3 DEF Next

LEMMA HandNext ==
    ASSUME Patient, Reliable
    PROVE  (overtaken \/ HandInv) /\ DemoInv /\ DemoInv' /\ [Next]_vars =>
               (overtaken \/ HandInv)'
<1> SUFFICES ASSUME HandInv, DemoInv, DemoInv', ~overtaken', [Next]_vars PROVE HandInv'
  BY OvertakenStays
<1>1. CASE PresenterStep
  <2>1. ASSUME NEW s \in Scenarios, NEW k \in Kinds, Start(s, k) PROVE HandInv'
    BY <2>1, StartKeepsHand
  <2>2. ASSUME NEW m \in Modes, Dial(SetBank(m)) PROVE HandInv'
    BY <2>2, DialKeepsHand, SetCallsAre
  <2>3. ASSUME NEW i \in Signers, NEW b \in BOOLEAN, Dial(SetOf(i, b)) PROVE HandInv'
    BY <2>3, DialKeepsHand, SetCallsAre
  <2> QED
    BY <1>1, <2>1, <2>2, <2>3 DEF PresenterStep
<1>2. CASE HealthPoll
  BY <1>2, HealthPollKeepsHand
<1>3. CASE \E o \in Owners : CallStep(o)
  BY <1>3, CallsKeepHand
<1>4. CASE \E s \in Scenarios : Continue(s)
  BY <1>4, CaptureKeepsHand, ApplyKeepsHand, LaunchKeepsHand, RequestEndsKeepsHand,
     RestoreKeepsHand, FinishKeepsHand DEF Continue
<1>5. CASE UNCHANGED vars
  <2>1. HandTypes' /\ OneActor' /\ (Active' = {} => real' = dialled')
    BY <1>5 DEF vars, switches, runVars, HandInv, HandTypes, OneActor, Active
  <2>2. Truthful("health")' /\ \A s \in Scenarios : StageIsRight(s)'
    BY <1>5 DEF vars, switches, runVars, shared, HandInv, StageIsRight, Refreshing, Truthful,
       RestoresBank, RestoresSigners, PutsBack
  <2> QED
    BY <2>1, <2>2 DEF HandInv
<1> QED
  BY <1>1, <1>2, <1>3, <1>4, <1>5 DEF Next

\* restoreControls: when nothing is going on, bank and members are set as the
\* presenter dialled them, whatever kinds of scenario ran in between, one after
\* the other, with the periodic poll beside them; if no call failed and no answer
\* of that poll was written after a switch had made it out of date.
THEOREM HandSettingsAreRestored ==
    ASSUME Patient, Reliable
    PROVE  Spec => []HandSettingsSurvive
<1>1. overtaken \/ HandInv => HandSettingsSurvive
  BY DEF HandInv, HandSettingsSurvive
<1>2. (overtaken \/ HandInv) /\ DemoInv /\ DemoInv' /\ [Next]_vars => (overtaken \/ HandInv)'
  BY HandNext
<1> QED
  BY <1>1, <1>2, HandInit, DemoCorrect, PTL DEF Spec
=============================================================================
