------------------------------ MODULE Gateway ------------------------------
(***************************************************************************)
(* The coordinator as its clients see it: POST /api/requests with the rate *)
(* limiter, GET /api/state, the capped lists of coordinator/store.ts and   *)
(* the WebSocket hub of coordinator/index.ts.  What a pipeline run does is *)
(* TwoWalls's subject: here a request is PENDING until it ends.            *)
(*                                                                         *)
(* Every broadcast goes to the connection, if the hub has one; the hub     *)
(* greets a new connection with the whole snapshot.  Requests and alerts   *)
(* travel one at a time; the other parts of the snapshot are sent whole,   *)
(* so that the latest replaces the one before, and are left out here.      *)
(***************************************************************************)
EXTENDS Naturals, FiniteSets, SequencesExt

CONSTANTS
    Requests,      \* requestIds submitted, all of one merchant
    RequestCap,    \* REQUEST_CAP, 200 in the code
    AlertCap,      \* ALERT_CAP, 100 in the code
    RateWindow,    \* RATE_WINDOW_MS, in ticks
    RateMax,       \* RATE_MAX_PER_WINDOW, 20 in the code
    MaxTime,       \* bound: clock ticks
    MaxAlerts      \* bound: alerts raised

ASSUME GatewayAssumption ==
    /\ {RequestCap, AlertCap, RateWindow, RateMax} \subseteq Nat \ {0}
    /\ {MaxTime, MaxAlerts} \subseteq Nat

VARIABLES
    now,           \* Date.now()
    merchantHits,  \* submissions whose hits the limiter still remembers
    accepted,      \* when each accepted submission was accepted
    records,       \* the record of each request, also after its eviction
    requestOrder,  \* requests in the store, newest first
    strays,        \* requests evicted before they had ended
    alerts,        \* ids of the alerts in the store, newest first
    raised,        \* number of alerts raised so far
    connected,     \* the hub has the dashboard's connection
    frames         \* WebSocket frames under way to the dashboard

storeVars == <<records, requestOrder, strays, alerts, raised>>
limitVars == <<now, merchantHits, accepted>>
serverVars == <<storeVars, limitVars, connected, frames>>

Statuses == {"none", "PENDING", "ENDED"}
AlertIds == 1 .. MaxAlerts

\* Every other alert is of severity info; the others are warnings.
IsWarning(a) == a % 2 = 1

Take(list, n) == SubSeq(list, 1, IF Len(list) < n THEN Len(list) ELSE n)

\* buildSnapshot
Snapshot ==
    [requests |-> [i \in DOMAIN requestOrder |->
                      [id |-> requestOrder[i], status |-> records[requestOrder[i]]]],
     alerts |-> alerts]

TypeOKServer ==
    /\ now \in 0 .. MaxTime
    /\ merchantHits \subseteq Requests
    /\ accepted \in [Requests -> {-1} \cup 0 .. MaxTime]
    /\ records \in [Requests -> Statuses]
    /\ requestOrder \in Seq(Requests) /\ Len(requestOrder) <= RequestCap
    /\ strays \subseteq Requests
    /\ alerts \in Seq(AlertIds) /\ Len(alerts) <= AlertCap
    /\ raised \in 0 .. MaxAlerts
    /\ connected \in BOOLEAN
    /\ connected \/ frames = <<>>

InitServer ==
    /\ now = 0 /\ merchantHits = {} /\ accepted = [r \in Requests |-> -1]
    /\ records = [r \in Requests |-> "none"] /\ requestOrder = <<>> /\ strays = {}
    /\ alerts = <<>> /\ raised = 0
    /\ connected = FALSE /\ frames = <<>>

Broadcast(event) == frames' = IF connected THEN Append(frames, event) ELSE frames

Updated(r, status) == [type |-> "request.updated", id |-> r, status |-> status]
-----------------------------------------------------------------------------
(* POST /api/requests *)

\* Mutant of HitsInWindow: the window is one tick too short.
HitsTooFew == {r \in merchantHits : accepted[r] + RateWindow > now + 1}

\* t > now - RATE_WINDOW_MS, where t is the moment a submission was accepted.
HitsInWindow == {r \in merchantHits : accepted[r] + RateWindow > now}

\* rateLimitOk refuses: the pruned list is kept, and the hit is not.
Throttled(r) ==
    /\ records[r] = "none"
    /\ Cardinality(HitsInWindow) >= RateMax
    /\ merchantHits' = HitsInWindow
    /\ UNCHANGED <<now, accepted, storeVars, connected, frames>>

\* createRecord: prepended, and the oldest evicted, ended or not.
Submit(r) ==
    LET order == <<r>> \o requestOrder
        evicted == {order[i] : i \in RequestCap + 1 .. Len(order)}
    IN /\ records[r] = "none"
       /\ Cardinality(HitsInWindow) < RateMax
       /\ merchantHits' = HitsInWindow \cup {r}
       /\ accepted' = [accepted EXCEPT ![r] = now]
       /\ records' = [records EXCEPT ![r] = "PENDING"]
       /\ requestOrder' = Take(order, RequestCap)
       /\ strays' = strays \cup {s \in evicted : records[s] = "PENDING"}
       /\ Broadcast(Updated(r, "PENDING"))
       /\ UNCHANGED <<now, alerts, raised, connected>>

\* transition, made by the run of the request on the record it holds.
Settle(r) ==
    /\ records[r] = "PENDING"
    /\ records' = [records EXCEPT ![r] = "ENDED"]
    /\ Broadcast(Updated(r, "ENDED"))
    /\ UNCHANGED <<limitVars, requestOrder, strays, alerts, raised, connected>>

AddAlert ==
    /\ raised < MaxAlerts
    /\ raised' = raised + 1
    /\ alerts' = Take(<<raised'>> \o alerts, AlertCap)
    /\ Broadcast([type |-> "alert", id |-> raised'])
    /\ UNCHANGED <<limitVars, records, requestOrder, strays, connected>>

Tick ==
    /\ now < MaxTime
    /\ now' = now + 1
    /\ UNCHANGED <<merchantHits, accepted, storeVars, connected, frames>>

ServerStep ==
    \/ \E r \in Requests : Submit(r) \/ Throttled(r) \/ Settle(r)
    \/ AddAlert \/ Tick
-----------------------------------------------------------------------------
\* The submissions accepted in the window that starts at moment t.
Within(t) == {r \in Requests : accepted[r] \in t .. t + RateWindow - 1}

\* In no RATE_WINDOW_MS, whichever moment it starts at, are more than
\* RATE_MAX_PER_WINDOW submissions of a merchant accepted.
RateBound == \A t \in 0 .. MaxTime : Cardinality(Within(t)) <= RateMax
=============================================================================
