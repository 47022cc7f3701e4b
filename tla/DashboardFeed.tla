--------------------------- MODULE DashboardFeed ---------------------------
(***************************************************************************)
(* The dashboard's live store, src/dashboard/src/store.ts: one WebSocket   *)
(* with reconnects, polls of GET /api/state while it is down, and the      *)
(* reducer that merges both into one view.                                 *)
(*                                                                         *)
(* A poll awaits twice: first the head of the answer, then its body.  The  *)
(* check that the socket is closed lies in between.                        *)
(***************************************************************************)
EXTENDS Gateway

CONSTANTS
    ToastsPerSync, \* fresh alerts shown as toasts by one snapshot, 3 in the code
    MaxPolls,      \* bound: polls made, the first at the start
    MaxDrops       \* bound: connections lost or refused, polls failed

ASSUME FeedAssumption ==
    ToastsPerSync \in Nat /\ MaxPolls \in Nat \ {0} /\ MaxDrops \in Nat

VARIABLES
    ws,            \* the socket; "closed" until the hub accepts a (re)connect
    greeted,       \* the hello of the open socket has been handled
    late,          \* a poll was between its two awaits when the socket opened
    polling,       \* the 2 s poll timer is set
    polls,         \* polls under way, in the order they were made
    polled,        \* number of polls made
    drops,         \* number of connections and polls that failed
    view,          \* the snapshot shown, NoView before the first
    conn,          \* the connection indicator
    toasted,       \* alerts that were shown as a toast
    firstSeen      \* number of alerts raised before the first snapshot shown

viewVars == <<view, conn, toasted, firstSeen>>
feedVars == <<ws, greeted, late, polling, polls, polled, drops, viewVars>>
vars == <<serverVars, feedVars>>

NoView == [none |-> TRUE]
wsOpen == ws = "open"

TypeOK ==
    /\ TypeOKServer
    /\ ws \in {"closed", "accepted", "open"}
    /\ {greeted, late, polling} \subseteq BOOLEAN
    /\ \A i \in DOMAIN polls : polls[i].stage \in {"answered", "reading"}
    /\ polled \in 0 .. MaxPolls /\ drops \in 0 .. MaxDrops
    /\ conn \in {"connecting", "live", "polling", "offline"}
    /\ toasted \subseteq AlertIds /\ firstSeen \in 0 .. MaxAlerts
    /\ view = NoView \/ /\ Len(view.requests) <= RequestCap
                        /\ Len(view.alerts) <= AlertCap

Drop == drops < MaxDrops /\ drops' = drops + 1
-----------------------------------------------------------------------------
(* The reducer *)

\* Mutant of UpsertRequest: the list grows without a cap.
UpsertUncapped(list, r, status) ==
    IF \E i \in DOMAIN list : list[i].id = r
    THEN [i \in DOMAIN list |-> IF list[i].id = r THEN [id |-> r, status |-> status] ELSE list[i]]
    ELSE <<[id |-> r, status |-> status]>> \o list

\* upsertRequest: replaced in place, or prepended and capped.
UpsertRequest(list, r, status) ==
    LET entry == [id |-> r, status |-> status] IN
    IF \E i \in DOMAIN list : list[i].id = r
    THEN [i \in DOMAIN list |-> IF list[i].id = r THEN entry ELSE list[i]]
    ELSE Take(<<entry>> \o list, RequestCap)

\* The incremental events; hello replaces the view.  An alert is in a list once,
\* so to take its first occurrence out is to filter it out.
Reduce(shown, event) ==
    CASE event.type = "hello" -> event.state
      [] event.type = "request.updated" ->
             [shown EXCEPT !.requests = UpsertRequest(@, event.id, event.status)]
      [] event.type = "alert" ->
             [shown EXCEPT !.alerts =
                 Take(<<event.id>> \o RemoveFirst(@, event.id), AlertCap)]

\* The newest warnings that the old view did not have, at most ToastsPerSync.
Fresh(snapshot) ==
    LET fresh == {a \in ToSet(snapshot.alerts) : IsWarning(a) /\ ~Contains(view.alerts, a)}
    IN {a \in fresh : Cardinality({b \in fresh : b > a}) < ToastsPerSync}

\* Mutant of ApplySnapshot: a resync shows no toasts.
ApplySilently(snapshot) ==
    /\ view' = snapshot
    /\ firstSeen' = IF view = NoView THEN raised ELSE firstSeen
    /\ UNCHANGED toasted

ApplySnapshot(snapshot) ==
    /\ view' = snapshot
    /\ firstSeen' = IF view = NoView THEN raised ELSE firstSeen
    /\ toasted' = IF view = NoView THEN toasted ELSE toasted \cup Fresh(snapshot)
-----------------------------------------------------------------------------
(* Polling *)

\* GET /api/state reaches the coordinator at once; the answer takes its time.
Answer == [stage |-> "answered", state |-> Snapshot]

\* startPolling is idempotent, and polls at once when the timer was not set.
StartPolling ==
    /\ polling' = TRUE
    /\ IF polling \/ polled = MaxPolls
       THEN UNCHANGED <<polls, polled>>
       ELSE polls' = Append(polls, Answer) /\ polled' = polled + 1

\* The timer fires, whether or not the poll before has been answered.
PollTimer ==
    /\ polling /\ polled < MaxPolls
    /\ polls' = Append(polls, Answer) /\ polled' = polled + 1
    /\ UNCHANGED <<serverVars, ws, greeted, late, polling, drops, viewVars>>

\* Mutant of MayApply: the answer is used whatever the socket does.
AlwaysApply == TRUE

\* The check between the two awaits.
MayApply == ~wsOpen

PollDropped(i) ==
    /\ polls[i].stage = "answered" /\ ~MayApply
    /\ polls' = RemoveAt(polls, i)
    /\ UNCHANGED <<serverVars, ws, greeted, late, polling, polled, drops, viewVars>>

PollHead(i) ==
    /\ polls[i].stage = "answered" /\ MayApply
    /\ polls' = [polls EXCEPT ![i].stage = "reading"]
    /\ UNCHANGED <<serverVars, ws, greeted, late, polling, polled, drops, viewVars>>

PollBody(i) ==
    /\ polls[i].stage = "reading"
    /\ ApplySnapshot(polls[i].state)
    /\ conn' = "polling"
    /\ polls' = RemoveAt(polls, i)
    /\ UNCHANGED <<serverVars, ws, greeted, late, polling, polled, drops>>

\* fetch or res.json throws, or the answer is not ok.
PollFails(i) ==
    /\ Drop
    /\ polls' = RemoveAt(polls, i)
    /\ conn' = IF wsOpen THEN conn ELSE "offline"
    /\ UNCHANGED <<serverVars, ws, greeted, late, polling, polled, view, toasted, firstSeen>>
-----------------------------------------------------------------------------
(* The socket *)

\* connect, from the first effect or from the reconnect timer, and
\* wss.on('connection'): hello is the first frame.
Connect ==
    /\ ws = "closed"
    /\ ws' = "accepted"
    /\ connected' = TRUE
    /\ frames' = <<[type |-> "hello", state |-> Snapshot]>>
    /\ UNCHANGED <<storeVars, limitVars, greeted, late, polling, polls, polled, drops, viewVars>>

OnOpen ==
    /\ ws = "accepted"
    /\ ws' = "open" /\ greeted' = FALSE
    /\ late' = \E i \in DOMAIN polls : polls[i].stage = "reading"
    /\ polling' = FALSE
    /\ conn' = "live"
    /\ UNCHANGED <<serverVars, polls, polled, drops, view, toasted, firstSeen>>

OnMessage ==
    /\ wsOpen /\ frames # <<>>
    /\ frames' = Tail(frames)
    /\ LET event == Head(frames) IN
       /\ greeted' = (greeted \/ event.type = "hello")
       /\ IF event.type = "hello"
          THEN ApplySnapshot(event.state)
          ELSE IF view = NoView THEN UNCHANGED <<view, toasted, firstSeen>>
               ELSE /\ view' = Reduce(view, event)
                    /\ toasted' = IF event.type = "alert" THEN toasted \cup {event.id}
                                  ELSE toasted
                    /\ UNCHANGED firstSeen
    /\ UNCHANGED <<storeVars, limitVars, connected, ws, late, polling, polls, polled, drops, conn>>

\* The connection is lost or refused: what was under way is gone, polling
\* starts again and a reconnect is scheduled.
OnClose ==
    /\ Drop
    /\ ws' = "closed" /\ greeted' = FALSE
    /\ connected' = FALSE /\ frames' = <<>>
    /\ conn' = "connecting"
    /\ StartPolling
    /\ UNCHANGED <<storeVars, limitVars, late, view, toasted, firstSeen>>
-----------------------------------------------------------------------------
\* The effect starts polling and connects.
Init ==
    /\ InitServer
    /\ ws = "closed" /\ greeted = FALSE /\ late = FALSE
    /\ polling = TRUE /\ polls = <<Answer>> /\ polled = 1
    /\ drops = 0
    /\ view = NoView /\ conn = "connecting" /\ toasted = {} /\ firstSeen = 0

PollStep ==
    \E i \in DOMAIN polls : \/ PollDropped(i) \/ PollHead(i) \/ PollBody(i) \/ PollFails(i)

SocketStep == Connect \/ OnOpen \/ OnMessage

Next == (ServerStep /\ UNCHANGED feedVars) \/ PollTimer \/ PollStep \/ SocketStep \/ OnClose

Spec == Init /\ [][Next]_vars

\* Reconnect timers fire, connections are made or refused, frames and answers
\* arrive.  Requests, alerts and time may stop at any moment.
FairSpec == Spec /\ WF_vars(SocketStep) /\ WF_vars(PollStep)
-----------------------------------------------------------------------------
\* Replay[i]: what is shown once the first i frames under way have arrived.
Replay[i \in 0 .. Len(frames)] ==
    IF i = 0 THEN view ELSE Reduce(Replay[i - 1], frames[i])

\* What is shown, plus the frames under way, is what the coordinator has.  A
\* record evicted in flight spoils it: its events put it back into the view.
ViewIsCurrent ==
    wsOpen /\ greeted /\ strays = {} => Replay[Len(frames)] = Snapshot

\* With the socket open, no poll clobbers what came over it, if none was between
\* its two awaits when the socket opened.
LiveViewCurrent == ~late => ViewIsCurrent

\* store.ts:42: no warning goes unnoticed because it came while the socket was
\* down, as long as no more of them are raised than one resync shows.
FewWarnings == Cardinality({a \in 1 .. raised : IsWarning(a)}) <= ToastsPerSync

WarningsNoticed ==
    FewWarnings /\ view # NoView => \A a \in ToSet(view.alerts) :
        IsWarning(a) /\ a > firstSeen => a \in toasted

\* Once connections stop failing, the dashboard ends up live and, when nothing
\* changes any more, shows what the coordinator has; unless a late poll got in.
CatchesUp == <>[](late \/ (conn = "live" /\ (strays = {} => view = Snapshot)))
=============================================================================
