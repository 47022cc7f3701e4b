------------------------ MODULE DashboardFeedProofs ------------------------
(***************************************************************************)
(* Theorems about the coordinator's clients, for every set of requests,    *)
(* every size of the lists and every value of the bounds.                  *)
(***************************************************************************)
EXTENDS DashboardFeed, FiniteSetTheorems, SequenceTheorems, WellFoundedInduction, TLAPS

USE GatewayAssumption, FeedAssumption

-----------------------------------------------------------------------------
(* The rate limiter: it remembers every accepted submission that the window *)
(* of this moment, or of a later one, still holds.                          *)

RateInv ==
    /\ now \in Nat /\ IsFiniteSet(merchantHits)
    /\ accepted \in [Requests -> {-1} \cup Nat] /\ records \in [Requests -> Statuses]
    /\ \A r \in Requests :
        /\ accepted[r] <= now
        /\ records[r] = "none" => accepted[r] = -1
        /\ accepted[r] # -1 /\ accepted[r] + RateWindow > now => r \in merchantHits
    /\ RateBound

LEMMA RateInit == Init => RateInv
<1> SUFFICES ASSUME Init PROVE RateInv
  OBVIOUS
<1>1. \A t \in 0 .. MaxTime : Within(t) = {}
  BY DEF Init, InitServer, Within
<1>2. RateBound
  BY <1>1, FS_EmptySet DEF RateBound
<1> QED
  BY <1>2, FS_EmptySet DEF Init, InitServer, RateInv, Statuses

LEMMA OneMore ==
    ASSUME NEW S, NEW x, NEW n \in Nat, IsFiniteSet(S), Cardinality(S) < n
    PROVE  Cardinality(S \cup {x}) <= n
<1>1. Cardinality(S) \in Nat
  BY FS_CardinalityType
<1>2. Cardinality(S \cup {x}) = IF x \in S THEN Cardinality(S) ELSE Cardinality(S) + 1
  BY FS_AddElement
<1> QED
  BY <1>1, <1>2

LEMMA RateSubmit ==
    ASSUME RateInv, NEW r \in Requests, Submit(r)
    PROVE  RateInv'
<1>1. IsFiniteSet(HitsInWindow) /\ Cardinality(HitsInWindow) \in Nat
  BY FS_Subset, FS_CardinalityType DEF RateInv, HitsInWindow
<1>2. IsFiniteSet(merchantHits')
  BY <1>1, FS_AddElement DEF Submit
<1>3. now' = now /\ accepted' = [accepted EXCEPT ![r] = now] /\ records[r] = "none"
        /\ records' = [records EXCEPT ![r] = "PENDING"] /\ merchantHits' = HitsInWindow \cup {r}
  BY DEF Submit
<1>4. accepted[r] = -1
  BY <1>3 DEF RateInv
<1>5. \A s \in Requests :
        /\ accepted'[s] <= now'
        /\ records'[s] = "none" => accepted'[s] = -1
        /\ accepted'[s] # -1 /\ accepted'[s] + RateWindow > now' => s \in merchantHits'
  BY <1>3 DEF RateInv, HitsInWindow
<1>6. ASSUME NEW t \in 0 .. MaxTime
      PROVE  Cardinality(Within(t)') <= RateMax
  <2>1. CASE now \in t .. t + RateWindow - 1
    <3>1. Within(t) \subseteq HitsInWindow
      BY <2>1 DEF Within, HitsInWindow, RateInv
    <3>2. IsFiniteSet(Within(t)) /\ Cardinality(Within(t)) < RateMax
            /\ Cardinality(Within(t)) \in Nat
      BY <1>1, <3>1, FS_Subset, FS_CardinalityType DEF Submit
    <3>3. Within(t)' = Within(t) \cup {r}
      BY <1>3, <2>1 DEF Within, RateInv
    <3> QED
      BY <3>2, <3>3, OneMore
  <2>2. CASE now \notin t .. t + RateWindow - 1
    <3>1. Within(t)' = Within(t)
      BY <1>3, <1>4, <2>2 DEF Within, RateInv
    <3> QED
      BY <3>1 DEF RateInv, RateBound
  <2> QED
    BY <2>1, <2>2
<1>7. RateBound'
  BY <1>6 DEF RateBound
<1> QED
  BY <1>2, <1>3, <1>5, <1>7 DEF RateInv, Statuses

LEMMA RateNext == RateInv /\ [Next]_vars => RateInv'
<1> SUFFICES ASSUME RateInv, [Next]_vars PROVE RateInv'
  OBVIOUS
<1>1. ASSUME NEW r \in Requests, Submit(r)
      PROVE  RateInv'
  BY <1>1, RateSubmit
<1>2. ASSUME NEW r \in Requests, Throttled(r)
      PROVE  RateInv'
  <2>1. IsFiniteSet(HitsInWindow)
    BY FS_Subset DEF RateInv, HitsInWindow
  <2> QED
    BY <1>2, <2>1 DEF Throttled, storeVars, RateInv, RateBound, Within, HitsInWindow
<1>3. ASSUME NEW r \in Requests, Settle(r)
      PROVE  RateInv'
  BY <1>3 DEF Settle, limitVars, RateInv, RateBound, Within, Statuses
<1>4. CASE AddAlert
  BY <1>4 DEF AddAlert, limitVars, RateInv, RateBound, Within
<1>5. CASE Tick
  BY <1>5 DEF Tick, storeVars, RateInv, RateBound, Within
<1>6. CASE UNCHANGED <<storeVars, limitVars>>
  BY <1>6 DEF storeVars, limitVars, RateInv, RateBound, Within
<1>7. CASE PollTimer \/ PollStep \/ SocketStep \/ OnClose \/ UNCHANGED vars
  BY <1>6, <1>7 DEF PollTimer, PollStep, PollDropped, PollHead, PollBody, PollFails,
     SocketStep, Connect, OnOpen, OnMessage, OnClose, serverVars, vars
<1> QED
  BY <1>1, <1>2, <1>3, <1>4, <1>5, <1>7 DEF Next, ServerStep

\* coordinator/index.ts: rateLimitOk.  Whichever moment a window starts at, no
\* more than RATE_MAX_PER_WINDOW submissions of a merchant are accepted in it.
THEOREM RateIsBounded == Spec => []RateBound
<1>1. RateInv => RateBound
  BY DEF RateInv
<1> QED
  BY <1>1, RateInit, RateNext, PTL DEF Spec
-----------------------------------------------------------------------------
(* The lists. *)

LEMMA TakeOf ==
    ASSUME NEW S, NEW list \in Seq(S), NEW n \in Nat
    PROVE  /\ Take(list, n) \in Seq(S)
           /\ Len(Take(list, n)) = IF Len(list) < n THEN Len(list) ELSE n
           /\ \A i \in 1 .. Len(Take(list, n)) : Take(list, n)[i] = list[i]
<1> DEFINE m == IF Len(list) < n THEN Len(list) ELSE n
<1>1. m \in Nat /\ m <= Len(list) /\ Len(list) \in Nat
  BY LenProperties
<1>2. \A i \in 1 .. m : list[i] \in S
  BY <1>1, ElementOfSeq
<1>3. Take(list, n) = SubSeq(list, 1, m)
  BY DEF Take
<1> HIDE DEF m
<1>4. /\ SubSeq(list, 1, m) \in Seq(S)
      /\ Len(SubSeq(list, 1, m)) = IF 1 <= m THEN m - 1 + 1 ELSE 0
      /\ \A i \in 1 .. m - 1 + 1 : SubSeq(list, 1, m)[i] = list[1 + i - 1]
  BY <1>1, <1>2, SubSeqProperties
<1>5. Len(Take(list, n)) = m
  BY <1>1, <1>3, <1>4
<1>6. ASSUME NEW i \in 1 .. m
      PROVE  Take(list, n)[i] = list[i]
  <2>1. i \in 1 .. m - 1 + 1 /\ 1 + i - 1 = i
    BY <1>1
  <2> QED
    BY <1>3, <1>4, <2>1
<1> QED
  BY <1>3, <1>4, <1>5, <1>6 DEF m

\* What createRecord and addAlert do to their list.
Prepended(S, e, list, n) ==
    LET whole == <<e>> \o list
        new == Take(whole, n)
    IN /\ whole \in Seq(S) /\ Len(whole) = Len(list) + 1
       /\ \A i \in 1 .. Len(list) + 1 : whole[i] = IF i = 1 THEN e ELSE list[i - 1]
       /\ new \in Seq(S)
       /\ Len(new) = IF Len(list) + 1 < n THEN Len(list) + 1 ELSE n
       /\ \A i \in 1 .. Len(new) : new[i] = IF i = 1 THEN e ELSE list[i - 1]

LEMMA PrependOf ==
    ASSUME NEW S, NEW list \in Seq(S), NEW e \in S, NEW n \in Nat \ {0}
    PROVE  Prepended(S, e, list, n)
<1>1. <<e>> \in Seq(S) /\ Len(<<e>>) = 1 /\ <<e>>[1] = e
  OBVIOUS
<1>2. Len(list) \in Nat
  BY LenProperties
<1> DEFINE whole == <<e>> \o list
<1>3. /\ whole \in Seq(S) /\ Len(whole) = 1 + Len(list)
      /\ \A i \in 1 .. 1 + Len(list) :
            whole[i] = IF i <= 1 THEN <<e>>[i] ELSE list[i - 1]
  BY <1>1, ConcatProperties
<1>4. \A i \in 1 .. Len(list) + 1 : whole[i] = IF i = 1 THEN e ELSE list[i - 1]
  BY <1>1, <1>2, <1>3
<1>5. Len(whole) = Len(list) + 1
  BY <1>2, <1>3
<1> HIDE DEF whole
<1>6. /\ Take(whole, n) \in Seq(S)
      /\ Len(Take(whole, n)) = IF Len(whole) < n THEN Len(whole) ELSE n
      /\ \A i \in 1 .. Len(Take(whole, n)) : Take(whole, n)[i] = whole[i]
  BY <1>3, TakeOf
<1>7. \A i \in 1 .. Len(Take(whole, n)) : Take(whole, n)[i] = IF i = 1 THEN e ELSE list[i - 1]
  BY <1>2, <1>4, <1>5, <1>6
<1> QED
  BY <1>3, <1>4, <1>5, <1>6, <1>7 DEF whole, Prepended

LEMMA FirstIndex ==
    ASSUME NEW I \in SUBSET Nat, I # {}
    PROVE  Min(I) \in I
<1>1. PICK x \in I : \A y \in I : ~ (<<y, x>> \in OpToRel(<, Nat))
  BY NatLessThanWellFounded, WFMin, Zenon
<1>2. \A y \in I : ~ (y < x)
  BY <1>1 DEF OpToRel
<1>3. \A y \in I : x <= y
  <2>1. I \subseteq Nat
    OBVIOUS
  <2> QED
    BY <1>2, <2>1
<1> QED
  BY <1>3, Zenon DEF Min

LEMMA RemoveAtOf ==
    ASSUME NEW S, NEW list \in Seq(S), NEW k \in 1 .. Len(list)
    PROVE  /\ RemoveAt(list, k) \in Seq(S)
           /\ Len(RemoveAt(list, k)) = Len(list) - 1
           /\ \A i \in 1 .. Len(RemoveAt(list, k)) :
                 \E j \in 1 .. Len(list) : RemoveAt(list, k)[i] = list[j]
<1>1. Len(list) \in Nat /\ \A i \in 1 .. Len(list) : list[i] \in S
  BY LenProperties, ElementOfSeq
<1> DEFINE before == SubSeq(list, 1, k - 1)
           after == SubSeq(list, k + 1, Len(list))
<1>2. \A i \in 1 .. k - 1 : list[i] \in S
  BY <1>1
<1>3. /\ before \in Seq(S) /\ Len(before) = (IF 1 <= k - 1 THEN k - 1 - 1 + 1 ELSE 0)
      /\ \A i \in 1 .. k - 1 - 1 + 1 : before[i] = list[1 + i - 1]
  BY <1>1, <1>2, SubSeqProperties
<1>4. \A i \in k + 1 .. Len(list) : list[i] \in S
  BY <1>1
<1>5. /\ after \in Seq(S)
      /\ Len(after) = (IF k + 1 <= Len(list) THEN Len(list) - (k + 1) + 1 ELSE 0)
      /\ \A i \in 1 .. Len(list) - (k + 1) + 1 : after[i] = list[k + 1 + i - 1]
  BY <1>1, <1>4, SubSeqProperties
<1> HIDE DEF before, after
<1>6. Len(before) = k - 1 /\ \A i \in 1 .. k - 1 : before[i] = list[i]
  BY <1>1, <1>3
<1>7. Len(after) = Len(list) - k /\ \A i \in 1 .. Len(list) - k : after[i] = list[i + k]
  <2>1. Len(list) - (k + 1) + 1 = Len(list) - k /\ k \in Nat
    BY <1>1
  <2>2. \A i \in 1 .. Len(list) - k : k + 1 + i - 1 = i + k
    BY <1>1, <2>1
  <2>3. Len(after) = Len(list) - k
    <3>1. CASE k + 1 <= Len(list)
      BY <1>5, <2>1, <3>1
    <3>2. CASE ~(k + 1 <= Len(list))
      <4>1. k = Len(list)
        BY <1>1, <3>2
      <4> QED
        BY <1>5, <3>2, <4>1
    <3> QED
      BY <3>1, <3>2
  <2> QED
    BY <1>5, <2>1, <2>2, <2>3
<1>8. /\ before \o after \in Seq(S) /\ Len(before \o after) = Len(before) + Len(after)
      /\ \A i \in 1 .. Len(before) + Len(after) : (before \o after)[i] =
             IF i <= Len(before) THEN before[i] ELSE after[i - Len(before)]
  BY <1>3, <1>5, ConcatProperties
<1>9. RemoveAt(list, k) = before \o after
  BY DEF RemoveAt, before, after
<1>10. Len(before \o after) = Len(list) - 1
  BY <1>1, <1>6, <1>7, <1>8
<1>11. ASSUME NEW i \in 1 .. Len(list) - 1
       PROVE  \E j \in 1 .. Len(list) : (before \o after)[i] = list[j]
  <2>1. CASE i <= k - 1
    <3>1. (before \o after)[i] = list[i] /\ i \in 1 .. Len(list)
      BY <1>1, <1>6, <1>7, <1>8, <2>1
    <3> QED
      BY <3>1
  <2>2. CASE ~(i <= k - 1)
    <3>1. i - (k - 1) \in 1 .. Len(list) - k /\ i - (k - 1) + k = i + 1
      BY <1>1, <2>2
    <3>2. (before \o after)[i] = after[i - (k - 1)]
      <4>1. i \in 1 .. Len(before) + Len(after) /\ ~(i <= Len(before))
        <5>1. Len(before) = k - 1 /\ Len(after) = Len(list) - k
          BY <1>6, <1>7
        <5>2. Len(before) + Len(after) = Len(list) - 1
          BY <1>1, <5>1
        <5> QED
          BY <2>2, <5>1, <5>2
      <4>2. Len(before) = k - 1
        BY <1>6
      <4> QED
        BY <1>8, <4>1, <4>2
    <3>3. i + 1 \in 1 .. Len(list) /\ after[i - (k - 1)] = list[i + 1]
      BY <1>1, <1>7, <3>1
    <3> QED
      BY <3>2, <3>3
  <2> QED
    BY <2>1, <2>2
<1> QED
  BY <1>8, <1>9, <1>10, <1>11

LEMMA RemoveFirstOf ==
    ASSUME NEW S, NEW list \in Seq(S), NEW e
    PROVE  /\ RemoveFirst(list, e) \in Seq(S)
           /\ ToSet(RemoveFirst(list, e)) \subseteq ToSet(list)
           /\ ~Contains(list, e) => RemoveFirst(list, e) = list
<1>1. CASE ~ \E i \in 1 .. Len(list) : list[i] = e
  BY <1>1 DEF RemoveFirst, Contains
<1>2. CASE \E i \in 1 .. Len(list) : list[i] = e
  <2> DEFINE I == {i \in 1 .. Len(list) : list[i] = e}
             k == SelectInSeq(list, LAMBDA v : v = e)
  <2>1. I \in SUBSET Nat /\ I # {}
    BY <1>2, LenProperties
  <2>2. k = Min(I)
    BY <2>1 DEF SelectInSeq
  <2>3. k \in 1 .. Len(list)
    BY <2>1, <2>2, FirstIndex
  <2>4. RemoveFirst(list, e) = RemoveAt(list, k)
    BY <1>2 DEF RemoveFirst
  <2> HIDE DEF k
  <2>5. /\ RemoveAt(list, k) \in Seq(S)
        /\ \A i \in 1 .. Len(RemoveAt(list, k)) :
              \E j \in 1 .. Len(list) : RemoveAt(list, k)[i] = list[j]
    BY <2>3, RemoveAtOf
  <2>6. DOMAIN RemoveAt(list, k) = 1 .. Len(RemoveAt(list, k)) /\ DOMAIN list = 1 .. Len(list)
    BY <2>5, LenProperties
  <2> QED
    BY <1>2, <2>4, <2>5, <2>6 DEF ToSet, Contains
<1> QED
  BY <1>1, <1>2
-----------------------------------------------------------------------------
(* What travels, and what is shown. *)

Entries == [id : Requests, status : Statuses]

Views == {v \in [requests : Seq(Entries), alerts : Seq(AlertIds)] :
             Len(v.requests) <= RequestCap /\ Len(v.alerts) <= AlertCap}

Events ==
    [type : {"hello"}, state : Views]
        \cup [type : {"request.updated"}, id : Requests, status : Statuses]
        \cup [type : {"alert"}, id : AlertIds]

PollsUnderWay == [stage : {"answered", "reading"}, state : Views]

TypeInv ==
    /\ TypeOKServer
    /\ ws \in {"closed", "accepted", "open"}
    /\ {greeted, late, polling} \subseteq BOOLEAN
    /\ polled \in 0 .. MaxPolls /\ drops \in 0 .. MaxDrops
    /\ conn \in {"connecting", "live", "polling", "offline"}
    /\ toasted \subseteq AlertIds /\ firstSeen \in 0 .. MaxAlerts
    /\ frames \in Seq(Events)
    /\ polls \in Seq(PollsUnderWay)
    /\ view \in Views \cup {NoView}

LEMMA CapsPositive == RequestCap \in Nat \ {0} /\ AlertCap \in Nat \ {0}
OBVIOUS

LEMMA NoViewIsNone == NoView \notin Views
<1>1. DOMAIN NoView = {"none"}
  BY DEF NoView
<1>2. \A v \in Views : "alerts" \in DOMAIN v
  BY DEF Views
<1> QED
  BY <1>1, <1>2

LEMMA SnapshotType ==
    ASSUME TypeOKServer
    PROVE  Snapshot \in Views
<1> DEFINE shown == [i \in DOMAIN requestOrder |->
                        [id |-> requestOrder[i], status |-> records[requestOrder[i]]]]
<1>1. Len(requestOrder) \in Nat /\ DOMAIN requestOrder = 1 .. Len(requestOrder)
  BY LenProperties DEF TypeOKServer
<1>2. \A i \in DOMAIN requestOrder : requestOrder[i] \in Requests
  BY <1>1, ElementOfSeq DEF TypeOKServer
<1>3. shown \in [1 .. Len(requestOrder) -> Entries]
  BY <1>1, <1>2 DEF TypeOKServer, Entries
<1>4. shown \in Seq(Entries)
  BY <1>1, <1>3, SeqDef
<1>5. Len(shown) = Len(requestOrder)
  BY <1>1, <1>3
<1>6. Snapshot = [requests |-> shown, alerts |-> alerts]
  BY DEF Snapshot
<1> QED
  BY <1>4, <1>5, <1>6 DEF Views, TypeOKServer

LEMMA UpsertType ==
    ASSUME NEW list \in Seq(Entries), Len(list) <= RequestCap,
           NEW r \in Requests, NEW status \in Statuses
    PROVE  /\ UpsertRequest(list, r, status) \in Seq(Entries)
           /\ Len(UpsertRequest(list, r, status)) <= RequestCap
<1> DEFINE entry == [id |-> r, status |-> status]
<1>1. entry \in Entries
  BY DEF Entries
<1>2. Len(list) \in Nat /\ DOMAIN list = 1 .. Len(list) /\ \A i \in DOMAIN list : list[i] \in Entries
  BY LenProperties, ElementOfSeq
<1>3. CASE \E i \in DOMAIN list : list[i].id = r
  <2> DEFINE new == [i \in DOMAIN list |-> IF list[i].id = r THEN entry ELSE list[i]]
  <2>1. new \in [1 .. Len(list) -> Entries]
    BY <1>1, <1>2
  <2>2. new \in Seq(Entries) /\ Len(new) = Len(list)
    BY <1>2, <2>1, SeqDef
  <2>3. UpsertRequest(list, r, status) = new
    BY <1>3 DEF UpsertRequest
  <2> QED
    BY <2>2, <2>3
<1>4. CASE ~ \E i \in DOMAIN list : list[i].id = r
  <2>1. UpsertRequest(list, r, status) = Take(<<entry>> \o list, RequestCap)
    BY <1>4 DEF UpsertRequest
  <2> HIDE DEF entry
  <2>2. /\ Take(<<entry>> \o list, RequestCap) \in Seq(Entries)
        /\ Len(Take(<<entry>> \o list, RequestCap)) =
               IF Len(list) + 1 < RequestCap THEN Len(list) + 1 ELSE RequestCap
    <3>1. Prepended(Entries, entry, list, RequestCap)
      BY <1>1, CapsPositive, PrependOf, Zenon
    <3> QED
      BY <3>1 DEF Prepended
  <2> QED
    BY <1>2, <2>1, <2>2
<1> QED
  BY <1>3, <1>4

LEMMA AlertsType ==
    ASSUME NEW list \in Seq(AlertIds), NEW a \in AlertIds
    PROVE  LET new == Take(<<a>> \o RemoveFirst(list, a), AlertCap)
           IN  /\ new \in Seq(AlertIds) /\ Len(new) <= AlertCap
               /\ ToSet(new) \subseteq {a} \cup ToSet(list)
<1> DEFINE rest == RemoveFirst(list, a)
           new == Take(<<a>> \o rest, AlertCap)
<1>1. rest \in Seq(AlertIds) /\ ToSet(rest) \subseteq ToSet(list)
  BY RemoveFirstOf
<1>2. Len(rest) \in Nat /\ DOMAIN rest = 1 .. Len(rest)
  BY <1>1, LenProperties
<1> HIDE DEF rest
<1>3. /\ new \in Seq(AlertIds)
      /\ Len(new) = IF Len(rest) + 1 < AlertCap THEN Len(rest) + 1 ELSE AlertCap
      /\ \A i \in 1 .. Len(new) : new[i] = IF i = 1 THEN a ELSE rest[i - 1]
  <2>1. Prepended(AlertIds, a, rest, AlertCap)
    BY <1>1, CapsPositive, PrependOf, Zenon
  <2> QED
    BY <2>1 DEF Prepended
<1>4. Len(new) <= AlertCap
  BY <1>2, <1>3
<1>5. Len(new) \in Nat /\ DOMAIN new = 1 .. Len(new)
  BY <1>3, LenProperties
<1>6. Len(new) <= Len(rest) + 1
  BY <1>2, <1>3
<1> HIDE DEF new
<1>7. ASSUME NEW i \in DOMAIN new
      PROVE  new[i] \in {a} \cup ToSet(rest)
  <2>1. CASE i = 1
    BY <1>3, <1>5, <2>1
  <2>2. CASE i # 1
    <3>1. i - 1 \in DOMAIN rest
      BY <1>2, <1>5, <1>6, <2>2
    <3>2. new[i] = rest[i - 1]
      BY <1>3, <1>5, <2>2
    <3> QED
      BY <3>1, <3>2 DEF ToSet
  <2> QED
    BY <2>1, <2>2
<1>8. ToSet(new) \subseteq {a} \cup ToSet(list)
  BY <1>1, <1>7 DEF ToSet
<1> QED
  BY <1>3, <1>4, <1>8 DEF new, rest

\* An incremental event adds at most its own alert.
LEMMA ReduceType ==
    ASSUME NEW shown \in Views, NEW event \in Events
    PROVE  /\ Reduce(shown, event) \in Views
           /\ event.type = "request.updated" => Reduce(shown, event).alerts = shown.alerts
           /\ event.type = "alert" =>
                 ToSet(Reduce(shown, event).alerts) \subseteq {event.id} \cup ToSet(shown.alerts)
<1>1. /\ shown \in [requests : Seq(Entries), alerts : Seq(AlertIds)]
      /\ Len(shown.requests) <= RequestCap /\ Len(shown.alerts) <= AlertCap
  BY DEF Views
<1>2. CASE event \in [type : {"hello"}, state : Views]
  BY <1>2 DEF Reduce
<1>3. CASE event \in [type : {"request.updated"}, id : Requests, status : Statuses]
  <2> DEFINE new == UpsertRequest(shown.requests, event.id, event.status)
  <2>1. new \in Seq(Entries) /\ Len(new) <= RequestCap
    BY <1>1, <1>3, UpsertType
  <2>2. Reduce(shown, event) = [shown EXCEPT !.requests = new]
    BY <1>3 DEF Reduce
  <2> HIDE DEF new
  <2>3. Reduce(shown, event) = [requests |-> new, alerts |-> shown.alerts]
    BY <1>1, <2>2
  <2> QED
    BY <1>1, <1>3, <2>1, <2>3 DEF Views
<1>4. CASE event \in [type : {"alert"}, id : AlertIds]
  <2> DEFINE new == Take(<<event.id>> \o RemoveFirst(shown.alerts, event.id), AlertCap)
  <2>1. /\ new \in Seq(AlertIds) /\ Len(new) <= AlertCap
        /\ ToSet(new) \subseteq {event.id} \cup ToSet(shown.alerts)
    BY <1>1, <1>4, AlertsType
  <2>2. Reduce(shown, event) = [shown EXCEPT !.alerts = new]
    BY <1>4 DEF Reduce
  <2> HIDE DEF new
  <2>3. Reduce(shown, event) = [requests |-> shown.requests, alerts |-> new]
    BY <1>1, <2>2
  <2> QED
    BY <1>1, <1>4, <2>1, <2>3 DEF Views
<1> QED
  BY <1>2, <1>3, <1>4 DEF Events
-----------------------------------------------------------------------------
(* Every step keeps the types. *)

LEMMA InDomain ==
    ASSUME NEW S, NEW list \in Seq(S)
    PROVE  /\ Len(list) \in Nat /\ DOMAIN list = 1 .. Len(list)
           /\ \A i \in DOMAIN list : list[i] \in S
           /\ ToSet(list) \subseteq S
BY LenProperties, ElementOfSeq DEF ToSet

LEMMA AnswerType == TypeOKServer => Answer \in PollsUnderWay
BY SnapshotType DEF Answer, PollsUnderWay

LEMMA TypeInit == Init => TypeInv
<1> SUFFICES ASSUME Init PROVE TypeInv
  OBVIOUS
<1>1. TypeOKServer
  <2>1. Len(<<>>) = 0 /\ <<>> \in Seq(Requests) /\ <<>> \in Seq(AlertIds)
    BY EmptySeq
  <2>2. /\ requestOrder \in Seq(Requests) /\ Len(requestOrder) <= RequestCap
        /\ alerts \in Seq(AlertIds) /\ Len(alerts) <= AlertCap
    BY <2>1 DEF Init, InitServer
  <2>3. /\ accepted \in [Requests -> {-1} \cup 0 .. MaxTime]
        /\ records \in [Requests -> Statuses]
    BY DEF Init, InitServer, Statuses
  <2>4. now \in 0 .. MaxTime /\ raised \in 0 .. MaxAlerts
    BY DEF Init, InitServer
  <2>5. connected \in BOOLEAN /\ (connected \/ frames = <<>>)
    BY DEF Init, InitServer
  <2> QED
    BY <2>2, <2>3, <2>4, <2>5 DEF Init, InitServer, TypeOKServer
<1>2. polls \in Seq(PollsUnderWay)
  BY <1>1, AnswerType DEF Init
<1>3. frames \in Seq(Events) /\ view = NoView
  BY EmptySeq DEF Init, InitServer
<1>4. polled \in 0 .. MaxPolls /\ drops \in 0 .. MaxDrops /\ firstSeen \in 0 .. MaxAlerts
  BY DEF Init
<1>5. {greeted, late, polling} \subseteq BOOLEAN
  BY Zenon DEF Init
<1>6. /\ ws \in {"closed", "accepted", "open"} /\ toasted \subseteq AlertIds
      /\ conn \in {"connecting", "live", "polling", "offline"}
  BY DEF Init
<1> QED
  BY <1>1, <1>2, <1>3, <1>4, <1>5, <1>6 DEF TypeInv

LEMMA TypeIsOK == TypeInv => TypeOK
<1> SUFFICES ASSUME TypeInv PROVE TypeOK
  OBVIOUS
<1>1. \A i \in DOMAIN polls : polls[i].stage \in {"answered", "reading"}
  <2>1. \A i \in DOMAIN polls : polls[i] \in PollsUnderWay
    BY InDomain DEF TypeInv
  <2> QED
    BY <2>1 DEF PollsUnderWay
<1>2. view = NoView \/ (Len(view.requests) <= RequestCap /\ Len(view.alerts) <= AlertCap)
  BY DEF TypeInv, Views
<1> QED
  BY <1>1, <1>2 DEF TypeInv, TypeOK

LEMMA BroadcastType ==
    ASSUME TypeInv, NEW event \in Events, Broadcast(event), connected' = connected
    PROVE  frames' \in Seq(Events) /\ (connected' \/ frames' = <<>>)
BY AppendProperties DEF TypeInv, TypeOKServer, Broadcast

LEMMA ServerUnchanged == TypeOKServer /\ UNCHANGED serverVars => TypeOKServer'
BY DEF TypeOKServer, serverVars, storeVars, limitVars

LEMMA StoreUnchanged ==
    TypeOKServer /\ UNCHANGED <<storeVars, limitVars>> /\ connected' \in BOOLEAN
        /\ (connected' \/ frames' = <<>>) => TypeOKServer'
BY DEF TypeOKServer, storeVars, limitVars

LEMMA TypeServer == TypeInv /\ ServerStep /\ UNCHANGED feedVars => TypeInv'
<1> SUFFICES ASSUME TypeInv, ServerStep, UNCHANGED feedVars PROVE TypeInv'
  OBVIOUS
<1>1. SUFFICES TypeOKServer' /\ frames' \in Seq(Events)
  BY DEF TypeInv, feedVars, viewVars
<1>2. TypeOKServer /\ frames \in Seq(Events)
  BY DEF TypeInv
<1>3. \A r \in Requests, status \in Statuses : Updated(r, status) \in Events
  BY DEF Updated, Events
<1>4. "PENDING" \in Statuses /\ "ENDED" \in Statuses
  BY DEF Statuses
<1>5. ASSUME NEW r \in Requests, Submit(r)
      PROVE  TypeOKServer' /\ frames' \in Seq(Events)
  <2>1. connected' = connected /\ frames' \in Seq(Events) /\ (connected' \/ frames' = <<>>)
    BY <1>3, <1>4, <1>5, BroadcastType DEF Submit
  <2>2. Prepended(Requests, r, requestOrder, RequestCap)
    BY <1>2, PrependOf, CapsPositive, Zenon DEF TypeOKServer
  <2>3. requestOrder' = Take(<<r>> \o requestOrder, RequestCap)
    BY <1>5 DEF Submit
  <2>4. Len(requestOrder) \in Nat
    BY <1>2, LenProperties DEF TypeOKServer
  <2>5. requestOrder' \in Seq(Requests) /\ Len(requestOrder') <= RequestCap
    BY <2>2, <2>3, <2>4 DEF Prepended
  <2>6. \A i \in 1 .. Len(requestOrder) + 1 : (<<r>> \o requestOrder)[i] \in Requests
    BY <1>2, <2>2, <2>4, InDomain DEF Prepended, TypeOKServer
  <2>7. strays' \subseteq Requests
    BY <1>2, <1>5, <2>2, <2>6 DEF Submit, TypeOKServer, Prepended
  <2>8. HitsInWindow \subseteq Requests
    BY <1>2 DEF HitsInWindow, TypeOKServer
  <2>9. /\ merchantHits' \subseteq Requests /\ now' \in 0 .. MaxTime
        /\ accepted' \in [Requests -> {-1} \cup 0 .. MaxTime]
        /\ records' \in [Requests -> Statuses]
    BY <1>2, <1>4, <1>5, <2>8 DEF Submit, TypeOKServer
  <2>10. alerts' = alerts /\ raised' = raised
    BY <1>5 DEF Submit
  <2> QED
    BY <1>2, <2>1, <2>5, <2>7, <2>9, <2>10 DEF TypeOKServer
<1>6. ASSUME NEW r \in Requests, Throttled(r)
      PROVE  TypeOKServer' /\ frames' \in Seq(Events)
  <2>1. HitsInWindow \subseteq Requests
    BY <1>2 DEF HitsInWindow, TypeOKServer
  <2> QED
    BY <1>2, <1>6, <2>1 DEF Throttled, TypeOKServer, storeVars
<1>7. ASSUME NEW r \in Requests, Settle(r)
      PROVE  TypeOKServer' /\ frames' \in Seq(Events)
  <2>1. connected' = connected /\ frames' \in Seq(Events) /\ (connected' \/ frames' = <<>>)
    BY <1>3, <1>4, <1>7, BroadcastType DEF Settle
  <2>2. records' \in [Requests -> Statuses]
    BY <1>2, <1>4, <1>7 DEF Settle, TypeOKServer
  <2> QED
    BY <1>2, <1>7, <2>1, <2>2 DEF Settle, TypeOKServer, limitVars
<1>8. CASE AddAlert
  <2>1. raised' \in AlertIds /\ raised' \in 0 .. MaxAlerts
    BY <1>2, <1>8 DEF AddAlert, AlertIds, TypeOKServer
  <2>2. [type |-> "alert", id |-> raised'] \in Events
    BY <2>1 DEF Events
  <2>3. connected' = connected /\ frames' \in Seq(Events) /\ (connected' \/ frames' = <<>>)
    BY <1>8, <2>2, BroadcastType DEF AddAlert
  <2>4. Prepended(AlertIds, raised', alerts, AlertCap)
    BY <1>2, <2>1, PrependOf, CapsPositive, Zenon DEF TypeOKServer
  <2>5. alerts' = Take(<<raised'>> \o alerts, AlertCap)
    BY <1>8 DEF AddAlert
  <2>6. Len(alerts) \in Nat
    BY <1>2, LenProperties DEF TypeOKServer
  <2>7. alerts' \in Seq(AlertIds) /\ Len(alerts') <= AlertCap
    BY <2>4, <2>5, <2>6 DEF Prepended
  <2> QED
    BY <1>2, <1>8, <2>1, <2>3, <2>7 DEF AddAlert, TypeOKServer, limitVars
<1>9. CASE Tick
  <2>1. now' \in 0 .. MaxTime
    BY <1>2, <1>9 DEF Tick, TypeOKServer
  <2> QED
    BY <1>2, <1>9, <2>1 DEF Tick, TypeOKServer, storeVars
<1> QED
  BY <1>5, <1>6, <1>7, <1>8, <1>9 DEF ServerStep

LEMMA ApplyType ==
    ASSUME TypeInv, NEW snapshot \in Views, ApplySnapshot(snapshot)
    PROVE  /\ view' \in Views /\ toasted' \subseteq AlertIds /\ firstSeen' \in 0 .. MaxAlerts
<1>1. ToSet(snapshot.alerts) \subseteq AlertIds
  BY InDomain DEF Views
<1>2. Fresh(snapshot) \subseteq AlertIds
  BY <1>1 DEF Fresh
<1>3. view' = snapshot /\ toasted' \subseteq AlertIds
  BY <1>2 DEF ApplySnapshot, TypeInv
<1>4. firstSeen' = raised \/ firstSeen' = firstSeen
  BY DEF ApplySnapshot
<1> QED
  BY <1>3, <1>4 DEF TypeInv, TypeOKServer

LEMMA PollsType ==
    ASSUME TypeInv, NEW i \in DOMAIN polls
    PROVE  /\ polls[i] \in PollsUnderWay /\ polls[i].state \in Views
           /\ RemoveAt(polls, i) \in Seq(PollsUnderWay)
           /\ [polls EXCEPT ![i].stage = "reading"] \in Seq(PollsUnderWay)
           /\ Append(polls, Answer) \in Seq(PollsUnderWay)
<1>1. polls \in Seq(PollsUnderWay) /\ Answer \in PollsUnderWay
  BY AnswerType DEF TypeInv
<1>2. i \in 1 .. Len(polls) /\ polls[i] \in PollsUnderWay
  BY <1>1, InDomain
<1>3. [polls[i] EXCEPT !.stage = "reading"] \in PollsUnderWay /\ polls[i].state \in Views
  BY <1>2 DEF PollsUnderWay
<1>4. [polls EXCEPT ![i] = [polls[i] EXCEPT !.stage = "reading"]] \in Seq(PollsUnderWay)
  BY <1>1, <1>2, <1>3, ExceptSeq
<1>5. RemoveAt(polls, i) \in Seq(PollsUnderWay) /\ Append(polls, Answer) \in Seq(PollsUnderWay)
  BY <1>1, <1>2, RemoveAtOf, AppendProperties
<1> QED
  BY <1>2, <1>3, <1>4, <1>5

LEMMA DropType ==
    ASSUME TypeInv, Drop
    PROVE  drops' \in 0 .. MaxDrops
BY DEF TypeInv, Drop

LEMMA TypePoll == TypeInv /\ (PollTimer \/ PollStep) => TypeInv'
<1> SUFFICES ASSUME TypeInv, PollTimer \/ PollStep PROVE TypeInv'
  OBVIOUS
<1>1. UNCHANGED <<serverVars, ws, greeted, late, polling>> /\ TypeOKServer'
  BY ServerUnchanged DEF TypeInv, PollTimer, PollStep, PollDropped, PollHead, PollBody, PollFails
<1>2. SUFFICES /\ polls' \in Seq(PollsUnderWay) /\ polled' \in 0 .. MaxPolls
               /\ drops' \in 0 .. MaxDrops /\ view' \in Views \cup {NoView}
               /\ conn' \in {"connecting", "live", "polling", "offline"}
               /\ toasted' \subseteq AlertIds /\ firstSeen' \in 0 .. MaxAlerts
  <2>1. {greeted', late', polling'} \subseteq BOOLEAN /\ frames' = frames /\ ws' = ws
    BY <1>1, Zenon DEF TypeInv, serverVars
  <2> QED
    BY <1>1, <1>2, <2>1 DEF TypeInv
<1>3. CASE PollTimer
  <2>1. polls' \in Seq(PollsUnderWay)
    BY <1>3, AnswerType, AppendProperties DEF PollTimer, TypeInv
  <2>2. polled' \in 0 .. MaxPolls
    BY <1>3 DEF PollTimer, TypeInv
  <2> QED
    BY <1>3, <2>1, <2>2 DEF PollTimer, TypeInv, viewVars
<1>4. ASSUME NEW i \in DOMAIN polls, PollDropped(i)
      PROVE  polls' \in Seq(PollsUnderWay)
  BY <1>4, PollsType DEF PollDropped
<1>5. ASSUME NEW i \in DOMAIN polls, PollHead(i)
      PROVE  polls' \in Seq(PollsUnderWay)
  BY <1>5, PollsType DEF PollHead
<1>6. CASE \E i \in DOMAIN polls : PollDropped(i) \/ PollHead(i)
  <2>1. UNCHANGED <<polled, drops, viewVars>>
    BY <1>6 DEF PollDropped, PollHead
  <2> QED
    BY <1>4, <1>5, <1>6, <2>1 DEF TypeInv, viewVars
<1>7. ASSUME NEW i \in DOMAIN polls, PollBody(i)
      PROVE  /\ polls' \in Seq(PollsUnderWay)
             /\ view' \in Views /\ toasted' \subseteq AlertIds /\ firstSeen' \in 0 .. MaxAlerts
             /\ UNCHANGED <<polled, drops>> /\ conn' = "polling"
  BY <1>7, PollsType, ApplyType DEF PollBody
<1>8. ASSUME NEW i \in DOMAIN polls, PollFails(i)
      PROVE  /\ polls' \in Seq(PollsUnderWay) /\ drops' \in 0 .. MaxDrops
             /\ conn' \in {conn, "offline"}
             /\ UNCHANGED <<polled, view, toasted, firstSeen>>
  BY <1>8, PollsType, DropType DEF PollFails
<1> QED
  BY <1>3, <1>6, <1>7, <1>8 DEF PollStep, TypeInv

LEMMA TypeSocket == TypeInv /\ SocketStep => TypeInv'
<1> SUFFICES ASSUME TypeInv, SocketStep PROVE TypeInv'
  OBVIOUS
<1>1. CASE Connect
  <2>1. [type |-> "hello", state |-> Snapshot] \in Events
    BY SnapshotType DEF Events, TypeInv
  <2>2. frames' \in Seq(Events)
    BY <1>1, <2>1 DEF Connect
  <2>3. TypeOKServer'
    BY <1>1, StoreUnchanged DEF Connect, TypeInv
  <2>4. {greeted', late', polling'} \subseteq BOOLEAN
    BY <1>1, Zenon DEF Connect, TypeInv
  <2> QED
    BY <1>1, <2>2, <2>3, <2>4 DEF Connect, TypeInv, viewVars
<1>2. CASE OnOpen
  <2>1. TypeOKServer' /\ frames' = frames
    BY <1>2, ServerUnchanged DEF OnOpen, TypeInv, serverVars
  <2>2. {greeted', late', polling'} \subseteq BOOLEAN
    BY <1>2, Zenon DEF OnOpen, TypeInv
  <2> QED
    BY <1>2, <2>1, <2>2 DEF OnOpen, TypeInv
<1>3. CASE OnMessage
  <2> DEFINE event == Head(frames)
  <2>1. event \in Events /\ Tail(frames) \in Seq(Events)
    BY <1>3, HeadTailProperties DEF OnMessage, TypeInv
  <2>2. TypeOKServer'
    <3>1. connected
      BY <1>3 DEF OnMessage, TypeInv, TypeOKServer
    <3> QED
      BY <1>3, <3>1, StoreUnchanged DEF OnMessage, TypeInv, TypeOKServer
  <2>3. {greeted', late', polling'} \subseteq BOOLEAN
    BY <1>3, Zenon DEF OnMessage, TypeInv
  <2>4. /\ view' \in Views \cup {NoView}
        /\ toasted' \subseteq AlertIds /\ firstSeen' \in 0 .. MaxAlerts
    <3>1. CASE event.type = "hello"
      <4>1. event.state \in Views
        BY <2>1, <3>1 DEF Events
      <4>2. ApplySnapshot(event.state)
        BY <1>3, <3>1 DEF OnMessage
      <4> QED
        BY <4>1, <4>2, ApplyType
    <3>2. CASE event.type # "hello" /\ view = NoView
      BY <1>3, <3>2 DEF OnMessage, TypeInv
    <3>3. CASE event.type # "hello" /\ view # NoView
      <4>1. /\ view' = Reduce(view, event) /\ firstSeen' = firstSeen
            /\ toasted' = IF event.type = "alert" THEN toasted \cup {event.id} ELSE toasted
        BY <1>3, <3>3 DEF OnMessage
      <4>2. view' \in Views
        BY <2>1, <3>3, <4>1, ReduceType DEF TypeInv
      <4>3. event.type = "alert" => event.id \in AlertIds
        BY <2>1 DEF Events
      <4> QED
        BY <4>1, <4>2, <4>3 DEF TypeInv
    <3> QED
      BY <3>1, <3>2, <3>3
  <2>5. /\ frames' = Tail(frames)
        /\ UNCHANGED <<ws, polls, polled, drops, conn>>
    BY <1>3 DEF OnMessage
  <2> QED
    BY <2>1, <2>2, <2>3, <2>4, <2>5 DEF TypeInv
<1> QED
  BY <1>1, <1>2, <1>3 DEF SocketStep

LEMMA TypeClose == TypeInv /\ OnClose => TypeInv'
<1> SUFFICES ASSUME TypeInv, OnClose PROVE TypeInv'
  OBVIOUS
<1>1. TypeOKServer'
  BY StoreUnchanged DEF OnClose, TypeInv
<1>2. {greeted', late', polling'} \subseteq BOOLEAN
  BY Zenon DEF OnClose, StartPolling, TypeInv
<1>3. polls' \in Seq(PollsUnderWay) /\ polled' \in 0 .. MaxPolls
  <2>1. CASE polling \/ polled = MaxPolls
    BY <2>1 DEF OnClose, StartPolling, TypeInv
  <2>2. CASE ~(polling \/ polled = MaxPolls)
    <3>1. polls' = Append(polls, Answer) /\ polled' = polled + 1 /\ polled # MaxPolls
      BY <2>2, Zenon DEF OnClose, StartPolling
    <3>2. polls' \in Seq(PollsUnderWay)
      BY <3>1, AnswerType, AppendProperties DEF TypeInv
    <3>3. polled' \in 0 .. MaxPolls
      BY <3>1 DEF TypeInv
    <3> QED
      BY <3>2, <3>3
  <2> QED
    BY <2>1, <2>2
<1>4. drops' \in 0 .. MaxDrops
  BY DropType DEF OnClose
<1>5. frames' \in Seq(Events)
  BY EmptySeq DEF OnClose
<1> QED
  BY <1>1, <1>2, <1>3, <1>4, <1>5 DEF OnClose, TypeInv

LEMMA TypeNext == TypeInv /\ [Next]_vars => TypeInv'
<1> SUFFICES ASSUME TypeInv, [Next]_vars PROVE TypeInv'
  OBVIOUS
<1>1. CASE UNCHANGED vars
  <2>1. TypeOKServer'
    BY <1>1, ServerUnchanged DEF vars, TypeInv
  <2>2. {greeted', late', polling'} \subseteq BOOLEAN
    BY <1>1, Zenon DEF vars, feedVars, TypeInv
  <2> QED
    BY <1>1, <2>1, <2>2 DEF vars, serverVars, feedVars, viewVars, TypeInv
<1> QED
  BY <1>1, TypeServer, TypePoll, TypeSocket, TypeClose DEF Next

\* The dashboard's store and the coordinator's are what their types say: the
\* lists of both never outgrow REQUEST_CAP and ALERT_CAP.
THEOREM FeedTypeCorrect == Spec => []TypeOK
BY TypeInit, TypeNext, TypeIsOK, PTL DEF Spec
-----------------------------------------------------------------------------
(* The coordinator's lists, and the copies of them that travel. *)

\* The alerts of a snapshot were raised before it was taken.
RaisedBy(shown, n) == \A a \in ToSet(shown.alerts) : a <= n

StoreInv ==
    /\ \A r \in ToSet(requestOrder) : records[r] # "none"
    /\ \A r \in Requests : records[r] = "PENDING" => r \in strays \/ r \in ToSet(requestOrder)
    /\ \A a \in ToSet(alerts) : a <= raised
    /\ connected <=> ws # "closed"

CopiesInv ==
    /\ \A i \in DOMAIN frames : frames[i].type = "hello" => RaisedBy(frames[i].state, raised)
    /\ \A i \in DOMAIN polls : RaisedBy(polls[i].state, raised)

LEMMA PrependMembers ==
    ASSUME NEW S, NEW list \in Seq(S), NEW e \in S, NEW n \in Nat \ {0}
    PROVE  /\ ToSet(Take(<<e>> \o list, n)) \subseteq {e} \cup ToSet(list)
           /\ e \in ToSet(Take(<<e>> \o list, n))
           /\ \A x \in ToSet(list) :
                 \/ x \in ToSet(Take(<<e>> \o list, n))
                 \/ \E i \in n + 1 .. Len(<<e>> \o list) : (<<e>> \o list)[i] = x
<1> DEFINE whole == <<e>> \o list
           new == Take(whole, n)
<1>1. Len(list) \in Nat /\ DOMAIN list = 1 .. Len(list)
  BY LenProperties
<1>2. Prepended(S, e, list, n)
  BY PrependOf
<1>3. /\ Len(whole) = Len(list) + 1
      /\ \A i \in 1 .. Len(list) + 1 : whole[i] = IF i = 1 THEN e ELSE list[i - 1]
      /\ new \in Seq(S)
      /\ Len(new) = IF Len(list) + 1 < n THEN Len(list) + 1 ELSE n
      /\ \A i \in 1 .. Len(new) : new[i] = IF i = 1 THEN e ELSE list[i - 1]
  BY <1>2 DEF Prepended
<1>4. DOMAIN new = 1 .. Len(new)
  BY <1>3, LenProperties
<1> HIDE DEF whole, new
<1>5. Len(new) \in Nat /\ 1 <= Len(new) /\ Len(new) <= Len(list) + 1
  BY <1>1, <1>3
<1>6. ASSUME NEW i \in DOMAIN new
      PROVE  new[i] \in {e} \cup ToSet(list)
  <2>1. CASE i = 1
    BY <1>3, <1>4, <2>1
  <2>2. CASE i # 1
    <3>1. i - 1 \in DOMAIN list
      BY <1>1, <1>4, <1>5, <2>2
    <3>2. new[i] = list[i - 1]
      BY <1>3, <1>4, <2>2
    <3> QED
      BY <3>1, <3>2 DEF ToSet
  <2> QED
    BY <2>1, <2>2
<1>7. 1 \in DOMAIN new /\ new[1] = e
  BY <1>3, <1>4, <1>5
<1>8. ASSUME NEW j \in DOMAIN list
      PROVE  \/ list[j] \in ToSet(new)
             \/ \E i \in n + 1 .. Len(whole) : whole[i] = list[j]
  <2>1. j + 1 \in 1 .. Len(list) + 1 /\ j + 1 # 1 /\ (j + 1) - 1 = j
    BY <1>1
  <2>2. CASE j + 1 <= Len(new)
    <3>1. j + 1 \in 1 .. Len(new)
      BY <1>5, <2>1, <2>2
    <3>2. new[j + 1] = list[j]
      BY <1>3, <2>1, <3>1
    <3> QED
      BY <1>4, <3>1, <3>2 DEF ToSet
  <2>3. CASE ~(j + 1 <= Len(new))
    <3>1. j + 1 \in n + 1 .. Len(whole)
      BY <1>1, <1>3, <2>1, <2>3
    <3>2. whole[j + 1] = list[j]
      BY <1>3, <2>1
    <3> QED
      BY <3>1, <3>2
  <2> QED
    BY <2>2, <2>3
<1>9. ToSet(new) \subseteq {e} \cup ToSet(list)
  <2> SUFFICES ASSUME NEW x \in ToSet(new) PROVE x \in {e} \cup ToSet(list)
    OBVIOUS
  <2>1. PICK i \in DOMAIN new : new[i] = x
    BY DEF ToSet
  <2> QED
    BY <1>6, <2>1
<1>10. e \in ToSet(new)
  BY <1>7 DEF ToSet
<1>11. ASSUME NEW x \in ToSet(list)
       PROVE  x \in ToSet(new) \/ \E i \in n + 1 .. Len(whole) : whole[i] = x
  <2>1. PICK j \in DOMAIN list : list[j] = x
    BY DEF ToSet
  <2> QED
    BY <1>8, <2>1
<1> QED
  BY <1>9, <1>10, <1>11, Zenon DEF new, whole

LEMMA RaisedLater ==
    ASSUME NEW v, NEW m \in Nat, NEW n \in Nat, m <= n,
           ToSet(v.alerts) \subseteq Nat, RaisedBy(v, m)
    PROVE  RaisedBy(v, n)
BY DEF RaisedBy

LEMMA StoreInit == Init => StoreInv /\ CopiesInv
<1> SUFFICES ASSUME Init PROVE StoreInv /\ CopiesInv
  OBVIOUS
<1>1. requestOrder = <<>> /\ alerts = <<>> /\ frames = <<>>
  BY DEF Init, InitServer
<1>2. ToSet(<<>>) = {} /\ DOMAIN <<>> = {}
  BY DEF ToSet
<1>3. StoreInv
  BY <1>1, <1>2 DEF Init, InitServer, StoreInv
<1>4. Snapshot.alerts = <<>>
  BY <1>1 DEF Snapshot
<1>5. DOMAIN polls = {1} /\ polls[1].state = Snapshot
  BY DEF Init, Answer
<1> QED
  BY <1>1, <1>2, <1>3, <1>4, <1>5 DEF CopiesInv, RaisedBy

LEMMA SnapshotRaised == StoreInv => RaisedBy(Snapshot, raised)
BY DEF StoreInv, RaisedBy, Snapshot

LEMMA StoreNext == TypeInv /\ StoreInv /\ [Next]_vars => StoreInv'
<1> SUFFICES ASSUME TypeInv, StoreInv, [Next]_vars PROVE StoreInv'
  OBVIOUS
<1>1. TypeOKServer /\ requestOrder \in Seq(Requests) /\ alerts \in Seq(AlertIds)
        /\ records \in [Requests -> Statuses]
  BY DEF TypeInv, TypeOKServer
<1>2. ASSUME NEW r \in Requests, Submit(r), UNCHANGED feedVars
      PROVE  StoreInv'
  <2> DEFINE whole == <<r>> \o requestOrder
  <2>1. /\ ToSet(requestOrder') \subseteq {r} \cup ToSet(requestOrder)
        /\ r \in ToSet(requestOrder')
        /\ \A x \in ToSet(requestOrder) :
              \/ x \in ToSet(requestOrder')
              \/ \E i \in RequestCap + 1 .. Len(whole) : whole[i] = x
    BY <1>1, <1>2, PrependMembers, CapsPositive DEF Submit
  <2>2. /\ records' = [records EXCEPT ![r] = "PENDING"] /\ records[r] = "none"
        /\ strays' = strays \cup
              {s \in {whole[i] : i \in RequestCap + 1 .. Len(whole)} : records[s] = "PENDING"}
        /\ UNCHANGED <<alerts, raised, connected>>
    BY <1>2 DEF Submit
  <2> HIDE DEF whole
  <2>3. \A s \in ToSet(requestOrder') : records'[s] # "none"
    <3>1. ToSet(requestOrder) \subseteq Requests
      BY <1>1, InDomain
    <3> QED
      BY <1>1, <2>1, <2>2, <3>1 DEF StoreInv
  <2>4. ASSUME NEW s \in Requests, records'[s] = "PENDING"
        PROVE  s \in strays' \/ s \in ToSet(requestOrder')
    <3>1. CASE s = r
      BY <2>1, <3>1
    <3>2. CASE s # r
      <4>1. records[s] = "PENDING"
        BY <1>1, <2>2, <2>4, <3>2
      <4> QED
        BY <2>1, <2>2, <4>1 DEF StoreInv
    <3> QED
      BY <3>1, <3>2
  <2> QED
    BY <1>2, <2>2, <2>3, <2>4 DEF StoreInv, feedVars
<1>3. ASSUME NEW r \in Requests, Throttled(r), UNCHANGED feedVars
      PROVE  StoreInv'
  BY <1>3 DEF Throttled, storeVars, feedVars, StoreInv
<1>4. ASSUME NEW r \in Requests, Settle(r), UNCHANGED feedVars
      PROVE  StoreInv'
  <2>1. ToSet(requestOrder) \subseteq Requests
    BY <1>1, InDomain
  <2> QED
    BY <1>1, <1>4, <2>1 DEF Settle, limitVars, feedVars, StoreInv
<1>5. CASE AddAlert /\ UNCHANGED feedVars
  <2>1. raised \in Nat /\ raised' = raised + 1 /\ raised' \in AlertIds
    BY <1>1, <1>5 DEF AddAlert, AlertIds, TypeOKServer
  <2>2. alerts' = Take(<<raised'>> \o alerts, AlertCap)
    BY <1>5 DEF AddAlert
  <2>3. ToSet(alerts') \subseteq {raised'} \cup ToSet(alerts) /\ ToSet(alerts) \subseteq AlertIds
    BY <1>1, <2>1, <2>2, PrependMembers, CapsPositive, InDomain
  <2>4. \A a \in ToSet(alerts') : a <= raised'
    BY <2>1, <2>3 DEF StoreInv, AlertIds
  <2> QED
    BY <1>5, <2>4 DEF AddAlert, feedVars, StoreInv
<1>6. CASE Tick /\ UNCHANGED feedVars
  BY <1>6 DEF Tick, storeVars, feedVars, StoreInv
<1>7. CASE PollTimer \/ PollStep \/ OnMessage \/ UNCHANGED vars
  <2>1. UNCHANGED <<storeVars, connected, ws>>
    BY <1>7 DEF PollTimer, PollStep, PollDropped, PollHead, PollBody, PollFails, OnMessage,
       serverVars, feedVars, vars
  <2> QED
    BY <2>1 DEF storeVars, StoreInv
<1>8. CASE Connect \/ OnOpen \/ OnClose
  <2>1. UNCHANGED storeVars /\ (connected' <=> ws' # "closed")
    BY <1>8 DEF Connect, OnOpen, OnClose, serverVars, StoreInv
  <2> QED
    BY <2>1 DEF storeVars, StoreInv
<1> QED
  BY <1>2, <1>3, <1>4, <1>5, <1>6, <1>7, <1>8 DEF Next, ServerStep, SocketStep

\* A poll under way was made now or is one of before, perhaps with its head read.
PollsKept ==
    \A i \in DOMAIN polls' :
        \/ polls'[i] = Answer
        \/ \E j \in DOMAIN polls :
              /\ polls'[i].state = polls[j].state
              /\ polls'[i].stage = "reading" => polls[j].stage = "reading" \/ ~wsOpen

LEMMA PollsStep == TypeInv /\ [Next]_vars => PollsKept
<1> SUFFICES ASSUME TypeInv, [Next]_vars PROVE PollsKept
  OBVIOUS
<1>1. polls \in Seq(PollsUnderWay) /\ Answer \in PollsUnderWay
  BY AnswerType DEF TypeInv
<1>2. Len(polls) \in Nat /\ DOMAIN polls = 1 .. Len(polls)
  BY <1>1, LenProperties
<1>3. CASE polls' = polls
  BY <1>3 DEF PollsKept
<1>4. CASE polls' = Append(polls, Answer)
  <2>1. /\ Append(polls, Answer) \in Seq(PollsUnderWay)
        /\ Len(Append(polls, Answer)) = Len(polls) + 1
        /\ \A i \in 1 .. Len(polls) : Append(polls, Answer)[i] = polls[i]
        /\ Append(polls, Answer)[Len(polls) + 1] = Answer
    BY <1>1, AppendProperties
  <2>2. DOMAIN polls' = 1 .. Len(polls) + 1
    BY <1>4, <2>1, LenProperties
  <2> QED
    BY <1>2, <1>4, <2>1, <2>2 DEF PollsKept
<1>5. ASSUME NEW i \in DOMAIN polls, polls' = RemoveAt(polls, i)
      PROVE  PollsKept
  <2>1. /\ RemoveAt(polls, i) \in Seq(PollsUnderWay)
        /\ \A k \in 1 .. Len(RemoveAt(polls, i)) :
              \E j \in 1 .. Len(polls) : RemoveAt(polls, i)[k] = polls[j]
    BY <1>1, <1>2, RemoveAtOf
  <2>2. DOMAIN polls' = 1 .. Len(polls')
    BY <1>5, <2>1, LenProperties
  <2> QED
    BY <1>2, <1>5, <2>1, <2>2 DEF PollsKept
<1>6. ASSUME NEW i \in DOMAIN polls, PollHead(i)
      PROVE  PollsKept
  <2>1. DOMAIN polls' = DOMAIN polls /\ ~wsOpen
    BY <1>6 DEF PollHead, MayApply
  <2>2. \A j \in DOMAIN polls : polls[j] \in PollsUnderWay
    BY <1>1, InDomain
  <2>3. \A j \in DOMAIN polls : polls'[j].state = polls[j].state
    BY <1>6, <2>2 DEF PollHead, PollsUnderWay
  <2> QED
    BY <2>1, <2>3 DEF PollsKept
<1>7. CASE PollStep
  BY <1>5, <1>6, <1>7 DEF PollStep, PollDropped, PollBody, PollFails
<1>8. CASE OnClose
  BY <1>3, <1>4, <1>8 DEF OnClose, StartPolling
<1>9. CASE ServerStep /\ UNCHANGED feedVars
  BY <1>3, <1>9 DEF feedVars
<1>10. CASE PollTimer \/ SocketStep \/ UNCHANGED vars
  BY <1>3, <1>4, <1>10 DEF PollTimer, SocketStep, Connect, OnOpen, OnMessage, vars, feedVars
<1> QED
  BY <1>7, <1>8, <1>9, <1>10 DEF Next

LEMMA CopiesNext == TypeInv /\ StoreInv /\ CopiesInv /\ [Next]_vars => CopiesInv'
<1> SUFFICES ASSUME TypeInv, StoreInv, CopiesInv, [Next]_vars PROVE CopiesInv'
  OBVIOUS
<1>1. frames \in Seq(Events) /\ polls \in Seq(PollsUnderWay) /\ raised \in Nat
  BY DEF TypeInv, TypeOKServer
<1>2. Len(frames) \in Nat /\ DOMAIN frames = 1 .. Len(frames)
        /\ Len(polls) \in Nat /\ DOMAIN polls = 1 .. Len(polls)
  BY <1>1, LenProperties
<1>3. \A v \in Views : ToSet(v.alerts) \subseteq Nat
  BY InDomain DEF Views, AlertIds
<1>4. /\ \A i \in DOMAIN frames : frames[i].type = "hello" => frames[i].state \in Views
      /\ \A i \in DOMAIN polls : polls[i].state \in Views
  <2>1. \A i \in DOMAIN frames : frames[i] \in Events
    BY <1>1, InDomain
  <2>2. \A i \in DOMAIN polls : polls[i] \in PollsUnderWay
    BY <1>1, InDomain
  <2> QED
    BY <2>1, <2>2 DEF Events, PollsUnderWay
<1>5. ASSUME ServerStep, UNCHANGED feedVars
      PROVE  CopiesInv'
  <2>1. raised' \in Nat /\ raised <= raised'
    <3>1. raised' = raised \/ raised' = raised + 1
      BY <1>5 DEF ServerStep, Submit, Throttled, Settle, AddAlert, Tick, storeVars
    <3> QED
      BY <1>1, <3>1
  <2>2. \A v \in Views : RaisedBy(v, raised) => RaisedBy(v, raised')
    BY <1>1, <1>3, <2>1, RaisedLater
  <2>3. frames' = frames \/ \E event : event.type # "hello" /\ frames' = Append(frames, event)
    BY <1>5 DEF ServerStep, Submit, Throttled, Settle, AddAlert, Tick, Broadcast, Updated
  <2>4. \A i \in DOMAIN frames' :
           frames'[i].type = "hello" => i \in DOMAIN frames /\ frames'[i] = frames[i]
    BY <1>1, <1>2, <2>3
  <2> QED
    BY <1>4, <1>5, <2>2, <2>4 DEF CopiesInv, feedVars
<1>6. CASE PollTimer \/ PollStep \/ SocketStep \/ OnClose \/ UNCHANGED vars
  <2>1. raised' = raised
    BY <1>6 DEF PollTimer, PollStep, PollDropped, PollHead, PollBody, PollFails, SocketStep,
       Connect, OnOpen, OnMessage, OnClose, serverVars, storeVars, vars
  <2>2. RaisedBy(Snapshot, raised)
    BY SnapshotRaised
  <2>3. \A i \in DOMAIN polls' : RaisedBy(polls'[i].state, raised')
    BY <2>1, <2>2, PollsStep DEF PollsKept, Answer, CopiesInv, RaisedBy
  <2>4. \/ frames' = frames \/ frames' = <<>>
        \/ frames' = <<[type |-> "hello", state |-> Snapshot]>>
        \/ frames # <<>> /\ frames' = Tail(frames)
    BY <1>6 DEF PollTimer, PollStep, PollDropped, PollHead, PollBody, PollFails, SocketStep,
       Connect, OnOpen, OnMessage, OnClose, serverVars, vars
  <2>5. ASSUME frames # <<>>
        PROVE  \A i \in DOMAIN Tail(frames) :
                  i + 1 \in DOMAIN frames /\ Tail(frames)[i] = frames[i + 1]
    <3>1. /\ Tail(frames) \in Seq(Events) /\ Len(Tail(frames)) = Len(frames) - 1
          /\ \A i \in 1 .. Len(Tail(frames)) : Tail(frames)[i] = frames[i + 1]
      BY <1>1, <2>5, HeadTailProperties
    <3>2. DOMAIN Tail(frames) = 1 .. Len(Tail(frames))
      BY <3>1, LenProperties
    <3> QED
      BY <1>2, <3>1, <3>2
  <2>6. \A i \in DOMAIN frames' :
           frames'[i].type = "hello" => RaisedBy(frames'[i].state, raised)
    <3>1. CASE frames' = frames
      BY <3>1 DEF CopiesInv
    <3>2. CASE frames' = <<>>
      BY <3>2
    <3>3. CASE frames' = <<[type |-> "hello", state |-> Snapshot]>>
      BY <2>2, <3>3
    <3>4. CASE frames # <<>> /\ frames' = Tail(frames)
      BY <2>5, <3>4 DEF CopiesInv
    <3> QED
      BY <2>4, <3>1, <3>2, <3>3, <3>4
  <2> QED
    BY <2>1, <2>3, <2>6 DEF CopiesInv
<1> QED
  BY <1>5, <1>6 DEF Next
-----------------------------------------------------------------------------
(* Warnings.  All that are raised fit in the toasts of one resync, so the   *)
(* ones a snapshot brings that the view did not have are shown, every one.  *)

Warnings == {a \in 1 .. raised : IsWarning(a)}

LEMMA WarningsFinite ==
    ASSUME raised \in Nat
    PROVE  IsFiniteSet(Warnings) /\ Cardinality(Warnings) \in Nat
<1>1. IsFiniteSet(1 .. raised)
  BY FS_Interval
<1> QED
  BY <1>1, FS_Subset, FS_CardinalityType DEF Warnings

LEMMA FreshIsAll ==
    ASSUME TypeInv, FewWarnings, view # NoView,
           NEW snapshot \in Views, RaisedBy(snapshot, raised),
           NEW a \in ToSet(snapshot.alerts), IsWarning(a), a \notin ToSet(view.alerts)
    PROVE  a \in Fresh(snapshot)
<1> DEFINE fresh == {b \in ToSet(snapshot.alerts) : IsWarning(b) /\ ~Contains(view.alerts, b)}
           newer == {b \in fresh : b > a}
<1>1. raised \in Nat
  BY DEF TypeInv, TypeOKServer
<1>2. ToSet(snapshot.alerts) \subseteq 1 .. raised
  <2>1. ToSet(snapshot.alerts) \subseteq AlertIds
    BY InDomain DEF Views
  <2> QED
    BY <1>1, <2>1 DEF RaisedBy, AlertIds
<1>3. a \in fresh
  <2>1. view.alerts \in Seq(AlertIds)
    BY DEF TypeInv, Views
  <2>2. DOMAIN view.alerts = 1 .. Len(view.alerts)
    BY <2>1, InDomain
  <2> QED
    BY <2>2 DEF Contains, ToSet
<1>4. a \in Warnings /\ newer \subseteq Warnings \ {a}
  BY <1>2 DEF Warnings
<1>5. IsFiniteSet(Warnings) /\ Cardinality(Warnings) \in Nat
  BY <1>1, WarningsFinite
<1>6. IsFiniteSet(Warnings \ {a}) /\ Cardinality(Warnings \ {a}) = Cardinality(Warnings) - 1
  BY <1>4, <1>5, FS_RemoveElement
<1>7. Cardinality(newer) <= Cardinality(Warnings) - 1 /\ Cardinality(newer) \in Nat
  BY <1>4, <1>6, FS_Subset, FS_CardinalityType
<1>8. Cardinality(Warnings) <= ToastsPerSync
  BY DEF FewWarnings, Warnings
<1> HIDE DEF newer, fresh
<1>9. Cardinality(newer) < ToastsPerSync
  BY <1>5, <1>7, <1>8
<1> QED
  BY <1>3, <1>9 DEF Fresh, newer, fresh

LEMMA ApplyWarned ==
    ASSUME TypeInv, WarningsNoticed, raised' = raised,
           NEW snapshot \in Views, RaisedBy(snapshot, raised), ApplySnapshot(snapshot)
    PROVE  WarningsNoticed'
<1>1. view' = snapshot /\ (FewWarnings' <=> FewWarnings)
  BY DEF ApplySnapshot, FewWarnings
<1>2. SUFFICES ASSUME FewWarnings, NEW a \in ToSet(snapshot.alerts), IsWarning(a), a > firstSeen'
               PROVE  a \in toasted'
  BY <1>1 DEF WarningsNoticed
<1>3. a \in Nat /\ raised \in Nat
  BY InDomain DEF Views, AlertIds, TypeInv, TypeOKServer
<1>4. view # NoView
  <2>1. CASE view = NoView
    <3>1. firstSeen' = raised /\ a <= raised
      BY <2>1 DEF ApplySnapshot, RaisedBy
    <3> QED
      BY <1>2, <1>3, <3>1
  <2> QED
    BY <2>1
<1>5. firstSeen' = firstSeen /\ toasted' = toasted \cup Fresh(snapshot)
  BY <1>4 DEF ApplySnapshot
<1>6. CASE a \in ToSet(view.alerts)
  BY <1>2, <1>4, <1>5, <1>6 DEF WarningsNoticed
<1>7. CASE a \notin ToSet(view.alerts)
  BY <1>2, <1>4, <1>5, <1>7, FreshIsAll
<1> QED
  BY <1>6, <1>7

LEMMA WarnedInit == Init => WarningsNoticed
BY DEF Init, WarningsNoticed

LEMMA WarnedNext ==
    TypeInv /\ StoreInv /\ CopiesInv /\ WarningsNoticed /\ [Next]_vars => WarningsNoticed'
<1> SUFFICES ASSUME TypeInv, StoreInv, CopiesInv, WarningsNoticed, [Next]_vars
             PROVE  WarningsNoticed'
  OBVIOUS
<1>1. CASE ServerStep /\ UNCHANGED feedVars
  <2>1. raised \in Nat /\ raised' \in Nat /\ raised <= raised'
    <3>1. raised' = raised \/ raised' = raised + 1
      BY <1>1 DEF ServerStep, Submit, Throttled, Settle, AddAlert, Tick, storeVars
    <3> QED
      BY <3>1 DEF TypeInv, TypeOKServer
  <2>2. Warnings \subseteq Warnings' /\ IsFiniteSet(Warnings')
    <3>1. IsFiniteSet(1 .. raised')
      BY <2>1, FS_Interval
    <3> QED
      BY <2>1, <3>1, FS_Subset DEF Warnings
  <2>3. Cardinality(Warnings) <= Cardinality(Warnings')
    BY <2>2, FS_Subset
  <2>4. Cardinality(Warnings) \in Nat /\ Cardinality(Warnings') \in Nat
    BY <2>1, <2>2, WarningsFinite, FS_CardinalityType
  <2>5. FewWarnings' => FewWarnings
    BY <2>3, <2>4 DEF FewWarnings, Warnings
  <2> QED
    BY <1>1, <2>5 DEF WarningsNoticed, feedVars, viewVars
<1>2. ASSUME raised' = raised, UNCHANGED <<view, toasted, firstSeen>>
      PROVE  WarningsNoticed'
  BY <1>2 DEF WarningsNoticed, FewWarnings
<1>3. CASE PollTimer \/ OnClose \/ Connect \/ OnOpen \/ UNCHANGED vars
  BY <1>2, <1>3 DEF PollTimer, OnClose, Connect, OnOpen, vars, serverVars, storeVars, feedVars, viewVars
<1>4. ASSUME NEW i \in DOMAIN polls, PollDropped(i) \/ PollHead(i) \/ PollFails(i)
      PROVE  WarningsNoticed'
  BY <1>2, <1>4 DEF PollDropped, PollHead, PollFails, serverVars, storeVars, viewVars
<1>5. ASSUME NEW i \in DOMAIN polls, PollBody(i)
      PROVE  WarningsNoticed'
  <2>1. polls[i].state \in Views /\ RaisedBy(polls[i].state, raised)
    BY PollsType DEF CopiesInv
  <2> QED
    BY <1>5, <2>1, ApplyWarned DEF PollBody, serverVars, storeVars
<1>6. CASE OnMessage
  <2> DEFINE event == Head(frames)
  <2>1. raised' = raised
    BY <1>6 DEF OnMessage, storeVars
  <2>2. event \in Events
    BY <1>6, HeadTailProperties DEF OnMessage, TypeInv
  <2>3. CASE event.type = "hello"
    <3>1. event.state \in Views
      BY <2>2, <2>3 DEF Events
    <3>2. RaisedBy(event.state, raised)
      <4>1. frames \in Seq(Events) /\ frames # <<>>
        BY <1>6 DEF OnMessage, TypeInv
      <4>2. Len(frames) \in Nat \ {0} /\ DOMAIN frames = 1 .. Len(frames)
        BY <4>1, EmptySeq, InDomain
      <4>3. 1 \in DOMAIN frames /\ event = frames[1]
        BY <4>1, <4>2
      <4> QED
        BY <2>3, <4>3 DEF CopiesInv
    <3>3. ApplySnapshot(event.state)
      BY <1>6, <2>3 DEF OnMessage
    <3> QED
      BY <2>1, <3>1, <3>2, <3>3, ApplyWarned
  <2>4. CASE event.type # "hello" /\ view = NoView
    BY <1>2, <1>6, <2>1, <2>4 DEF OnMessage
  <2>5. CASE event.type # "hello" /\ view # NoView
    <3>1. /\ view' = Reduce(view, event) /\ firstSeen' = firstSeen
          /\ toasted' = IF event.type = "alert" THEN toasted \cup {event.id} ELSE toasted
      BY <1>6, <2>5 DEF OnMessage
    <3>2. view \in Views
      BY <2>5 DEF TypeInv
    <3>3. CASE event.type = "request.updated"
      <4>1. view'.alerts = view.alerts
        BY <2>2, <3>1, <3>2, <3>3, ReduceType
      <4> QED
        BY <2>1, <2>5, <3>1, <3>3, <4>1 DEF WarningsNoticed, FewWarnings
    <3>4. CASE event.type = "alert"
      <4>1. ToSet(view'.alerts) \subseteq {event.id} \cup ToSet(view.alerts)
        BY <2>2, <3>1, <3>2, <3>4, ReduceType
      <4>2. toasted' = toasted \cup {event.id}
        BY <3>1, <3>4
      <4> QED
        BY <2>1, <2>5, <3>1, <4>1, <4>2 DEF WarningsNoticed, FewWarnings
    <3> QED
      BY <2>2, <2>5, <3>3, <3>4 DEF Events
  <2> QED
    BY <2>3, <2>4, <2>5
<1> QED
  BY <1>1, <1>3, <1>4, <1>5, <1>6 DEF Next, PollStep, SocketStep

\* store.ts:42, the toasts of applySnapshot.  A warning raised while the socket
\* was down is toasted by the resync that brings it, whatever was lost and
\* however polls and frames interleave.
THEOREM NoWarningUnnoticed == Spec => []WarningsNoticed
BY TypeInit, TypeNext, StoreInit, StoreNext, CopiesNext, WarnedInit, WarnedNext, PTL DEF Spec
-----------------------------------------------------------------------------
(* The hello and the polls. *)

GreetInv ==
    /\ ~wsOpen => ~greeted
    /\ ws # "closed" /\ ~greeted => frames # <<>> /\ frames[1].type = "hello"
    /\ greeted => view # NoView
    /\ wsOpen /\ ~late => \A i \in DOMAIN polls : polls[i].stage = "answered"

LEMMA GreetInit == Init => GreetInv
BY DEF Init, GreetInv, wsOpen

LEMMA HeadOfFrames ==
    ASSUME TypeInv, frames # <<>>
    PROVE  /\ Len(frames) \in Nat \ {0} /\ 1 \in DOMAIN frames /\ Head(frames) = frames[1]
           /\ frames[1] \in Events
           /\ Tail(frames) \in Seq(Events) /\ Len(Tail(frames)) = Len(frames) - 1
           /\ \A i \in 1 .. Len(frames) - 1 : Tail(frames)[i] = frames[i + 1]
<1>1. frames \in Seq(Events)
  BY DEF TypeInv
<1>2. Len(frames) \in Nat \ {0} /\ DOMAIN frames = 1 .. Len(frames)
  BY <1>1, EmptySeq, InDomain
<1>3. 1 \in DOMAIN frames /\ frames[1] \in Events
  BY <1>1, <1>2, InDomain
<1> QED
  BY <1>1, <1>2, <1>3, HeadTailProperties

LEMMA GreetNext == TypeInv /\ StoreInv /\ GreetInv /\ [Next]_vars => GreetInv'
<1> SUFFICES ASSUME TypeInv, StoreInv, GreetInv, [Next]_vars PROVE GreetInv'
  OBVIOUS
<1>1. frames \in Seq(Events) /\ view \in Views \cup {NoView}
  BY DEF TypeInv
<1>2. ASSUME ws' = ws, late' = late
      PROVE  wsOpen' /\ ~late' => \A i \in DOMAIN polls' : polls'[i].stage = "answered"
  <2> SUFFICES ASSUME wsOpen, ~late, NEW i \in DOMAIN polls' PROVE polls'[i].stage = "answered"
    BY <1>2 DEF wsOpen
  <2>1. CASE polls'[i] = Answer
    BY <2>1 DEF Answer
  <2>2. CASE polls'[i] # Answer
    <3>1. polls'[i].stage = "reading" => \E j \in DOMAIN polls : polls[j].stage = "reading"
      BY <2>2, PollsStep DEF PollsKept
    <3>2. polls'[i].stage # "reading"
      BY <3>1 DEF GreetInv
    <3>3. polls' \in Seq(PollsUnderWay)
      BY TypeNext DEF TypeInv
    <3>4. polls'[i].stage \in {"answered", "reading"}
      <4>1. polls'[i] \in PollsUnderWay
        BY <3>3, InDomain
      <4> QED
        BY <4>1 DEF PollsUnderWay
    <3> QED
      BY <3>2, <3>4
  <2> QED
    BY <2>1, <2>2
<1>3. CASE ServerStep /\ UNCHANGED feedVars
  <2>1. frames' = frames \/ \E event : frames' = Append(frames, event)
    BY <1>3 DEF ServerStep, Submit, Throttled, Settle, AddAlert, Tick, Broadcast
  <2>2. frames # <<>> => frames' # <<>> /\ frames'[1] = frames[1]
    BY <1>1, <2>1
  <2> QED
    BY <1>2, <1>3, <2>2 DEF feedVars, viewVars, GreetInv, wsOpen
<1>4. CASE PollTimer \/ UNCHANGED vars
  <2>1. UNCHANGED <<ws, greeted, late, frames, view>>
    BY <1>4 DEF PollTimer, vars, serverVars, feedVars, viewVars
  <2> QED
    BY <1>2, <2>1 DEF GreetInv, wsOpen
<1>5. ASSUME NEW i \in DOMAIN polls,
             PollDropped(i) \/ PollHead(i) \/ PollBody(i) \/ PollFails(i)
      PROVE  GreetInv'
  <2>1. UNCHANGED <<ws, greeted, late, frames>>
    BY <1>5 DEF PollDropped, PollHead, PollBody, PollFails, serverVars
  <2>2. view' = view \/ view' \in Views
    BY <1>5, PollsType DEF PollDropped, PollHead, PollBody, PollFails, viewVars, ApplySnapshot
  <2> QED
    BY <1>2, <2>1, <2>2, NoViewIsNone DEF GreetInv, wsOpen
<1>6. CASE Connect
  BY <1>6 DEF Connect, viewVars, GreetInv, wsOpen
<1>7. CASE OnOpen
  <2>1. frames' = frames /\ view' = view /\ polls' = polls
    BY <1>7 DEF OnOpen, serverVars
  <2>2. ~late' => \A i \in DOMAIN polls : polls[i].stage = "answered"
    <3>1. \A i \in DOMAIN polls : polls[i].stage \in {"answered", "reading"}
      BY TypeIsOK DEF TypeOK
    <3> QED
      BY <1>7, <3>1 DEF OnOpen
  <2> QED
    BY <1>7, <2>1, <2>2 DEF OnOpen, GreetInv, wsOpen
<1>8. CASE OnMessage
  <2> DEFINE event == Head(frames)
  <2>1. event \in Events /\ event = frames[1]
    BY <1>8, HeadOfFrames DEF OnMessage
  <2>2. ~greeted => event.type = "hello"
    BY <1>8, <2>1 DEF OnMessage, GreetInv, wsOpen
  <2>3. greeted'
    BY <1>8, <2>2 DEF OnMessage
  <2>4. view' \in Views
    <3>1. CASE event.type = "hello"
      <4>1. event.state \in Views
        BY <2>1, <3>1 DEF Events
      <4> QED
        BY <1>8, <3>1, <4>1 DEF OnMessage, ApplySnapshot
    <3>2. CASE event.type # "hello"
      <4>1. view # NoView /\ view \in Views
        BY <1>1, <2>2, <3>2 DEF GreetInv
      <4>2. view' = Reduce(view, event)
        BY <1>8, <3>2, <4>1 DEF OnMessage
      <4> QED
        BY <2>1, <4>1, <4>2, ReduceType
    <3> QED
      BY <3>1, <3>2
  <2>5. ws' = ws /\ late' = late /\ wsOpen
    BY <1>8 DEF OnMessage
  <2> QED
    BY <1>2, <2>3, <2>4, <2>5, NoViewIsNone DEF GreetInv, wsOpen
<1>9. CASE OnClose
  BY <1>9 DEF OnClose, GreetInv, wsOpen
<1> QED
  BY <1>3, <1>4, <1>5, <1>6, <1>7, <1>8, <1>9 DEF Next, PollStep, SocketStep
-----------------------------------------------------------------------------
(* What a step of the coordinator does to the snapshot is what its event    *)
(* does to a copy of it, as long as no record was evicted in flight.        *)

SnapshotShape ==
    /\ Snapshot = [requests |-> Snapshot.requests, alerts |-> alerts]
    /\ Snapshot.requests \in Seq(Entries)
    /\ Len(Snapshot.requests) = Len(requestOrder)
    /\ DOMAIN Snapshot.requests = 1 .. Len(requestOrder)
    /\ \A i \in 1 .. Len(requestOrder) :
          /\ requestOrder[i] \in Requests
          /\ Snapshot.requests[i] =
                [id |-> requestOrder[i], status |-> records[requestOrder[i]]]

LEMMA ShapeOfSnapshot == TypeOKServer => SnapshotShape
<1> SUFFICES ASSUME TypeOKServer PROVE SnapshotShape
  OBVIOUS
<1>1. Snapshot \in Views
  BY SnapshotType
<1>2. Snapshot.requests = [i \in DOMAIN requestOrder |->
                      [id |-> requestOrder[i], status |-> records[requestOrder[i]]]]
  BY DEF Snapshot
<1>3. DOMAIN requestOrder = 1 .. Len(requestOrder) /\ Len(requestOrder) \in Nat
        /\ \A i \in DOMAIN requestOrder : requestOrder[i] \in Requests
  BY InDomain DEF TypeOKServer
<1>4. Snapshot.requests \in Seq(Entries) /\ DOMAIN Snapshot.requests = 1 .. Len(requestOrder)
  BY <1>1, <1>2, <1>3 DEF Views
<1>5. Len(Snapshot.requests) = Len(requestOrder)
  BY <1>3, <1>4, LenProperties
<1>6. Snapshot = [requests |-> Snapshot.requests, alerts |-> alerts]
  BY DEF Snapshot
<1> QED
  BY <1>2, <1>3, <1>4, <1>5, <1>6 DEF SnapshotShape

LEMMA SubmitReplayed ==
    ASSUME TypeInv, StoreInv, NEW r \in Requests, Submit(r), TypeOKServer'
    PROVE  Snapshot' = Reduce(Snapshot, Updated(r, "PENDING"))
<1> DEFINE list == Snapshot.requests
           entry == [id |-> r, status |-> "PENDING"]
           new == Take(<<entry>> \o list, RequestCap)
<1>1. SnapshotShape /\ SnapshotShape'
  <2>1. TypeOKServer
    BY DEF TypeInv
  <2> QED
    BY <2>1, ShapeOfSnapshot, PTL
<1>2. /\ records[r] = "none" /\ records' = [records EXCEPT ![r] = "PENDING"]
      /\ requestOrder' = Take(<<r>> \o requestOrder, RequestCap) /\ alerts' = alerts
  BY DEF Submit
<1>3. requestOrder \in Seq(Requests) /\ records \in [Requests -> Statuses]
  BY DEF TypeInv, TypeOKServer
<1>4. Len(requestOrder) \in Nat /\ DOMAIN requestOrder = 1 .. Len(requestOrder)
  BY <1>3, InDomain
<1>5. \A i \in 1 .. Len(requestOrder) :
         requestOrder[i] # r /\ records'[requestOrder[i]] = records[requestOrder[i]]
  BY <1>1, <1>2, <1>3, <1>4 DEF StoreInv, ToSet, SnapshotShape
<1>6. Reduce(Snapshot, Updated(r, "PENDING")) = [Snapshot EXCEPT !.requests = new]
  <2>1. ~ \E i \in DOMAIN list : list[i].id = r
    <3>1. DOMAIN list = 1 .. Len(requestOrder)
      BY <1>1 DEF SnapshotShape
    <3>2. ASSUME NEW i \in 1 .. Len(requestOrder)
          PROVE  list[i].id = requestOrder[i]
      <4>1. list[i] = [id |-> requestOrder[i], status |-> records[requestOrder[i]]]
        BY <1>1 DEF SnapshotShape
      <4> HIDE DEF list
      <4> QED
        BY <4>1
    <3> QED
      BY <1>5, <3>1, <3>2
  <2>2. UpsertRequest(list, r, "PENDING") = new
    BY <2>1 DEF UpsertRequest
  <2> QED
    BY <2>2 DEF Reduce, Updated
<1>7. entry \in Entries
  BY DEF Entries, Statuses
<1>8. Prepended(Entries, entry, list, RequestCap) /\ Prepended(Requests, r, requestOrder, RequestCap)
  <2>1. list \in Seq(Entries)
    BY <1>1 DEF SnapshotShape
  <2> QED
    BY <1>3, <1>7, <2>1, PrependOf, CapsPositive, Zenon
<1> HIDE DEF entry
<1>9. /\ new \in Seq(Entries)
      /\ Len(new) = IF Len(requestOrder) + 1 < RequestCap THEN Len(requestOrder) + 1 ELSE RequestCap
      /\ \A i \in 1 .. Len(new) : new[i] = IF i = 1 THEN entry ELSE list[i - 1]
  BY <1>1, <1>8 DEF Prepended, SnapshotShape
<1>10. /\ Len(requestOrder') =
              IF Len(requestOrder) + 1 < RequestCap THEN Len(requestOrder) + 1 ELSE RequestCap
       /\ \A i \in 1 .. Len(requestOrder') :
             requestOrder'[i] = IF i = 1 THEN r ELSE requestOrder[i - 1]
  BY <1>2, <1>8 DEF Prepended
<1> HIDE DEF new
<1>11. Len(new) = Len(requestOrder') /\ Len(new) \in Nat /\ Len(new) <= Len(requestOrder) + 1
  BY <1>4, <1>9, <1>10
<1>12. ASSUME NEW i \in 1 .. Len(new)
       PROVE  Snapshot'.requests[i] = new[i]
  <2>1. Snapshot'.requests[i] = [id |-> requestOrder'[i], status |-> records'[requestOrder'[i]]]
    BY <1>1, <1>11 DEF SnapshotShape
  <2>2. CASE i = 1
    BY <1>2, <1>3, <1>9, <1>10, <1>11, <2>1, <2>2 DEF entry
  <2>3. CASE i # 1
    <3>1. i - 1 \in 1 .. Len(requestOrder)
      BY <1>4, <1>11, <2>3
    <3>2. new[i] = list[i - 1] /\ requestOrder'[i] = requestOrder[i - 1]
      BY <1>9, <1>10, <1>11, <2>3
    <3>3. list[i - 1] = [id |-> requestOrder[i - 1], status |-> records[requestOrder[i - 1]]]
      BY <1>1, <3>1 DEF SnapshotShape
    <3> QED
      BY <1>5, <2>1, <3>1, <3>2, <3>3
  <2> QED
    BY <2>2, <2>3
<1>13. Snapshot'.requests = new
  <2>1. Snapshot'.requests \in Seq(Entries) /\ Len(Snapshot'.requests) = Len(new)
    BY <1>1, <1>11 DEF SnapshotShape
  <2> QED
    BY <1>9, <1>12, <2>1, SeqEqual
<1>14. Snapshot' = [requests |-> new, alerts |-> alerts]
  BY <1>1, <1>2, <1>13 DEF SnapshotShape
<1>15. [Snapshot EXCEPT !.requests = new] = [requests |-> new, alerts |-> alerts]
  BY <1>1 DEF SnapshotShape
<1> QED
  BY <1>6, <1>14, <1>15

LEMMA SettleReplayed ==
    ASSUME TypeInv, StoreInv, strays = {}, NEW r \in Requests, Settle(r), TypeOKServer'
    PROVE  Snapshot' = Reduce(Snapshot, Updated(r, "ENDED"))
<1> DEFINE list == Snapshot.requests
           entry == [id |-> r, status |-> "ENDED"]
           new == [i \in DOMAIN list |-> IF list[i].id = r THEN entry ELSE list[i]]
<1>1. SnapshotShape /\ SnapshotShape'
  <2>1. TypeOKServer
    BY DEF TypeInv
  <2> QED
    BY <2>1, ShapeOfSnapshot, PTL
<1>2. /\ records[r] = "PENDING" /\ records' = [records EXCEPT ![r] = "ENDED"]
      /\ requestOrder' = requestOrder /\ alerts' = alerts
  BY DEF Settle
<1>3. requestOrder \in Seq(Requests) /\ records \in [Requests -> Statuses]
  BY DEF TypeInv, TypeOKServer
<1>4. DOMAIN requestOrder = 1 .. Len(requestOrder)
  BY <1>3, InDomain
<1>5. \E i \in DOMAIN list : list[i].id = r
  <2>1. r \in ToSet(requestOrder)
    BY <1>2 DEF StoreInv
  <2>2. PICK i \in DOMAIN requestOrder : requestOrder[i] = r
    BY <2>1 DEF ToSet
  <2>3. i \in DOMAIN list /\ list[i].id = r
    <3>1. /\ i \in DOMAIN list
          /\ list[i] = [id |-> requestOrder[i], status |-> records[requestOrder[i]]]
      BY <1>1, <1>4, <2>2 DEF SnapshotShape
    <3> HIDE DEF list
    <3> QED
      BY <2>2, <3>1
  <2> QED
    BY <2>3
<1>6. Reduce(Snapshot, Updated(r, "ENDED")) = [Snapshot EXCEPT !.requests = new]
  <2>1. UpsertRequest(list, r, "ENDED") = new
    BY <1>5 DEF UpsertRequest
  <2> QED
    BY <2>1 DEF Reduce, Updated
<1>7. Snapshot'.requests = new
  <2>1. Snapshot'.requests = [i \in DOMAIN requestOrder |->
                      [id |-> requestOrder[i], status |-> records'[requestOrder[i]]]]
    BY <1>2 DEF Snapshot
  <2>2. DOMAIN list = DOMAIN requestOrder
    BY <1>1, <1>4 DEF SnapshotShape
  <2>3. ASSUME NEW i \in DOMAIN list
        PROVE  [id |-> requestOrder[i], status |-> records'[requestOrder[i]]] = new[i]
    <3>1. /\ requestOrder[i] \in Requests
          /\ list[i] = [id |-> requestOrder[i], status |-> records[requestOrder[i]]]
      BY <1>1, <1>4, <2>2, <2>3 DEF SnapshotShape
    <3>2. new[i] = IF requestOrder[i] = r THEN entry ELSE list[i]
      BY <3>1
    <3> QED
      BY <1>2, <1>3, <3>1, <3>2
  <2> QED
    BY <2>1, <2>2, <2>3
<1> HIDE DEF new
<1>8. Snapshot' = [requests |-> new, alerts |-> alerts]
  BY <1>1, <1>2, <1>7 DEF SnapshotShape
<1>9. [Snapshot EXCEPT !.requests = new] = [requests |-> new, alerts |-> alerts]
  BY <1>1 DEF SnapshotShape
<1> QED
  BY <1>6, <1>8, <1>9

LEMMA AlertReplayed ==
    ASSUME TypeInv, StoreInv, AddAlert
    PROVE  Snapshot' = Reduce(Snapshot, [type |-> "alert", id |-> raised'])
<1>1. alerts \in Seq(AlertIds) /\ raised \in Nat
  BY DEF TypeInv, TypeOKServer
<1>2. raised' = raised + 1 /\ alerts' = Take(<<raised'>> \o alerts, AlertCap)
        /\ requestOrder' = requestOrder /\ records' = records
  BY DEF AddAlert
<1>3. raised' \notin ToSet(alerts)
  <2>1. \A a \in ToSet(alerts) : a <= raised
    BY DEF StoreInv
  <2> QED
    BY <1>1, <1>2, <2>1
<1>4. ~Contains(alerts, raised')
  BY <1>1, <1>3, InDomain DEF Contains, ToSet
<1>5. RemoveFirst(alerts, raised') = alerts
  BY <1>1, <1>4, RemoveFirstOf
<1>6. Snapshot.alerts = alerts
  BY DEF Snapshot
<1>7. Snapshot' = [Snapshot EXCEPT !.alerts = alerts']
  <2> DEFINE list == [i \in DOMAIN requestOrder |->
                      [id |-> requestOrder[i], status |-> records[requestOrder[i]]]]
  <2>1. Snapshot = [requests |-> list, alerts |-> alerts]
    BY DEF Snapshot
  <2>2. Snapshot' = [requests |-> list, alerts |-> alerts']
    BY <1>2 DEF Snapshot
  <2> HIDE DEF list
  <2> QED
    BY <2>1, <2>2
<1> QED
  BY <1>2, <1>5, <1>6, <1>7 DEF Reduce

\* One step of the coordinator: nothing that is shown changes, or one event goes
\* out and does to a copy of the snapshot what the step did to the snapshot.
LEMMA ServerReplayed ==
    ASSUME TypeInv, StoreInv, strays = {}, ServerStep, TypeOKServer'
    PROVE  \/ Snapshot' = Snapshot /\ frames' = frames
           \/ \E event \in Events : Broadcast(event) /\ Snapshot' = Reduce(Snapshot, event)
<1>1. \A r \in Requests, status \in Statuses : Updated(r, status) \in Events
  BY DEF Updated, Events
<1>2. "PENDING" \in Statuses /\ "ENDED" \in Statuses
  BY DEF Statuses
<1>3. ASSUME NEW r \in Requests, Submit(r)
      PROVE  Broadcast(Updated(r, "PENDING")) /\ Snapshot' = Reduce(Snapshot, Updated(r, "PENDING"))
  BY <1>3, SubmitReplayed DEF Submit
<1>4. ASSUME NEW r \in Requests, Settle(r)
      PROVE  Broadcast(Updated(r, "ENDED")) /\ Snapshot' = Reduce(Snapshot, Updated(r, "ENDED"))
  BY <1>4, SettleReplayed DEF Settle
<1>5. ASSUME NEW r \in Requests, Throttled(r)
      PROVE  Snapshot' = Snapshot /\ frames' = frames
  BY <1>5 DEF Throttled, storeVars, Snapshot
<1>6. CASE AddAlert
  <2>1. [type |-> "alert", id |-> raised'] \in Events
    BY <1>6 DEF AddAlert, Events, AlertIds, TypeInv, TypeOKServer
  <2> QED
    BY <1>6, <2>1, AlertReplayed DEF AddAlert
<1>7. CASE Tick
  BY <1>7 DEF Tick, storeVars, Snapshot
<1> QED
  BY <1>1, <1>2, <1>3, <1>4, <1>5, <1>6, <1>7 DEF ServerStep
-----------------------------------------------------------------------------
(* The frames under way lead from what is shown to what the coordinator has. *)

\* vs[i] is what is shown after the first i of the frames fs.
Links(vs, fs) == \A i \in 1 .. Len(fs) : vs[i] = Reduce(vs[i - 1], fs[i])

Leads(vs) ==
    /\ vs \in [0 .. Len(frames) -> Views]
    /\ greeted => vs[0] = view
    /\ Links(vs, frames)
    /\ vs[Len(frames)] = Snapshot

ChainInv ==
    ws # "closed" /\ strays = {} /\ (greeted => ~late) => \E vs : Leads(vs)

LEMMA ChainInit == Init => ChainInv
BY DEF Init, ChainInv

\* One more frame, which takes the snapshot to the new one.
LEMMA ChainGrows ==
    ASSUME TypeInv, TypeInv', NEW vs, Leads(vs), NEW event \in Events,
           frames' = Append(frames, event), Snapshot' = Reduce(Snapshot, event),
           greeted' = greeted, view' = view
    PROVE  \E us : Leads(us)'
<1> DEFINE n == Len(frames)
           path == [i \in 0 .. n + 1 |-> IF i = n + 1 THEN Snapshot' ELSE vs[i]]
<1>1. n \in Nat /\ frames \in Seq(Events)
  BY LenProperties DEF TypeInv
<1>2. /\ Len(frames') = n + 1 /\ frames'[n + 1] = event
      /\ \A i \in 1 .. n : frames'[i] = frames[i]
  BY <1>1, AppendProperties
<1>3. Snapshot' \in Views
  <2>1. TypeOKServer => Snapshot \in Views
    BY SnapshotType
  <2>2. TypeOKServer'
    BY DEF TypeInv
  <2> QED
    BY <1>1, <2>2, ReduceType, SnapshotType DEF TypeInv
<1>4. vs \in [0 .. n -> Views] /\ vs[n] = Snapshot /\ (greeted => vs[0] = view)
        /\ \A i \in 1 .. n : vs[i] = Reduce(vs[i - 1], frames[i])
  BY DEF Leads, Links
<1> HIDE DEF n
<1>5. path \in [0 .. n + 1 -> Views]
  BY <1>1, <1>3, <1>4
<1>6. path[n + 1] = Snapshot' /\ path[0] = vs[0]
  BY <1>1
<1>7. ASSUME NEW i \in 1 .. n + 1
      PROVE  path[i] = Reduce(path[i - 1], frames'[i])
  <2>1. CASE i = n + 1
    <3>1. path[i] = Snapshot' /\ path[i - 1] = vs[n]
      BY <1>1, <2>1
    <3> QED
      BY <1>2, <1>4, <2>1, <3>1
  <2>2. CASE i # n + 1
    <3>1. i \in 1 .. n /\ path[i] = vs[i] /\ path[i - 1] = vs[i - 1]
      BY <1>1, <2>2
    <3> QED
      BY <1>2, <1>4, <3>1
  <2> QED
    BY <2>1, <2>2
<1> HIDE DEF path
<1>8. Links(path, frames')
  BY <1>2, <1>7 DEF Links
<1>9. PICK us : /\ us \in [0 .. n + 1 -> Views] /\ Links(us, frames')
                /\ us[0] = vs[0] /\ us[n + 1] = Snapshot'
  BY <1>5, <1>6, <1>8
<1>10. Leads(us)'
  BY <1>2, <1>4, <1>9 DEF Leads
<1> QED
  BY <1>10

\* The first frame is handled.
LEMMA ChainShrinks ==
    ASSUME TypeInv, NEW vs, Leads(vs), frames # <<>>, frames' = Tail(frames),
           Snapshot' = Snapshot, greeted' => view' = vs[1]
    PROVE  \E us : Leads(us)'
<1> DEFINE n == Len(frames)
           path == [i \in 0 .. n - 1 |-> vs[i + 1]]
<1>1. n \in Nat \ {0} /\ Len(frames') = n - 1 /\ \A i \in 1 .. n - 1 : frames'[i] = frames[i + 1]
  BY HeadOfFrames
<1>2. vs \in [0 .. n -> Views] /\ vs[n] = Snapshot
        /\ \A i \in 1 .. n : vs[i] = Reduce(vs[i - 1], frames[i])
  BY DEF Leads, Links
<1> HIDE DEF n
<1>3. path \in [0 .. n - 1 -> Views] /\ path[n - 1] = Snapshot /\ path[0] = vs[1]
  BY <1>1, <1>2
<1>4. ASSUME NEW i \in 1 .. n - 1
      PROVE  path[i] = Reduce(path[i - 1], frames'[i])
  <2>1. path[i] = vs[i + 1] /\ path[i - 1] = vs[i] /\ i + 1 \in 1 .. n /\ (i + 1) - 1 = i
    BY <1>1
  <2>2. vs[i + 1] = Reduce(vs[(i + 1) - 1], frames[i + 1])
    BY <1>2, <2>1
  <2> QED
    BY <1>1, <2>1, <2>2
<1> HIDE DEF path
<1>5. Links(path, frames')
  BY <1>1, <1>4 DEF Links
<1>6. PICK us : /\ us \in [0 .. n - 1 -> Views] /\ Links(us, frames')
                /\ us[0] = vs[1] /\ us[n - 1] = Snapshot
  BY <1>3, <1>5
<1>7. Leads(us)'
  BY <1>1, <1>6 DEF Leads
<1> QED
  BY <1>7

\* A connection begins with the hello.
LEMMA ChainBegins ==
    ASSUME TypeInv, frames' = <<[type |-> "hello", state |-> Snapshot]>>,
           Snapshot' = Snapshot, ~greeted'
    PROVE  \E us : Leads(us)'
<1> DEFINE us == [i \in 0 .. 1 |-> Snapshot]
<1>1. Snapshot \in Views
  BY SnapshotType DEF TypeInv
<1>2. Len(frames') = 1 /\ frames'[1] = [type |-> "hello", state |-> Snapshot]
  OBVIOUS
<1>3. us \in [0 .. 1 -> Views] /\ us[1] = Snapshot
  BY <1>1
<1>4. Reduce(us[0], frames'[1]) = Snapshot
  BY <1>2 DEF Reduce
<1>5. Links(us, frames')
  BY <1>2, <1>3, <1>4 DEF Links
<1>6. Leads(us)'
  BY <1>2, <1>3, <1>5 DEF Leads
<1> QED
  BY <1>6

LEMMA ChainNext == TypeInv /\ StoreInv /\ GreetInv /\ ChainInv /\ [Next]_vars => ChainInv'
<1> SUFFICES ASSUME TypeInv, StoreInv, GreetInv, ChainInv, [Next]_vars,
                    ws' # "closed", strays' = {}, greeted' => ~late'
             PROVE  \E vs : Leads(vs)'
  BY DEF ChainInv
<1>1. TypeInv' /\ TypeOKServer'
  BY TypeNext DEF TypeInv
<1>2. strays = {}
  BY DEF Next, ServerStep, Submit, Throttled, Settle, AddAlert, Tick, PollTimer, PollStep,
     PollDropped, PollHead, PollBody, PollFails, SocketStep, Connect, OnOpen, OnMessage,
     OnClose, vars, serverVars, storeVars
<1>3. ASSUME UNCHANGED <<storeVars, frames, greeted>>, greeted => view' = view,
             NEW vs, Leads(vs)
      PROVE  Leads(vs)'
  BY <1>3 DEF Leads, Links, storeVars, Snapshot
<1>4. CASE ServerStep /\ UNCHANGED feedVars
  <2>1. UNCHANGED <<ws, greeted, late, view>>
    BY <1>4 DEF feedVars, viewVars
  <2>2. connected
    BY <2>1 DEF StoreInv
  <2>3. PICK vs : Leads(vs)
    BY <1>2, <2>1 DEF ChainInv
  <2>4. CASE Snapshot' = Snapshot /\ frames' = frames
    <3>1. Leads(vs)'
      BY <2>1, <2>3, <2>4 DEF Leads
    <3> QED
      BY <3>1
  <2>5. ASSUME NEW event \in Events, Broadcast(event), Snapshot' = Reduce(Snapshot, event)
        PROVE  \E us : Leads(us)'
    <3>1. frames' = Append(frames, event)
      BY <2>2, <2>5 DEF Broadcast
    <3> QED
      BY <1>1, <2>1, <2>3, <2>5, <3>1, ChainGrows
  <2> QED
    BY <1>1, <1>2, <1>4, <2>4, <2>5, ServerReplayed
<1>5. CASE PollTimer \/ UNCHANGED vars
  <2>1. UNCHANGED <<storeVars, frames, greeted, view, ws, late>>
    BY <1>5 DEF PollTimer, vars, serverVars, feedVars, viewVars
  <2> QED
    BY <1>2, <1>3, <2>1 DEF ChainInv
<1>6. CASE PollStep
  <2>1. PICK i \in DOMAIN polls : PollDropped(i) \/ PollHead(i) \/ PollBody(i) \/ PollFails(i)
    BY <1>6 DEF PollStep
  <2>2. UNCHANGED <<storeVars, frames, greeted, ws, late>>
    BY <2>1 DEF PollDropped, PollHead, PollBody, PollFails, serverVars
  <2>3. greeted => view' = view
    <3>1. CASE PollBody(i)
      BY <2>2, <3>1 DEF PollBody, GreetInv
    <3>2. CASE ~PollBody(i)
      BY <2>1, <3>2 DEF PollDropped, PollHead, PollFails, viewVars
    <3> QED
      BY <3>1, <3>2
  <2> QED
    BY <1>2, <1>3, <2>2, <2>3 DEF ChainInv
<1>7. CASE Connect
  <2>1. ~greeted' /\ Snapshot' = Snapshot
    BY <1>7 DEF Connect, GreetInv, wsOpen, storeVars, Snapshot
  <2> QED
    BY <1>7, <2>1, ChainBegins DEF Connect
<1>8. CASE OnOpen
  <2>1. UNCHANGED <<storeVars, frames>> /\ ~greeted /\ ~greeted' /\ ws # "closed"
    BY <1>8 DEF OnOpen, serverVars, GreetInv, wsOpen
  <2>2. PICK vs : Leads(vs)
    BY <1>2, <2>1 DEF ChainInv
  <2>3. Leads(vs)'
    BY <2>1, <2>2 DEF Leads, Links, storeVars, Snapshot
  <2> QED
    BY <2>3
<1>9. CASE OnMessage
  <2> DEFINE event == Head(frames)
  <2>1. ws # "closed" /\ late' = late /\ frames # <<>> /\ frames' = Tail(frames)
          /\ Snapshot' = Snapshot
    BY <1>9 DEF OnMessage, wsOpen, storeVars, Snapshot
  <2>2. event = frames[1] /\ Len(frames) \in Nat \ {0}
    BY <2>1, HeadOfFrames
  <2>3. (greeted => greeted') /\ (~greeted => event.type = "hello")
    BY <1>9, <2>2 DEF OnMessage, GreetInv, wsOpen
  <2>4. PICK vs : Leads(vs)
    BY <1>2, <2>1, <2>3 DEF ChainInv
  <2>5. vs[1] = Reduce(vs[0], event)
    BY <2>2, <2>4 DEF Leads, Links
  <2>6. view' = vs[1]
    <3>1. CASE event.type = "hello"
      <4>1. view' = event.state
        BY <1>9, <3>1 DEF OnMessage, ApplySnapshot
      <4> QED
        BY <2>5, <3>1, <4>1 DEF Reduce
    <3>2. CASE event.type # "hello"
      <4>1. view # NoView /\ vs[0] = view
        BY <2>3, <2>4, <3>2 DEF GreetInv, Leads
      <4>2. view' = Reduce(view, event)
        BY <1>9, <3>2, <4>1 DEF OnMessage
      <4> QED
        BY <2>5, <4>1, <4>2
    <3> QED
      BY <3>1, <3>2
  <2> QED
    BY <2>1, <2>4, <2>6, ChainShrinks
<1>10. CASE OnClose
  BY <1>10 DEF OnClose
<1> QED
  BY <1>4, <1>5, <1>6, <1>7, <1>8, <1>9, <1>10 DEF Next, SocketStep

\* Replaying the frames is following the links from what is shown.
LEMMA ReplayFollows ==
    ASSUME TypeInv, NEW vs, Leads(vs), greeted
    PROVE  Replay[Len(frames)] = Snapshot
<1> DEFINE n == Len(frames)
           step(f) == [i \in 0 .. n |-> IF i = 0 THEN view ELSE Reduce(f[i - 1], frames[i])]
<1>1. n \in Nat
  BY LenProperties DEF TypeInv
<1>2. vs \in [0 .. n -> Views] /\ vs[0] = view /\ vs[n] = Snapshot
        /\ \A i \in 1 .. n : vs[i] = Reduce(vs[i - 1], frames[i])
  BY DEF Leads, Links
<1>3. vs = step(vs)
  BY <1>1, <1>2
<1>4. Replay = CHOOSE f : f = step(f)
  BY DEF Replay
<1>5. Replay = step(Replay)
  BY <1>3, <1>4
<1> HIDE DEF n
<1>6. /\ Replay[0] = view
      /\ \A i \in 1 .. n : Replay[i] = Reduce(Replay[i - 1], frames[i])
  BY <1>1, <1>5
<1> DEFINE Off == {i \in 0 .. n : Replay[i] # vs[i]}
<1>7. Off = {}
  <2> SUFFICES ASSUME Off # {} PROVE FALSE
    OBVIOUS
  <2>1. Off \in SUBSET Nat
    BY <1>1
  <2>2. PICK i \in Off : \A j \in Off : ~ (<<j, i>> \in OpToRel(<, Nat))
    BY <2>1, NatLessThanWellFounded, WFMin, Zenon
  <2>3. i \in Nat /\ i <= n /\ Replay[i] # vs[i]
    BY <1>1
  <2>4. i # 0
    BY <1>2, <1>6, <2>3
  <2>5. i - 1 \in 0 .. n /\ i - 1 < i /\ i \in 1 .. n
    BY <1>1, <2>3, <2>4
  <2>6. i - 1 \notin Off
    <3>1. \A j \in Off : ~ (j < i)
      BY <2>1, <2>2, Zenon DEF OpToRel
    <3> QED
      BY <2>5, <3>1
  <2>7. Replay[i - 1] = vs[i - 1]
    BY <2>5, <2>6
  <2> QED
    BY <1>2, <1>6, <2>3, <2>5, <2>7
<1>8. Replay[n] = vs[n]
  BY <1>1, <1>7
<1> QED
  BY <1>2, <1>8 DEF n

LEMMA ChainIsCurrent == TypeInv /\ ChainInv => LiveViewCurrent
<1> SUFFICES ASSUME TypeInv, ChainInv, ~late, wsOpen, greeted, strays = {}
             PROVE  Replay[Len(frames)] = Snapshot
  BY DEF LiveViewCurrent, ViewIsCurrent
<1>1. PICK vs : Leads(vs)
  BY DEF ChainInv, wsOpen
<1> QED
  BY <1>1, ReplayFollows

\* store.ts: useLiveState.  While the socket is open, whatever polls are under
\* way, what is shown becomes what the coordinator has once the frames under way
\* have arrived.
THEOREM LiveViewStaysCurrent == Spec => []LiveViewCurrent
BY TypeInit, TypeNext, StoreInit, StoreNext, GreetInit, GreetNext, ChainInit, ChainNext,
   ChainIsCurrent, PTL DEF Spec
=============================================================================
