--------------------------- MODULE TrackerProofs ---------------------------
(***************************************************************************)
(* Theorems about TrackerManager, for any torrents, callers and bounds.    *)
(***************************************************************************)
EXTENDS TrackerManager, TLAPS, SequenceTheorems, FiniteSetTheorems, WellFoundedInduction

----------------------------------------------------------------------------
(* What the operators return.                                              *)

\* A set of natural numbers that is not empty has a least one.
LEMMA LeastNatural ==
  ASSUME NEW S \in SUBSET Nat, S # {}
  PROVE  \E n \in S : \A m \in S : n <= m
<1>1. PICK n \in S : \A m \in S : ~ (<<m, n>> \in OpToRel(<, Nat))
  BY WFMin, NatLessThanWellFounded, Zenon
<1>2. ASSUME NEW m \in S
      PROVE  n <= m
  <2>1. m \in Nat /\ n \in Nat /\ <<m, n>> \in Nat \X Nat
    OBVIOUS
  <2>2. ~ (m < n)
    <3>1. ~ (<<m, n>> \in OpToRel(<, Nat))
      BY <1>1
    <3> QED BY <2>1, <3>1 DEF OpToRel
  <2> QED BY <2>1, <2>2
<1> QED BY <1>2

\* The URLs come round: from any of them each other is some steps ahead.
LEMMA ComesRound ==
  ASSUME NEW n \in Nat \ {0}, NEW from \in 1 .. n, NEW to \in 1 .. n
  PROVE  \E k \in 1 .. n : ((from + k - 1) % n) + 1 = to
<1>1. CASE from < to
  <2>1. to - from \in 1 .. n /\ from + (to - from) - 1 = to - 1
    BY <1>1
  <2>2. (to - 1) % n = to - 1
    OBVIOUS
  <2>3. ((from + (to - from) - 1) % n) + 1 = to
    BY <2>1, <2>2
  <2> QED BY <2>1, <2>3
<1>2. CASE to <= from
  <2>1. n + to - from \in 1 .. n /\ from + (n + to - from) - 1 = n + (to - 1)
    BY <1>2
  <2>2. (n + (to - 1)) % n = to - 1
    OBVIOUS
  <2>3. ((from + (n + to - from) - 1) % n) + 1 = to
    BY <2>1, <2>2
  <2> QED BY <2>1, <2>3
<1> QED BY <1>1, <1>2

\* The members of a tracker that an operator leaves alone.
SameBut(r, s) ==
  /\ s.url = r.url /\ s.queue_ptr = r.queue_ptr /\ s.requeueable = r.requeueable
  /\ s.http_mode = r.http_mode /\ s.update_state = r.update_state /\ s.data = r.data

\* A request is added, if the tracker is in HTTP mode.
LEMMA RequestingIs ==
  ASSUME NEW r \in Tracker, NEW event \in {"started", "update", "stopped", "completed"}
  PROVE  LET s == Requesting(r, event) IN
         /\ s \in Tracker /\ SameBut(r, s)
         /\ s.timer = FALSE /\ s.event = event
         /\ r.http_mode => s.request # "none"
BY DEF Requesting, AddRequest, Added, Announcing, Tracker, SameBut

\* The members that Requesting does not touch, and the request it adds.
LEMMA RequestingKeeps ==
  ASSUME NEW r \in Tracker, NEW event
  PROVE  LET s == Requesting(r, event) IN
         /\ s.requeueable = r.requeueable /\ s.queue_ptr = r.queue_ptr
         /\ r.http_mode => s.request # "none"
BY DEF Requesting, AddRequest, Added, Announcing, Tracker

\* The next HTTP URL is one of the tracker's.
LEMMA HttpUrlIs ==
  ASSUME NEW r \in Tracker, NEW schemes \in Seq(Schemes), r.url \in DOMAIN schemes,
         NEW i \in DOMAIN schemes, schemes[i] = "http"
  PROVE  LET s == HttpUrl(r, schemes) IN
         /\ s \in Tracker /\ s.url \in DOMAIN schemes
         /\ s.http_mode = TRUE
         /\ s.update_state = r.update_state /\ s.data = r.data /\ s.request = r.request
<1> DEFINE after(k) == ((r.url + k - 1) % Len(schemes)) + 1
           Least(k) == /\ schemes[after(k)] = "http"
                       /\ \A j \in 1 .. k - 1 : schemes[after(j)] # "http"
           url == after(CHOOSE k \in 1 .. Len(schemes) : Least(k))
<1>1. /\ Len(schemes) \in Nat \ {0} /\ r.url \in 1 .. Len(schemes)
      /\ i \in 1 .. Len(schemes) /\ DOMAIN schemes = 1 .. Len(schemes)
  OBVIOUS
<1>2. \E k \in 1 .. Len(schemes) : Least(k)
  <2> DEFINE S == {k \in 1 .. Len(schemes) : schemes[after(k)] = "http"}
  <2>1. \E k \in 1 .. Len(schemes) : after(k) = i
    <3> HIDE DEF after
    <3>1. \A f, t \in 1 .. Len(schemes) :
            \E k \in 1 .. Len(schemes) : ((f + k - 1) % Len(schemes)) + 1 = t
      BY <1>1, ComesRound
    <3> QED BY <1>1, <3>1 DEF after
  <2>2. S # {} /\ S \in SUBSET Nat
    <3> HIDE DEF after
    <3> QED BY <2>1
  <2> HIDE DEF S
  <2>3. PICK k \in S : \A m \in S : k <= m
    BY <2>2, LeastNatural
  <2>4. k \in 1 .. Len(schemes) /\ schemes[after(k)] = "http"
    BY <2>3 DEF S
  <2>5. ASSUME NEW j \in 1 .. k - 1
        PROVE  schemes[after(j)] # "http"
    <3>1. j \in 1 .. Len(schemes) /\ ~ (k <= j)
      BY <1>1, <2>4
    <3> HIDE DEF after
    <3> QED BY <2>3, <3>1 DEF S
  <2> HIDE DEF after
  <2> QED BY <2>4, <2>5
<1>3. (CHOOSE k \in 1 .. Len(schemes) : Least(k)) \in 1 .. Len(schemes)
  <2> HIDE DEF Least
  <2> QED BY <1>2
<1>4. url \in 1 .. Len(schemes)
  <2> HIDE DEF Least
  <2>1. \A k \in 1 .. Len(schemes) : after(k) \in 1 .. Len(schemes)
    <3>1. \A n \in Nat \ {0} : \A x \in Int : (x % n) + 1 \in 1 .. n
      OBVIOUS
    <3> QED BY <1>1, <3>1
  <2> HIDE DEF after
  <2> QED BY <1>3, <2>1
<1>5. HttpUrl(r, schemes) = IF r.http_mode THEN r ELSE [r EXCEPT !.http_mode = TRUE, !.url = url]
  BY DEF HttpUrl
<1>6. url \in Nat
  <2> HIDE DEF url
  <2> QED BY <1>1, <1>4
<1> HIDE DEF url
<1> QED BY <1>1, <1>4, <1>5, <1>6 DEF Tracker

----------------------------------------------------------------------------
(* The manager's space.                                                    *)

LEMMA HttpTrackersFinite ==
  ASSUME TypeOK
  PROVE  /\ IsFiniteSet(HttpTrackers) /\ IsFiniteSet(Trackers \ HttpTrackers)
         /\ Trackers = 1 .. Len(urls) /\ Len(urls) \in Nat /\ HttpTrackers \in SUBSET Trackers
         /\ \A t \in Trackers : urls[t] \in Seq(Schemes)
<1>1. urls \in Seq(Seq(Schemes))
  BY TorrentsAssumption DEF TypeOK
<1>2. Trackers = 1 .. Len(urls) /\ Len(urls) \in Nat
  BY <1>1 DEF Trackers
<1>3. IsFiniteSet(Trackers)
  BY <1>2, FS_Interval
<1>4. HttpTrackers \in SUBSET Trackers /\ Trackers \ HttpTrackers \in SUBSET Trackers
  BY DEF HttpTrackers
<1>5. \A t \in Trackers : urls[t] \in Seq(Schemes)
  BY <1>1, <1>2
<1> QED BY <1>2, <1>3, <1>4, <1>5, FS_Subset

\* A tracker's rank is its number among those with an HTTP URL.
LEMMA RankIs ==
  ASSUME TypeOK, NEW t \in HttpTrackers
  PROVE  Rank(t) \in 1 .. Cardinality(HttpTrackers)
<1> DEFINE upto == {u \in HttpTrackers : u <= t}
<1>1. IsFiniteSet(HttpTrackers) /\ t \in Nat
  BY HttpTrackersFinite
<1>2. upto \in SUBSET HttpTrackers /\ t \in upto
  BY <1>1
<1>3. /\ IsFiniteSet(upto) /\ Cardinality(upto) <= Cardinality(HttpTrackers)
      /\ Cardinality(upto) \in Nat /\ Cardinality(HttpTrackers) \in Nat
  BY <1>1, <1>2, FS_Subset, FS_CardinalityType
<1>4. Cardinality(upto) # 0
  BY <1>2, <1>3, FS_EmptySet
<1> QED BY <1>3, <1>4 DEF Rank

\* The trackers with an HTTP URL up to the n-th tracker.
Upto(n) == {u \in HttpTrackers : u <= n}

\* The n-th tracker is one of them, or there are no more than before it.
LEMMA UptoGrows ==
  ASSUME TypeOK, NEW n \in Nat \ {0}
  PROVE  /\ n \in HttpTrackers => Upto(n) = Upto(n - 1) \cup {n} /\ n \notin Upto(n - 1)
         /\ n \notin HttpTrackers => Upto(n) = Upto(n - 1)
<1>1. \A u \in HttpTrackers : u \in Nat
  BY HttpTrackersFinite
<1>2. \A u \in HttpTrackers : u <= n <=> u <= n - 1 \/ u = n
  BY <1>1
<1>3. ~ (n <= n - 1) /\ n <= n
  OBVIOUS
<1> QED BY <1>2, <1>3, Zenon DEF Upto

\* Every rank is that of a tracker: the first one that brings the number of
\* trackers up to it.
LEMMA RankedTracker ==
  ASSUME TypeOK, NEW r \in 1 .. Cardinality(HttpTrackers)
  PROVE  \E t \in HttpTrackers : Rank(t) = r
<1> DEFINE S == {n \in Nat : r <= Cardinality(Upto(n))}
<1>1. /\ IsFiniteSet(HttpTrackers) /\ Len(urls) \in Nat
      /\ \A u \in HttpTrackers : u \in Nat /\ u <= Len(urls) /\ ~ (u <= 0)
  BY HttpTrackersFinite
<1>2. ASSUME NEW n \in Int
      PROVE  IsFiniteSet(Upto(n)) /\ Cardinality(Upto(n)) \in Nat
  <2>1. Upto(n) \in SUBSET HttpTrackers
    BY DEF Upto
  <2> QED BY <1>1, <2>1, FS_Subset, FS_CardinalityType
<1>3. Upto(Len(urls)) = HttpTrackers /\ Upto(0) = {}
  BY <1>1, Zenon DEF Upto
<1>4. Cardinality(HttpTrackers) \in Nat
  BY <1>1, FS_CardinalityType
<1>5. Len(urls) \in S
  <2>1. r <= Cardinality(Upto(Len(urls)))
    BY <1>3, <1>4
  <2> QED BY <1>1, <2>1
<1>6. 0 \notin S
  <2>1. Cardinality(Upto(0)) = 0
    BY <1>3, FS_EmptySet
  <2> QED BY <2>1
<1>7. PICK t \in S : \A m \in S : t <= m
  <2>1. S \in SUBSET Nat /\ S # {}
    BY <1>5
  <2> HIDE DEF S
  <2> QED BY <2>1, LeastNatural
<1>8. t \in Nat \ {0} /\ t - 1 \in Nat /\ r <= Cardinality(Upto(t))
  BY <1>6, <1>7
<1>9. Cardinality(Upto(t - 1)) \in Nat /\ IsFiniteSet(Upto(t - 1))
  BY <1>2, <1>8
<1>10. Cardinality(Upto(t - 1)) < r
  <2>1. t - 1 \notin S
    <3> HIDE DEF S
    <3> QED BY <1>7, <1>8
  <2> QED BY <1>8, <1>9, <2>1
<1>11. CASE t \in HttpTrackers
  <2>1. Upto(t) = Upto(t - 1) \cup {t} /\ t \notin Upto(t - 1)
    BY <1>8, <1>11, UptoGrows
  <2>2. Cardinality(Upto(t)) = Cardinality(Upto(t - 1)) + 1
    BY <1>9, <2>1, FS_AddElement
  <2>3. Cardinality(Upto(t)) = r
    BY <1>8, <1>9, <1>10, <2>2
  <2> QED BY <1>11, <2>3 DEF Rank, Upto
<1>12. CASE t \notin HttpTrackers
  <2>1. Upto(t) = Upto(t - 1)
    BY <1>8, <1>12, UptoGrows
  <2> QED BY <1>8, <1>9, <1>10, <2>1
<1> QED BY <1>11, <1>12

\* The manager's space: its entries, and how many there are.
IsSpace(space, n) == space \in Seq(Trackers \cup {0}) /\ Len(space) = n

LEMMA PopulatedIs ==
  ASSUME TypeOK
  PROVE  /\ IsSpace(Populated, Len(manager_space) + Cardinality(HttpTrackers))
         /\ Len(manager_space) \in Nat /\ Cardinality(HttpTrackers) \in Nat
<1> DEFINE m == Len(manager_space)
           n == Cardinality(HttpTrackers)
<1>1. m \in Nat /\ n \in Nat /\ HttpTrackers \in SUBSET Trackers
  BY HttpTrackersFinite, FS_CardinalityType DEF TypeOK
<1>2. ASSUME NEW i \in 1 .. m + n
      PROVE  Populated[i] \in Trackers \cup {0}
  <2>1. CASE i <= m
    <3>1. i \in 1 .. m /\ manager_space[i] \in Trackers \cup {0}
      BY <1>1, <2>1 DEF TypeOK
    <3>2. Populated[i] = manager_space[i]
      BY <2>1 DEF Populated
    <3> QED BY <3>1, <3>2
  <2>2. CASE ~ (i <= m)
    <3>1. i - m \in 1 .. n
      BY <1>1, <2>2
    <3>2. \E t \in HttpTrackers : Rank(t) = i - m
      BY <3>1, RankedTracker
    <3>3. Populated[i] = CHOOSE t \in HttpTrackers : Rank(t) = i - m
      BY <2>2 DEF Populated
    <3>4. Populated[i] \in HttpTrackers
      BY <3>2, <3>3, Zenon
    <3> QED BY <1>1, <3>4
  <2> QED BY <2>1, <2>2
<1>3. DOMAIN Populated = 1 .. m + n /\ Populated = [i \in 1 .. m + n |-> Populated[i]]
  BY DEF Populated
<1> HIDE DEF m, n
<1>4. Populated \in Seq(Trackers \cup {0}) /\ Len(Populated) = m + n
  <2>1. m + n \in Nat
    BY <1>1
  <2> QED BY <1>2, <1>3, <2>1
<1> QED BY <1>1, <1>4 DEF IsSpace, m, n

LEMMA NulledIs ==
  ASSUME TypeOK, NEW P
  PROVE  IsSpace(Nulled(P), Len(manager_space))
BY DEF TypeOK, Nulled, IsSpace

LEMMA SentIs ==
  ASSUME TypeOK, NEW P, SentToProtocolSpace(P)
  PROVE  IsSpace(manager_space', Len(manager_space)) /\ trkrs_in_trkrspace' \in Int
<1>1. Cardinality(Met(P)) \in Nat
  <2>1. Met(P) \in SUBSET (1 .. Len(manager_space)) /\ Len(manager_space) \in Nat
    BY DEF Met, TypeOK
  <2>2. IsFiniteSet(1 .. Len(manager_space))
    BY <2>1, FS_Interval
  <2>3. IsFiniteSet(Met(P))
    BY <2>1, <2>2, FS_Subset
  <2> QED BY <2>3, FS_CardinalityType
<1> QED BY <1>1, NulledIs DEF SentToProtocolSpace, TypeOK

LEMMA ReturnedIs ==
  ASSUME TypeOK, NEW t \in Trackers, Returned(t)
  PROVE  IsSpace(manager_space', Len(manager_space)) /\ trkrs_in_trkrspace' \in Int
BY DEF TypeOK, Returned, IsSpace

----------------------------------------------------------------------------
(* Type correctness.                                                       *)

\* Members of the trackers beside a manager's space of n entries.
AreTrackers(f, n) ==
  /\ f \in [Trackers -> Tracker]
  /\ \A t \in Trackers : f[t].url \in DOMAIN urls[t] /\ f[t].queue_ptr \in 0 .. n

\* What the other variables hold.
ControlTyped ==
  /\ first_count \in FirstCounts
  /\ current_state \in States /\ looping \in BOOLEAN
  /\ swarm \in SUBSET Trackers
  /\ asked \in [Callers -> Requests \cup {"none"}]
  /\ starts \in Nat

LEMMA TypeParts ==
  ASSUME TypeOK
  PROVE  ControlTyped /\ AreTrackers(trkr, Len(manager_space)) /\ Len(manager_space) \in Nat
BY DEF TypeOK, ControlTyped, AreTrackers

LEMMA TypeFromParts ==
  ASSUME TypeOK, urls' = urls, ControlTyped', trkrs_in_trkrspace' \in Int,
         NEW n \in Nat, IsSpace(manager_space', n), AreTrackers(trkr', n)
  PROVE  TypeOK'
<1>1. Trackers' = Trackers
  BY DEF Trackers
<1>2. urls' \in Torrents
  BY DEF TypeOK
<1>3. manager_space' \in Seq(Trackers' \cup {0}) /\ Len(manager_space') = n
  BY <1>1 DEF IsSpace
<1>4. /\ trkr' \in [Trackers' -> Tracker]
      /\ \A t \in Trackers' : trkr'[t].url \in DOMAIN urls'[t]
                              /\ trkr'[t].queue_ptr \in 0 .. Len(manager_space')
  BY <1>1, <1>3, Zenon DEF AreTrackers
<1> QED BY <1>2, <1>3, <1>4 DEF TypeOK, ControlTyped

\* The parts after a step that changes some trackers and lets the others be.
LEMMA TrackersFrom ==
  ASSUME TypeOK, NEW n \in Nat, Len(manager_space) <= n, NEW f, NEW P,
         f = [t \in Trackers |-> IF t \in P THEN f[t] ELSE trkr[t]],
         \A t \in Trackers : t \in P =>
           /\ f[t] \in Tracker /\ f[t].url \in DOMAIN urls[t] /\ f[t].queue_ptr \in 0 .. n
  PROVE  AreTrackers(f, n)
<1>1. AreTrackers(trkr, Len(manager_space)) /\ Len(manager_space) \in Nat
  BY TypeParts
<1>2. ASSUME NEW t \in Trackers
      PROVE  f[t] \in Tracker /\ f[t].url \in DOMAIN urls[t] /\ f[t].queue_ptr \in 0 .. n
  <2>1. CASE t \in P
    BY <2>1, Zenon
  <2>2. CASE t \notin P
    <3>1. f[t] = trkr[t]
      BY <2>2, Zenon
    <3>2. trkr[t].queue_ptr \in 0 .. n
      BY <1>1 DEF AreTrackers
    <3> QED BY <1>1, <3>1, <3>2 DEF AreTrackers
  <2> QED BY <2>1, <2>2
<1>3. f \in [Trackers -> Tracker]
  BY <1>2, Zenon
<1> QED BY <1>2, <1>3 DEF AreTrackers

\* Steps that only write the control variables.
LEMMA ControlStepTyped ==
  ASSUME TypeOK, ControlTyped', UNCHANGED <<urls, manager_space, trkrs_in_trkrspace, trkr>>
  PROVE  TypeOK'
<1>1. AreTrackers(trkr', Len(manager_space)) /\ Len(manager_space) \in Nat
  BY TypeParts
<1>2. IsSpace(manager_space', Len(manager_space)) /\ trkrs_in_trkrspace' \in Int
  BY DEF TypeOK, IsSpace
<1> QED BY <1>1, <1>2, TypeFromParts

\* The request of every tracker of a set is added, and it leaves the space.
LEMMA RequestsTyped ==
  ASSUME TypeOK, urls' = urls, ControlTyped', NEW P, NEW S,
         NEW event \in {"started", "update", "stopped", "completed"},
         trkr' = [t \in Trackers |-> IF t \in P THEN Requesting(trkr[t], event) ELSE trkr[t]],
         SentToProtocolSpace(S)
  PROVE  TypeOK'
<1>1. AreTrackers(trkr, Len(manager_space)) /\ Len(manager_space) \in Nat
  BY TypeParts
<1>2. ASSUME NEW t \in Trackers, t \in P
      PROVE  /\ trkr'[t] \in Tracker /\ trkr'[t].url \in DOMAIN urls[t]
             /\ trkr'[t].queue_ptr \in 0 .. Len(manager_space)
  <2>1. trkr'[t] = Requesting(trkr[t], event)
    BY <1>2, Zenon
  <2>2. trkr[t] \in Tracker
    BY <1>1 DEF AreTrackers
  <2>3. trkr'[t] \in Tracker /\ SameBut(trkr[t], trkr'[t])
    BY <2>1, <2>2, RequestingIs, Zenon
  <2> QED BY <1>1, <2>3, Zenon DEF AreTrackers, SameBut
<1>3. trkr' = [t \in Trackers |-> IF t \in P THEN trkr'[t] ELSE trkr[t]]
  BY Zenon
<1>4. AreTrackers(trkr', Len(manager_space))
  <2>1. Len(manager_space) <= Len(manager_space)
    BY <1>1
  <2> QED BY <1>1, <1>2, <1>3, <2>1, TrackersFrom, Zenon
<1>5. IsSpace(manager_space', Len(manager_space)) /\ trkrs_in_trkrspace' \in Int
  BY SentIs
<1> QED BY <1>1, <1>4, <1>5, TypeFromParts

\* A tracker that is started.
LEMMA StartedIs ==
  ASSUME TypeOK, NEW t \in HttpTrackers
  PROVE  LET s == Started(t) IN
         /\ s \in Tracker /\ s.url \in DOMAIN urls[t]
         /\ s.queue_ptr \in 0 .. Len(manager_space) + Cardinality(HttpTrackers)
         /\ s.http_mode = TRUE /\ s.timer = TRUE
         /\ s.update_state = trkr[t].update_state /\ s.data = trkr[t].data
         /\ s.request = trkr[t].request
<1> DEFINE h == HttpUrl(trkr[t], urls[t])
           p == QueuePtr(Len(manager_space) + Rank(t))
<1>1. trkr[t] \in Tracker /\ trkr[t].url \in DOMAIN urls[t] /\ urls[t] \in Seq(Schemes)
  BY TypeParts, HttpTrackersFinite DEF AreTrackers
<1>2. PICK i \in DOMAIN urls[t] : urls[t][i] = "http"
  BY DEF HttpTrackers, has_http
<1>3. /\ h \in Tracker /\ h.url \in DOMAIN urls[t] /\ h.http_mode = TRUE
      /\ h.update_state = trkr[t].update_state /\ h.data = trkr[t].data
      /\ h.request = trkr[t].request
  BY <1>1, <1>2, HttpUrlIs
<1>4. p \in 0 .. Len(manager_space) + Cardinality(HttpTrackers)
  <2>1. /\ Len(manager_space) \in Nat /\ Cardinality(HttpTrackers) \in Nat
        /\ Rank(t) \in 1 .. Cardinality(HttpTrackers)
    BY PopulatedIs, RankIs
  <2>2. p = Len(manager_space) + Rank(t) \/ p = 0
    BY DEF QueuePtr
  <2> HIDE DEF p
  <2> QED BY <2>1, <2>2
<1>5. Started(t) = [h EXCEPT !.queue_ptr = p, !.requeueable = TRUE, !.only_one_timer = TRUE,
                             !.timer = TRUE]
  BY DEF Started
<1>6. p \in Nat
  <2> HIDE DEF p
  <2> QED BY <1>4, PopulatedIs
<1> HIDE DEF h, p
<1> QED BY <1>3, <1>4, <1>5, <1>6 DEF Tracker

LEMMA StartTyped ==
  ASSUME TypeOK, StartState
  PROVE  TypeOK'
<1> DEFINE n == Len(manager_space) + Cardinality(HttpTrackers)
<1>1. IsSpace(manager_space', n) /\ n \in Nat /\ Len(manager_space) <= n
  BY PopulatedIs DEF StartState
<1>2. trkrs_in_trkrspace' \in Int
  <2>1. Cardinality(Trackers \ HttpTrackers) \in Nat
    BY HttpTrackersFinite, FS_CardinalityType
  <2> QED BY <2>1 DEF StartState, TypeOK
<1>3. ControlTyped' /\ urls' = urls
  BY TypeParts DEF StartState, ControlTyped, States, Trackers
<1>4. AreTrackers(trkr', n)
  <2>1. trkr' = [t \in Trackers |-> IF t \in HttpTrackers THEN trkr'[t] ELSE trkr[t]]
    BY Zenon DEF StartState, HttpTrackers
  <2>2. ASSUME NEW t \in Trackers, t \in HttpTrackers
        PROVE  trkr'[t] \in Tracker /\ trkr'[t].url \in DOMAIN urls[t] /\ trkr'[t].queue_ptr \in 0 .. n
    <3>1. trkr'[t] = Started(t)
      BY <2>2, Zenon DEF StartState, HttpTrackers
    <3> QED BY <2>2, <3>1, StartedIs, Zenon
  <2> HIDE DEF n
  <2> QED BY <1>1, <2>1, <2>2, TrackersFrom, Zenon
<1> HIDE DEF n
<1> QED BY <1>1, <1>2, <1>3, <1>4, TypeFromParts, Zenon

\* What shutdown_state leaves of a tracker that it meets, and of the others.
LEMMA ShutdownIs ==
  ASSUME TypeOK, NEW event \in {"stopped", "completed"}, ShutdownState(event),
         NEW t \in Trackers
  PROVE  /\ trkr'[t] \in Tracker /\ trkr'[t].url = trkr[t].url
         /\ trkr'[t].queue_ptr = trkr[t].queue_ptr
         /\ t \in Waiting => trkr'[t].requeueable = FALSE
         /\ t \notin Waiting => trkr'[t] = trkr[t]
<1>1. trkr[t] \in Tracker
  BY TypeParts DEF AreTrackers
<1>2. CASE t \in Waiting
  <2> DEFINE r == [trkr[t] EXCEPT !.timer = FALSE, !.requeueable = FALSE]
  <2>1. trkr'[t] = IF r.update_state THEN Requesting(r, event) ELSE r
    BY <1>2, Zenon DEF ShutdownState
  <2>2. /\ r \in Tracker /\ r.url = trkr[t].url /\ r.queue_ptr = trkr[t].queue_ptr
        /\ r.requeueable = FALSE
    BY <1>1 DEF Tracker
  <2> HIDE DEF r
  <2>3. event \in {"started", "update", "stopped", "completed"}
    OBVIOUS
  <2>4. Requesting(r, event) \in Tracker /\ SameBut(r, Requesting(r, event))
    BY <2>2, <2>3, RequestingIs, Zenon
  <2> QED BY <1>2, <2>1, <2>2, <2>4, Zenon DEF SameBut
<1>3. CASE t \notin Waiting
  <2>1. trkr'[t] = trkr[t]
    BY <1>3, Zenon DEF ShutdownState
  <2> QED BY <1>1, <1>3, <2>1
<1> QED BY <1>2, <1>3

LEMMA ShutdownTyped ==
  ASSUME TypeOK, NEW event \in {"stopped", "completed"}, ShutdownState(event)
  PROVE  TypeOK'
<1>1. AreTrackers(trkr, Len(manager_space)) /\ Len(manager_space) \in Nat
  BY TypeParts
<1>2. IsSpace(manager_space', Len(manager_space)) /\ trkrs_in_trkrspace' \in Int
  BY SentIs DEF ShutdownState
<1>3. ControlTyped' /\ urls' = urls
  BY TypeParts DEF ShutdownState, ControlTyped, States, Requests, Trackers
<1>4. trkr' = [t \in Trackers |-> IF t \in Waiting THEN trkr'[t] ELSE trkr[t]]
  BY Zenon DEF ShutdownState
<1>5. ASSUME NEW t \in Trackers, t \in Waiting
      PROVE  /\ trkr'[t] \in Tracker /\ trkr'[t].url \in DOMAIN urls[t]
             /\ trkr'[t].queue_ptr \in 0 .. Len(manager_space)
  BY <1>1, ShutdownIs, Zenon DEF AreTrackers
<1>6. AreTrackers(trkr', Len(manager_space))
  <2>1. Len(manager_space) <= Len(manager_space)
    BY <1>1
  <2> QED BY <1>1, <1>4, <1>5, <2>1, TrackersFrom, Zenon
<1> QED BY <1>1, <1>2, <1>3, <1>6, TypeFromParts, Zenon

\* A callback about one tracker.
LEMMA OneTrackerTyped ==
  ASSUME TypeOK, urls' = urls, ControlTyped', trkrs_in_trkrspace' \in Int,
         IsSpace(manager_space', Len(manager_space)), NEW t \in Trackers, NEW s,
         trkr' = [trkr EXCEPT ![t] = s],
         s \in Tracker, s.url = trkr[t].url, s.queue_ptr = trkr[t].queue_ptr
  PROVE  TypeOK'
<1>1. AreTrackers(trkr, Len(manager_space)) /\ Len(manager_space) \in Nat
  BY TypeParts
<1>2. AreTrackers(trkr', Len(manager_space))
  BY <1>1 DEF AreTrackers
<1> QED BY <1>1, <1>2, TypeFromParts, Zenon

LEMMA TimeoutTyped ==
  ASSUME TypeOK, NEW t \in Trackers, TrackerTimeoutHandler(t)
  PROVE  TypeOK'
<1> DEFINE event == IF trkr[t].update_state THEN "update" ELSE "started"
<1>1. trkr[t] \in Tracker
  BY TypeParts DEF AreTrackers
<1>2. IsSpace(manager_space', Len(manager_space)) /\ trkrs_in_trkrspace' \in Int
  BY NulledIs DEF TrackerTimeoutHandler, TypeOK
<1>3. ControlTyped' /\ urls' = urls
  BY TypeParts DEF TrackerTimeoutHandler, ControlTyped, Trackers
<1>4. trkr' = [trkr EXCEPT ![t] = Requesting(trkr[t], event)]
  BY DEF TrackerTimeoutHandler
<1>5. event \in {"started", "update", "stopped", "completed"}
  OBVIOUS
<1> HIDE DEF event
<1>6. Requesting(trkr[t], event) \in Tracker /\ SameBut(trkr[t], Requesting(trkr[t], event))
  BY <1>1, <1>5, RequestingIs, Zenon
<1> QED BY <1>2, <1>3, <1>4, <1>6, OneTrackerTyped DEF SameBut

LEMMA CurlTyped ==
  ASSUME TypeOK, NEW t \in Trackers, CurlSends(t)
  PROVE  TypeOK'
<1> DEFINE s == [trkr[t] EXCEPT !.request =
                      IF trkr[t].event \in {"stopped", "completed"} THEN "leaving" ELSE "joining"]
<1>1. trkr[t] \in Tracker
  BY TypeParts DEF AreTrackers
<1>2. IsSpace(manager_space', Len(manager_space)) /\ trkrs_in_trkrspace' \in Int
  BY DEF CurlSends, TypeOK, IsSpace
<1>3. ControlTyped' /\ urls' = urls
  BY TypeParts DEF CurlSends, ControlTyped, Trackers
<1>4. trkr' = [trkr EXCEPT ![t] = s]
  BY DEF CurlSends
<1>5. s \in Tracker /\ s.url = trkr[t].url /\ s.queue_ptr = trkr[t].queue_ptr
  BY <1>1 DEF Tracker
<1> HIDE DEF s
<1> QED BY <1>2, <1>3, <1>4, <1>5, OneTrackerTyped

LEMMA OutcomeTyped ==
  ASSUME TypeOK, NEW t \in Trackers, ChkFinished(t)
  PROVE  TypeOK'
<1>1. trkr[t] \in Tracker
  BY TypeParts DEF AreTrackers
<1>2. \A body \in Bodies : Appended(t, body) \in Bodies
  BY <1>1 DEF Appended, Tracker
<1>3. ASSUME NEW body \in Bodies, DoOnSuccess(t, body)
      PROVE  TypeOK'
  <2> DEFINE data == Appended(t, body)
             s == [Finished(trkr[t]) EXCEPT !.data = data, !.update_state = Accepted(t, data)]
  <2>1. IsSpace(manager_space', Len(manager_space)) /\ trkrs_in_trkrspace' \in Int
    BY <1>3, ReturnedIs DEF DoOnSuccess
  <2>2. ControlTyped' /\ urls' = urls
    BY <1>3, TypeParts DEF DoOnSuccess, Joined, ControlTyped, Trackers
  <2>3. trkr' = [trkr EXCEPT ![t] = s]
    BY <1>3 DEF DoOnSuccess
  <2>4. s \in Tracker /\ s.url = trkr[t].url /\ s.queue_ptr = trkr[t].queue_ptr
    <3>1. data \in Bodies /\ Accepted(t, data) \in BOOLEAN
      BY <1>1, <1>2 DEF Accepted, Tracker
    <3> HIDE DEF data
    <3> QED BY <1>1, <3>1 DEF Finished, Tracker
  <2> HIDE DEF s
  <2> QED BY <2>1, <2>2, <2>3, <2>4, OneTrackerTyped
<1>4. ASSUME NEW body \in Bodies, SuccessThrows(t, body)
      PROVE  TypeOK'
  <2>1. ControlTyped'
    BY <1>4, TypeParts DEF SuccessThrows, Terminates, ControlTyped, Trackers, States
  <2> QED BY <1>4, <2>1, ControlStepTyped DEF SuccessThrows, Terminates
<1>5. ASSUME NEW body \in Bodies, DoOnFailure(t, body)
      PROVE  TypeOK'
  <2> DEFINE s == [Finished(trkr[t]) EXCEPT !.data = Appended(t, body)]
  <2>1. IsSpace(manager_space', Len(manager_space)) /\ trkrs_in_trkrspace' \in Int
    BY <1>5, ReturnedIs DEF DoOnFailure
  <2>2. ControlTyped' /\ urls' = urls
    BY <1>5, TypeParts DEF DoOnFailure, Joined, ControlTyped, Trackers
  <2>3. trkr' = [trkr EXCEPT ![t] = s]
    BY <1>5 DEF DoOnFailure
  <2>4. s \in Tracker /\ s.url = trkr[t].url /\ s.queue_ptr = trkr[t].queue_ptr
    <3>1. Appended(t, body) \in Bodies
      BY <1>2
    <3> QED BY <1>1, <3>1 DEF Finished, Tracker
  <2> HIDE DEF s
  <2> QED BY <2>1, <2>2, <2>3, <2>4, OneTrackerTyped
<1> QED BY <1>3, <1>4, <1>5, Zenon DEF ChkFinished

LEMMA ForcedTyped ==
  ASSUME TypeOK, ReannounceState \/ ForceReannounceState
  PROVE  TypeOK'
<1>1. ControlTyped' /\ urls' = urls
  BY TypeParts DEF ReannounceState, ForceReannounceState, ControlTyped, States, Trackers
<1>2. PICK P : /\ trkr' = [t \in Trackers |-> IF t \in P THEN Requesting(trkr[t], "update")
                                                       ELSE trkr[t]]
               /\ SentToProtocolSpace(P)
  BY Zenon DEF ReannounceState, ForceReannounceState
<1>3. "update" \in {"started", "update", "stopped", "completed"}
  OBVIOUS
<1> QED BY <1>1, <1>2, <1>3, RequestsTyped, Zenon

LEMMA NextTyped ==
  ASSUME TypeOK, [Next]_vars
  PROVE  TypeOK'
<1>1. CASE CurrentState
  <2>1. CASE StartTrackerManager \/ StartMeetsNull
    <3>1. ControlTyped'
      BY <2>1, TypeParts DEF StartTrackerManager, StartMeetsNull, Terminates, ControlTyped,
                             States, Trackers
    <3> QED BY <2>1, <3>1, ControlStepTyped DEF StartTrackerManager, StartMeetsNull, Terminates
  <2>2. CASE StartState
    BY <2>2, StartTyped
  <2>3. CASE ReannounceState \/ ForceReannounceState
    BY <2>3, ForcedTyped
  <2>4. CASE \E event \in {"stopped", "completed"} : ShutdownState(event)
    BY <2>4, ShutdownTyped
  <2> QED BY <1>1, <2>1, <2>2, <2>3, <2>4 DEF CurrentState
<1>2. CASE Callbacks
  BY <1>2, TimeoutTyped, CurlTyped, OutcomeTyped DEF Callbacks
<1>3. CASE OtherThreads
  <2>1. ASSUME NEW c \in Callers, NEW request \in Requests, Call(c, request)
        PROVE  TypeOK'
    <3>1. ControlTyped'
      BY <2>1, TypeParts DEF Call, ControlTyped, Trackers
    <3> QED BY <2>1, <3>1, ControlStepTyped DEF Call
  <2>2. ASSUME NEW c \in Callers, Store(c)
        PROVE  TypeOK'
    <3>1. ControlTyped'
      BY <2>2, TypeParts DEF Store, ControlTyped, Trackers, States
    <3> QED BY <2>2, <3>1, ControlStepTyped DEF Store
  <2>3. ASSUME NEW c \in Callers, StoreLost(c)
        PROVE  TypeOK'
    <3>1. ControlTyped'
      BY <2>3, TypeParts DEF StoreLost, ControlTyped, Trackers
    <3> QED BY <2>3, <3>1, ControlStepTyped DEF StoreLost
  <2> QED BY <1>3, <2>1, <2>2, <2>3, Zenon DEF OtherThreads
<1>4. CASE UNCHANGED vars
  BY <1>4 DEF vars, TypeOK, Trackers, AreTrackers
<1> QED BY <1>1, <1>2, <1>3, <1>4 DEF Next

LEMMA InitTyped == Init => TypeOK
<1> SUFFICES ASSUME Init PROVE TypeOK
  OBVIOUS
<1>1. urls \in Torrents
  BY DEF Init
<1>2. urls \in Seq(Seq(Schemes)) /\ \A t \in DOMAIN urls : urls[t] # <<>>
  BY <1>1, TorrentsAssumption
<1>3. \A t \in Trackers : 1 \in DOMAIN urls[t]
  BY <1>2 DEF Trackers
<1>4. first_count \in FirstCounts /\ trkrs_in_trkrspace = first_count
  BY DEF Init
<1>5. trkrs_in_trkrspace \in Int
  BY <1>4, FirstCountsAssumption
<1>6. \A t \in Trackers : trkr[t] \in Tracker /\ trkr[t].url = 1 /\ trkr[t].queue_ptr = 0
  BY DEF Init, Tracker, Bodies
<1>7. trkr \in [Trackers -> Tracker]
  <2>1. trkr = [t \in Trackers |-> trkr[t]]
    BY DEF Init
  <2> QED BY <1>6, <2>1, Zenon
<1>8. Len(manager_space) = 0 /\ manager_space \in Seq(Trackers \cup {0})
  <2>1. manager_space = <<>>
    BY DEF Init
  <2> QED BY <2>1
<1>9. \A t \in Trackers : trkr[t].url \in DOMAIN urls[t]
                          /\ trkr[t].queue_ptr \in 0 .. Len(manager_space)
  BY <1>3, <1>6, <1>8
<1>10. /\ current_state \in States /\ looping \in BOOLEAN /\ swarm \in SUBSET Trackers
       /\ asked \in [Callers -> Requests \cup {"none"}] /\ starts \in Nat
  BY DEF Init, States
<1> QED BY <1>1, <1>4, <1>5, <1>7, <1>8, <1>9, <1>10, Zenon DEF TypeOK

\* The state stays well typed: an announce URL is one of the tracker's, and
\* queue_ptr within the manager's space, whatever is pushed to it.
THEOREM TypeCorrect == Spec => []TypeOK
<1>1. Init => TypeOK
  BY InitTyped
<1>2. TypeOK /\ [Next]_vars => TypeOK'
  BY NextTyped
<1> QED BY <1>1, <1>2, PTL DEF Spec

----------------------------------------------------------------------------
(* The drivers of the trackers, and what they are told.                    *)

\* Before the manager is started its callbacks do not run, and a caller can only
\* start it.
Unasked ==
  /\ ~looping /\ current_state \in {"unset", "inactive", "start", "terminated"}
  /\ \A c \in Callers : asked[c] \in {"none", "start"}

Unstarted ==
  starts = 0 =>
    /\ Unasked /\ manager_space = <<>> /\ swarm = {}
    /\ \A t \in Trackers :
         trkr[t].request = "none" /\ trkr[t].data = "" /\ trkr[t].update_state = FALSE

\* A tracker in its first run.  Its text is kept, so that an acceptance that came
\* with a failure is what the next answers are parsed as.
Driven(r, isPeer) ==
  /\ r.http_mode
  /\ r.timer # (r.request # "none")
  /\ r.update_state => r.data = "accepted"
  /\ r.data = "accepted" => isPeer
  /\ r.request # "leaving"
  /\ r.request # "none" => r.event = IF r.update_state THEN "update" ELSE "started"

AllDriven == \A t \in HttpTrackers : InFirstRun(t) => Driven(trkr[t], t \in swarm)

DriverInv == TypeOK /\ Unstarted /\ AllDriven

\* Steps that do not touch the trackers.
LEMMA ControlStepDriven ==
  ASSUME DriverInv, UNCHANGED <<urls, manager_space, trkr, swarm, starts>>,
         starts = 0 => Unasked'
  PROVE  Unstarted' /\ AllDriven'
BY DEF DriverInv, Unstarted, AllDriven, InFirstRun, HttpTrackers, Trackers, has_http

LEMMA StartDriven ==
  ASSUME DriverInv, StartState
  PROVE  Unstarted' /\ AllDriven'
<1>1. starts \in Nat /\ starts' = starts + 1 /\ swarm' = swarm
  BY DEF DriverInv, TypeOK, StartState
<1>2. Unstarted'
  <2>1. starts' # 0
    BY <1>1
  <2> QED BY <2>1 DEF Unstarted
<1>3. HttpTrackers' = HttpTrackers /\ HttpTrackers \in SUBSET Trackers
  BY DEF StartState, HttpTrackers, Trackers, has_http
<1>4. ASSUME starts = 0, NEW t \in HttpTrackers
      PROVE  Driven(trkr'[t], t \in swarm')
  <2>1. trkr'[t] = Started(t)
    BY <1>3, Zenon DEF StartState, HttpTrackers
  <2>2. /\ trkr'[t].http_mode = TRUE /\ trkr'[t].timer = TRUE
        /\ trkr'[t].update_state = trkr[t].update_state /\ trkr'[t].data = trkr[t].data
        /\ trkr'[t].request = trkr[t].request
    BY <2>1, StartedIs, Zenon DEF DriverInv
  <2>3. trkr[t].request = "none" /\ trkr[t].data = "" /\ trkr[t].update_state = FALSE
    BY <1>3, <1>4 DEF DriverInv, Unstarted
  <2> QED BY <2>2, <2>3 DEF Driven
<1> QED BY <1>1, <1>2, <1>3, <1>4 DEF AllDriven, InFirstRun

\* Requests are added for trackers whose event is right.
LEMMA RequestingDriven ==
  ASSUME NEW r \in Tracker, NEW isPeer \in BOOLEAN, Driven(r, isPeer)
  PROVE  Driven(Requesting(r, IF r.update_state THEN "update" ELSE "started"), isPeer)
<1> DEFINE event == IF r.update_state THEN "update" ELSE "started"
           s == Requesting(r, event)
<1>1. event \in {"started", "update", "stopped", "completed"}
  OBVIOUS
<1> HIDE DEF event
<1>2. /\ SameBut(r, s) /\ s.timer = FALSE /\ s.event = event
      /\ r.http_mode => s.request # "none"
  BY <1>1, RequestingIs, Zenon
<1>3. r.request # "leaving" => s.request # "leaving"
  BY DEF Requesting, AddRequest, Added, Announcing, Tracker
<1> HIDE DEF s
<1> QED BY <1>2, <1>3 DEF SameBut, Driven, event, s

LEMMA ForcedDriven ==
  ASSUME DriverInv, ReannounceState \/ ForceReannounceState
  PROVE  Unstarted' /\ AllDriven'
<1>1. PICK P : /\ \A t \in P : t \in Waiting /\ trkr[t].update_state
               /\ trkr' = [t \in Trackers |-> IF t \in P THEN Requesting(trkr[t], "update")
                                                       ELSE trkr[t]]
               /\ SentToProtocolSpace(P)
  BY Zenon DEF ReannounceState, ForceReannounceState
<1>2. UNCHANGED <<urls, swarm, starts>>
  BY DEF ReannounceState, ForceReannounceState
<1>3. Trackers' = Trackers /\ HttpTrackers' = HttpTrackers /\ HttpTrackers \in SUBSET Trackers
  BY <1>2 DEF HttpTrackers, Trackers, has_http
<1>4. Unstarted'
  <2>1. starts # 0
    BY DEF DriverInv, Unstarted, Unasked, ReannounceState, ForceReannounceState
  <2> QED BY <1>2, <2>1 DEF Unstarted
<1>5. ASSUME NEW t \in HttpTrackers, InFirstRun(t)'
      PROVE  Driven(trkr'[t], t \in swarm')
  <2>1. trkr[t] \in Tracker /\ (t \in swarm) \in BOOLEAN
    BY <1>3 DEF DriverInv, TypeOK
  <2>2. CASE t \in P
    <3>1. trkr'[t] = Requesting(trkr[t], "update")
          /\ "update" = IF trkr[t].update_state THEN "update" ELSE "started"
      BY <1>1, <1>3, <2>2
    <3>2. trkr'[t].requeueable = trkr[t].requeueable
      <4>1. "update" \in {"started", "update", "stopped", "completed"}
        OBVIOUS
      <4>2. SameBut(trkr[t], Requesting(trkr[t], "update"))
        BY <2>1, <4>1, RequestingIs, Zenon
      <4> QED BY <3>1, <4>2, Zenon DEF SameBut
    <3>3. Driven(trkr[t], t \in swarm)
      BY <1>2, <1>5, <3>2 DEF DriverInv, AllDriven, InFirstRun
    <3> QED BY <1>2, <2>1, <3>1, <3>3, RequestingDriven, Zenon
  <2>3. CASE t \notin P
    <3>1. trkr'[t] = trkr[t]
      BY <1>1, <1>3, <2>3, Zenon
    <3>2. Driven(trkr[t], t \in swarm)
      BY <1>2, <1>5, <3>1 DEF DriverInv, AllDriven, InFirstRun
    <3> QED BY <1>2, <3>1, <3>2, Zenon
  <2> QED BY <2>2, <2>3
<1> QED BY <1>3, <1>4, <1>5 DEF AllDriven

\* The shutdown ends the first run of the trackers that it meets.
LEMMA ShutdownDriven ==
  ASSUME DriverInv, NEW event \in {"stopped", "completed"}, ShutdownState(event)
  PROVE  Unstarted' /\ AllDriven'
<1>1. UNCHANGED <<urls, swarm, starts>>
  BY DEF ShutdownState
<1>2. Unstarted'
  <2>1. starts # 0
    BY DEF DriverInv, Unstarted, Unasked, ShutdownState
  <2> QED BY <1>1, <2>1 DEF Unstarted
<1>3. HttpTrackers' = HttpTrackers /\ HttpTrackers \in SUBSET Trackers
  BY <1>1 DEF HttpTrackers, Trackers, has_http
<1>4. ASSUME NEW t \in HttpTrackers, InFirstRun(t)'
      PROVE  Driven(trkr'[t], t \in swarm')
  <2>1. t \notin Waiting
    BY <1>3, <1>4, ShutdownIs DEF DriverInv, InFirstRun
  <2>2. trkr'[t] = trkr[t]
    BY <1>3, <2>1, ShutdownIs DEF DriverInv
  <2> QED BY <1>1, <1>4, <2>2 DEF DriverInv, AllDriven, InFirstRun
<1> QED BY <1>2, <1>3, <1>4 DEF AllDriven

\* A callback about one tracker, while the event loop runs.
LEMMA CallbackDriven ==
  ASSUME DriverInv, looping, UNCHANGED <<urls, starts>>,
         NEW t \in Trackers, NEW s, trkr' = [trkr EXCEPT ![t] = s],
         \A u \in Trackers : u # t => (u \in swarm' <=> u \in swarm),
         s.requeueable = trkr[t].requeueable,
         t \in HttpTrackers /\ Driven(trkr[t], t \in swarm) => Driven(s, t \in swarm')
  PROVE  Unstarted' /\ AllDriven'
<1>1. starts # 0
  BY DEF DriverInv, Unstarted, Unasked
<1>2. Unstarted'
  BY <1>1 DEF Unstarted
<1>3. HttpTrackers' = HttpTrackers /\ HttpTrackers \in SUBSET Trackers
  BY DEF HttpTrackers, Trackers, has_http
<1>4. ASSUME NEW u \in HttpTrackers, InFirstRun(u)'
      PROVE  Driven(trkr'[u], u \in swarm')
  <2>1. trkr \in [Trackers -> Tracker]
    BY DEF DriverInv, TypeOK
  <2>2. trkr'[u] = IF u = t THEN s ELSE trkr[u]
    BY <1>3, <2>1
  <2>3. Driven(trkr[u], u \in swarm)
    <3>1. trkr'[u].requeueable = trkr[u].requeueable
      BY <2>2
    <3> QED BY <1>4, <3>1 DEF DriverInv, AllDriven, InFirstRun
  <2>4. CASE u = t
    <3>1. Driven(s, t \in swarm')
      BY <2>3, <2>4, Zenon
    <3> QED BY <2>2, <2>4, <3>1, Zenon
  <2>5. CASE u # t
    <3>1. trkr'[u] = trkr[u] /\ (u \in swarm' <=> u \in swarm)
      BY <1>3, <2>2, <2>5
    <3> QED BY <2>3, <3>1 DEF Driven
  <2> QED BY <2>4, <2>5
<1> QED BY <1>2, <1>3, <1>4 DEF AllDriven

LEMMA TimeoutDriven ==
  ASSUME DriverInv, NEW t \in Trackers, TrackerTimeoutHandler(t)
  PROVE  Unstarted' /\ AllDriven'
<1> DEFINE s == Requesting(trkr[t], IF trkr[t].update_state THEN "update" ELSE "started")
<1>1. trkr[t] \in Tracker /\ (t \in swarm) \in BOOLEAN
  BY DEF DriverInv, TypeOK
<1>2. looping /\ UNCHANGED <<urls, starts, swarm>> /\ trkr' = [trkr EXCEPT ![t] = s]
  BY DEF TrackerTimeoutHandler
<1>3. Driven(trkr[t], t \in swarm) => Driven(s, t \in swarm')
  BY <1>1, <1>2, RequestingDriven, Zenon
<1>4. s.requeueable = trkr[t].requeueable
  BY <1>1, RequestingKeeps
<1> HIDE DEF s
<1> QED BY <1>2, <1>3, <1>4, CallbackDriven

LEMMA CurlDriven ==
  ASSUME DriverInv, NEW t \in Trackers, CurlSends(t)
  PROVE  Unstarted' /\ AllDriven'
<1> DEFINE s == [trkr[t] EXCEPT !.request =
                      IF trkr[t].event \in {"stopped", "completed"} THEN "leaving" ELSE "joining"]
<1>1. trkr[t] \in Tracker /\ trkr[t].request = "added"
  BY DEF DriverInv, TypeOK, CurlSends
<1>2. looping /\ UNCHANGED <<urls, starts>> /\ trkr' = [trkr EXCEPT ![t] = s]
  BY DEF CurlSends
<1>3. \A u \in Trackers : u # t => (u \in swarm' <=> u \in swarm)
  BY DEF CurlSends
<1>4. ASSUME Driven(trkr[t], t \in swarm)
      PROVE  Driven(s, t \in swarm')
  <2>1. trkr[t].event \in {"started", "update"}
    BY <1>1, <1>4 DEF Driven
  <2>2. swarm' = swarm
    BY <2>1 DEF CurlSends
  <2>3. /\ s.http_mode = trkr[t].http_mode /\ s.timer = trkr[t].timer /\ s.data = trkr[t].data
        /\ s.update_state = trkr[t].update_state /\ s.event = trkr[t].event
        /\ s.request = "joining"
    BY <1>1, <2>1 DEF Tracker
  <2> HIDE DEF s
  <2> QED BY <1>1, <1>4, <2>2, <2>3 DEF Driven
<1>5. s.requeueable = trkr[t].requeueable
  BY <1>1 DEF Tracker
<1> HIDE DEF s
<1> QED BY <1>2, <1>3, <1>4, <1>5, CallbackDriven

\* An answer or a failure: the timer is armed, and only a tracker that accepted
\* the client is taken for one that did.
LEMMA OutcomeDriven ==
  ASSUME DriverInv, NEW t \in Trackers, ChkFinished(t)
  PROVE  Unstarted' /\ AllDriven'
<1>1. trkr[t] \in Tracker
  BY DEF DriverInv, TypeOK
<1>2. ASSUME NEW body \in Bodies, DoOnSuccess(t, body)
      PROVE  Unstarted' /\ AllDriven'
  <2> DEFINE data == Appended(t, body)
             s == [Finished(trkr[t]) EXCEPT !.data = data, !.update_state = Accepted(t, data)]
  <2>1. looping /\ UNCHANGED <<urls, starts>> /\ trkr' = [trkr EXCEPT ![t] = s]
    BY <1>2 DEF DoOnSuccess
  <2>2. swarm' = Joined(t, body) /\ trkr[t].request \in {"joining", "leaving"}
    BY <1>2 DEF DoOnSuccess
  <2>3. \A u \in Trackers : u # t => (u \in swarm' <=> u \in swarm)
    BY <2>2 DEF Joined
  <2>4. /\ s.http_mode = trkr[t].http_mode /\ s.timer = TRUE /\ s.request = "none"
        /\ s.data = data /\ s.update_state = Accepted(t, data)
        /\ s.requeueable = trkr[t].requeueable
    BY <1>1 DEF Finished, Tracker
  <2>5. data = "accepted" => trkr[t].data = "accepted" \/ body = "accepted"
    BY DEF Appended
  <2>6. Accepted(t, data) => trkr[t].update_state \/ data = "accepted"
    BY DEF Accepted
  <2>8. trkr[t].data = "accepted" => data = "accepted"
    BY DEF Appended
  <2> HIDE DEF s, data
  <2>7. Driven(trkr[t], t \in swarm) => Driven(s, t \in swarm')
    BY <2>2, <2>4, <2>5, <2>6, <2>8 DEF Driven, Joined
  <2> QED BY <2>1, <2>3, <2>4, <2>7, CallbackDriven
<1>3. ASSUME NEW body \in Bodies, SuccessThrows(t, body)
      PROVE  Unstarted' /\ AllDriven'
  <2>1. starts # 0
    BY <1>3 DEF DriverInv, Unstarted, Unasked, SuccessThrows
  <2> QED BY <1>3, <2>1, ControlStepDriven DEF SuccessThrows, Terminates
<1>4. ASSUME NEW body \in Bodies, DoOnFailure(t, body)
      PROVE  Unstarted' /\ AllDriven'
  <2> DEFINE s == [Finished(trkr[t]) EXCEPT !.data = Appended(t, body)]
  <2>1. looping /\ UNCHANGED <<urls, starts>> /\ trkr' = [trkr EXCEPT ![t] = s]
    BY <1>4 DEF DoOnFailure
  <2>2. /\ s.http_mode = trkr[t].http_mode /\ s.timer = TRUE /\ s.request = "none"
        /\ s.data = Appended(t, body) /\ s.update_state = trkr[t].update_state
        /\ s.requeueable = trkr[t].requeueable
    BY <1>1 DEF Finished, Tracker
  <2>3. /\ swarm' = Joined(t, body) /\ trkr[t].request \in {"added", "joining", "leaving"}
        /\ trkr[t].request = "added" => body = ""
    BY <1>1, <1>4 DEF DoOnFailure, Tracker
  <2>4. \A u \in Trackers : u # t => (u \in swarm' <=> u \in swarm)
    BY <2>3 DEF Joined
  <2>5. /\ Appended(t, body) = "accepted" => trkr[t].data = "accepted" \/ body = "accepted"
        /\ trkr[t].data = "accepted" => Appended(t, body) = "accepted"
    BY DEF Appended
  <2> HIDE DEF s
  <2>6. Driven(trkr[t], t \in swarm) => Driven(s, t \in swarm')
    BY <2>2, <2>3, <2>5 DEF Driven, Joined
  <2> QED BY <2>1, <2>2, <2>4, <2>6, CallbackDriven
<1> QED BY <1>2, <1>3, <1>4, Zenon DEF ChkFinished

\* A caller of a manager not yet started stores a start, or nothing.
LEMMA OtherThreadsUnasked ==
  ASSUME TypeOK, Unasked, OtherThreads \/ UNCHANGED vars
  PROVE  Unasked'
<1>1. asked \in [Callers -> Requests \cup {"none"}]
  BY DEF TypeOK
<1>2. ASSUME NEW c \in Callers, NEW request \in Requests, Call(c, request)
      PROVE  Unasked'
  <2>1. request = "start"
    BY <1>2 DEF Call, Unasked
  <2> QED BY <1>1, <1>2, <2>1 DEF Call, Unasked
<1>3. ASSUME NEW c \in Callers, Store(c)
      PROVE  Unasked'
  BY <1>1, <1>3 DEF Store, Unasked
<1>4. ASSUME NEW c \in Callers, StoreLost(c)
      PROVE  Unasked'
  BY <1>1, <1>4 DEF StoreLost, Unasked
<1>5. CASE UNCHANGED vars
  BY <1>5 DEF vars, Unasked
<1> QED BY <1>2, <1>3, <1>4, <1>5, Zenon DEF OtherThreads

LEMMA NextDriven ==
  ASSUME DriverInv, [Next]_vars
  PROVE  DriverInv'
<1>1. TypeOK'
  BY NextTyped DEF DriverInv
<1>2. CASE CurrentState
  <2>1. CASE StartTrackerManager \/ StartMeetsNull
    <3>1. /\ UNCHANGED <<urls, manager_space, trkr, swarm, starts, asked>>
          /\ looping' => looping
          /\ current_state' \in {"inactive", "terminated"}
      BY <2>1 DEF StartTrackerManager, StartMeetsNull, Terminates
    <3>2. Unasked => Unasked'
      BY <3>1 DEF Unasked
    <3> QED BY <1>1, <3>1, <3>2, ControlStepDriven DEF DriverInv, Unstarted
  <2>2. CASE StartState
    BY <2>2, <1>1, StartDriven DEF DriverInv
  <2>3. CASE ReannounceState \/ ForceReannounceState
    BY <2>3, <1>1, ForcedDriven DEF DriverInv
  <2>4. CASE \E event \in {"stopped", "completed"} : ShutdownState(event)
    BY <2>4, <1>1, ShutdownDriven DEF DriverInv
  <2> QED BY <1>2, <2>1, <2>2, <2>3, <2>4 DEF CurrentState
<1>3. CASE Callbacks
  BY <1>1, <1>3, TimeoutDriven, CurlDriven, OutcomeDriven, Zenon DEF Callbacks, DriverInv
<1>4. CASE OtherThreads \/ UNCHANGED vars
  <2>1. UNCHANGED <<urls, manager_space, trkr, swarm, starts>>
    BY <1>4 DEF OtherThreads, Call, Store, StoreLost, vars
  <2>2. ASSUME Unasked
        PROVE  Unasked'
    BY <1>4, <2>2, OtherThreadsUnasked DEF DriverInv
  <2> QED BY <1>1, <2>1, <2>2, ControlStepDriven DEF DriverInv, Unstarted
<1> QED BY <1>2, <1>3, <1>4 DEF Next

LEMMA InitDriven == Init => DriverInv
<1> SUFFICES ASSUME Init PROVE DriverInv
  OBVIOUS
<1>1. TypeOK
  BY InitTyped
<1>2. /\ starts = 0 /\ ~looping /\ current_state = "unset" /\ manager_space = <<>> /\ swarm = {}
      /\ \A c \in Callers : asked[c] = "none"
  BY DEF Init
<1>3. \A t \in Trackers :
        trkr[t].request = "none" /\ trkr[t].data = "" /\ trkr[t].update_state = FALSE
  BY DEF Init
<1>4. AllDriven
  BY <1>2 DEF AllDriven, InFirstRun
<1> QED BY <1>1, <1>2, <1>3, <1>4 DEF DriverInv, Unstarted, Unasked

LEMMA AlwaysDriven == Spec => []DriverInv
<1>1. Init => DriverInv
  BY InitDriven
<1>2. DriverInv /\ [Next]_vars => DriverInv'
  BY NextDriven
<1> QED BY <1>1, <1>2, PTL DEF Spec

\* Each tracker with an HTTP URL has its timer or a request in curl's hands, and
\* never both, whatever the callers ask for and in whatever order their stores
\* meet the event loop (tracker_timeout_handler, the outcomes, force_reannounce).
THEOREM OneDriverForever == Spec => []EachTrackerHasOneDriver
<1>1. DriverInv => EachTrackerHasOneDriver
  BY DEF DriverInv, AllDriven, Driven, EachTrackerHasOneDriver
<1> QED BY <1>1, AlwaysDriven, PTL

\* An announcement without an event goes only to a tracker that has this client as
\* a peer, and such a tracker is told "started" no more; one that has it not is told
\* "started", whatever texts it sent and whatever status they came with
\* (tracker_timeout_handler, do_on_success, easy_callback).
THEOREM EventsFitForever == Spec => []EventFitsSwarm
<1>1. DriverInv => EventFitsSwarm
  BY DEF DriverInv, AllDriven, Driven, EventFitsSwarm
<1> QED BY <1>1, AlwaysDriven, PTL

----------------------------------------------------------------------------
(* The two spaces.                                                         *)

\* No two trackers have the same rank.
LEMMA RanksDiffer ==
  ASSUME TypeOK, NEW t \in HttpTrackers, NEW u \in HttpTrackers, Rank(t) = Rank(u)
  PROVE  t = u
<1>1. ASSUME NEW a \in HttpTrackers, NEW b \in HttpTrackers, a < b
      PROVE  Rank(a) # Rank(b)
  <2>1. a \in Nat /\ b \in Nat /\ \A v \in HttpTrackers : v \in Nat
    BY HttpTrackersFinite
  <2>2. Upto(a) \in SUBSET Upto(b) /\ b \in Upto(b) /\ b \notin Upto(a)
    <3>1. \A v \in HttpTrackers : v <= a => v <= b
      BY <1>1, <2>1
    <3>2. b <= b /\ ~ (b <= a)
      BY <1>1, <2>1
    <3> QED BY <3>1, <3>2, Zenon DEF Upto
  <2>3. IsFiniteSet(Upto(b))
    <3>1. Upto(b) \in SUBSET HttpTrackers
      BY DEF Upto
    <3> QED BY <3>1, HttpTrackersFinite, FS_Subset
  <2>4. Cardinality(Upto(b)) # Cardinality(Upto(a))
    BY <2>2, <2>3, FS_Subset
  <2> QED BY <2>4 DEF Upto, Rank
<1>2. t \in Nat /\ u \in Nat
  BY HttpTrackersFinite
<1>3. ~ (t < u) /\ ~ (u < t)
  BY <1>1
<1> QED BY <1>2, <1>3

\* A tracker's entry in its first run.  One whose queue_ptr dangles keeps it
\* while curl has its request.
Placed(r, t, space) ==
  /\ r.requeueable = TRUE
  /\ r.queue_ptr \in {0, Rank(t)}
  /\ space[Rank(t)] = IF r.queue_ptr = 0 \/ r.request = "none" THEN t ELSE 0

AllPlaced ==
  /\ Len(manager_space) = Cardinality(HttpTrackers)
  /\ \A t \in HttpTrackers : Placed(trkr[t], t, manager_space)

\* A tracker without an HTTP URL is never started.
Idle(r) == r.timer = FALSE /\ r.request = "none"

WaitingHttp == {t \in HttpTrackers : trkr[t].request = "none"}

CountAgrees ==
  /\ InSpace <= Cardinality(WaitingHttp)
  /\ AllLinked => InSpace = Cardinality(WaitingHttp)

OthersIdle == \A t \in Trackers \ HttpTrackers : Idle(trkr[t])

\* Nothing is counted before the start.
Counted ==
  starts = 0 => trkrs_in_trkrspace = first_count /\ \A t \in Trackers : Idle(trkr[t])

FirstRunSpaces == FirstRun => AllPlaced /\ CountAgrees /\ OthersIdle

SpacesInv == DriverInv /\ Counted /\ FirstRunSpaces

\* The count and what it comes to from its first value change together.
LEMMA InSpaceIs ==
  ASSUME TypeOK
  PROVE  /\ InSpace \in Int /\ Len(urls) \in Nat /\ first_count \in Int
         /\ trkrs_in_trkrspace = InSpace + (first_count - Len(urls))
<1>1. Len(urls) \in Nat /\ first_count \in Int /\ trkrs_in_trkrspace \in Int
  BY HttpTrackersFinite, FirstCountsAssumption DEF TypeOK
<1> QED BY <1>1 DEF InSpace

LEMMA InSpaceMoves ==
  ASSUME TypeOK, UNCHANGED <<urls, first_count>>, NEW k \in Int,
         trkrs_in_trkrspace' = trkrs_in_trkrspace + k
  PROVE  InSpace' = InSpace + k
<1>1. Len(urls) \in Nat /\ first_count \in Int /\ trkrs_in_trkrspace \in Int
  BY InSpaceIs DEF TypeOK
<1> QED BY <1>1 DEF InSpace

LEMMA WaitingHttpFinite ==
  ASSUME TypeOK
  PROVE  IsFiniteSet(WaitingHttp) /\ Cardinality(WaitingHttp) \in Nat
<1>1. WaitingHttp \in SUBSET HttpTrackers
  BY DEF WaitingHttp
<1> QED BY <1>1, HttpTrackersFinite, FS_Subset, FS_CardinalityType

\* A tracker that a loop over the space meets stands at its rank, and only there.
LEMMA StandsAtRank ==
  ASSUME TypeOK, AllPlaced, NEW i \in DOMAIN manager_space, manager_space[i] # 0
  PROVE  manager_space[i] \in HttpTrackers /\ Rank(manager_space[i]) = i
<1>1. i \in 1 .. Cardinality(HttpTrackers)
  BY DEF AllPlaced, TypeOK
<1>2. PICK t \in HttpTrackers : Rank(t) = i
  BY <1>1, RankedTracker
<1>3. manager_space[i] = t
  BY <1>2 DEF AllPlaced, Placed
<1> QED BY <1>2, <1>3

LEMMA WaitsAtRank ==
  ASSUME TypeOK, AllPlaced, NEW t \in Waiting
  PROVE  /\ t \in HttpTrackers /\ Rank(t) \in DOMAIN manager_space /\ manager_space[Rank(t)] = t
         /\ trkr[t].queue_ptr = 0 \/ trkr[t].request = "none"
<1>1. PICK i \in DOMAIN manager_space : manager_space[i] = t
  BY DEF Waiting
<1>2. t # 0
  BY DEF Waiting
<1>3. t \in HttpTrackers /\ Rank(t) = i
  BY <1>1, <1>2, StandsAtRank
<1> QED BY <1>1, <1>2, <1>3 DEF AllPlaced, Placed

\* A loop over the space meets each of the trackers it looks for once.
LEMMA MetOnce ==
  ASSUME TypeOK, AllPlaced, NEW P \in SUBSET Waiting
  PROVE  IsFiniteSet(P) /\ Cardinality(Met(P)) = Cardinality(P) /\ Cardinality(P) \in Nat
<1>1. P \in SUBSET HttpTrackers
  BY WaitsAtRank
<1>2. IsFiniteSet(P)
  BY <1>1, HttpTrackersFinite, FS_Subset
<1>3. 0 \notin P
  BY DEF Waiting
<1>4. ASSUME NEW i \in Met(P)
      PROVE  manager_space[i] \in P /\ Rank(manager_space[i]) = i
  <2>1. i \in DOMAIN manager_space /\ manager_space[i] \in P
    BY DEF Met
  <2> QED BY <1>3, <2>1, StandsAtRank
<1>5. ASSUME NEW t \in P
      PROVE  Rank(t) \in Met(P)
  <2>1. Rank(t) \in DOMAIN manager_space /\ manager_space[Rank(t)] = t /\ t # 0
    BY <1>3, WaitsAtRank
  <2>2. ASSUME NEW j \in 1 .. Rank(t) - 1, manager_space[j] = t
        PROVE  FALSE
    <3>1. DOMAIN manager_space = 1 .. Len(manager_space) /\ Len(manager_space) \in Nat
      BY DEF TypeOK
    <3>2. j \in DOMAIN manager_space /\ j # Rank(t)
      BY <2>1, <3>1
    <3> QED BY <2>1, <2>2, <3>2, StandsAtRank
  <2> QED BY <2>1, <2>2 DEF Met
<1> DEFINE rank == [t \in P |-> Rank(t)]
<1>6. rank \in Bijection(P, Met(P))
  <2>1. rank \in [P -> Met(P)]
    BY <1>5
  <2>2. \A a, b \in P : rank[a] = rank[b] => a = b
    BY <1>1, RanksDiffer
  <2>3. \A i \in Met(P) : \E t \in P : rank[t] = i
    BY <1>4
  <2> HIDE DEF rank
  <2> QED BY <2>1, <2>2, <2>3 DEF Bijection, Injection, IsInjective, Surjection
<1>7. Cardinality(Met(P)) = Cardinality(P)
  <2>1. ExistsBijection(P, Met(P))
    BY <1>6, Zenon DEF ExistsBijection
  <2> QED BY <1>2, <2>1, FS_Bijection
<1> QED BY <1>2, <1>7, FS_CardinalityType

\* Only the entry of a tracker sent to protocol space is nulled.
LEMMA NulledAtRank ==
  ASSUME TypeOK, AllPlaced, NEW P \in SUBSET HttpTrackers, NEW t \in HttpTrackers
  PROVE  Nulled(P)[Rank(t)] = IF t \in P /\ trkr[t].queue_ptr # 0 THEN 0
                              ELSE manager_space[Rank(t)]
<1>1. Rank(t) \in DOMAIN manager_space
  <2>1. DOMAIN manager_space = 1 .. Len(manager_space)
    BY DEF TypeOK
  <2> QED BY <2>1, RankIs DEF AllPlaced
<1>2. ASSUME NEW u \in P
      PROVE  trkr[u].queue_ptr = Rank(t) <=> u = t /\ trkr[t].queue_ptr # 0
  <2>1. trkr[u].queue_ptr \in {0, Rank(u)} /\ trkr[t].queue_ptr \in {0, Rank(t)}
    BY DEF AllPlaced, Placed
  <2>2. Rank(t) # 0 /\ Rank(u) # 0
    BY RankIs
  <2>3. Rank(u) = Rank(t) => u = t
    BY RanksDiffer
  <2> QED BY <2>1, <2>2, <2>3
<1> QED BY <1>1, <1>2, Zenon DEF Nulled

\* No step but the start makes a tracker requeueable.
LEMMA FirstRunBefore ==
  ASSUME UNCHANGED <<urls, first_count, starts>>, FirstRun',
         \A t \in Trackers : trkr'[t].requeueable => trkr[t].requeueable
  PROVE  FirstRun
<1>1. HttpTrackers' = HttpTrackers /\ HttpTrackers \in SUBSET Trackers
  BY DEF HttpTrackers, Trackers, has_http
<1> QED BY <1>1 DEF FirstRun, InFirstRun

\* Trackers that wait are sent to protocol space.
LEMMA SentAgree ==
  ASSUME SpacesInv, FirstRun, NEW P \in SUBSET Waiting,
         UNCHANGED <<urls, first_count, starts>>, SentToProtocolSpace(P),
         \A t \in Trackers : t \notin P => trkr'[t] = trkr[t],
         \A t \in P : /\ trkr'[t].requeueable = trkr[t].requeueable
                      /\ trkr'[t].queue_ptr = trkr[t].queue_ptr /\ trkr'[t].request # "none"
  PROVE  FirstRunSpaces'
<1>1. TypeOK /\ AllPlaced /\ CountAgrees /\ OthersIdle
  BY DEF SpacesInv, DriverInv, FirstRunSpaces
<1>2. /\ Trackers' = Trackers /\ HttpTrackers' = HttpTrackers /\ HttpTrackers \in SUBSET Trackers
      /\ \A t : Rank(t)' = Rank(t)
  BY DEF HttpTrackers, Trackers, has_http, Rank
<1>3. P \in SUBSET HttpTrackers
  BY <1>1, WaitsAtRank
<1>4. AllPlaced'
  <2>1. Len(manager_space') = Cardinality(HttpTrackers)
    BY <1>1, NulledIs DEF SentToProtocolSpace, IsSpace, AllPlaced
  <2>2. ASSUME NEW t \in HttpTrackers
        PROVE  Placed(trkr'[t], t, manager_space')
    <3>1. manager_space'[Rank(t)] = IF t \in P /\ trkr[t].queue_ptr # 0 THEN 0
                                    ELSE manager_space[Rank(t)]
      BY <1>1, <1>3, NulledAtRank DEF SentToProtocolSpace
    <3>2. Placed(trkr[t], t, manager_space)
      BY <1>1 DEF AllPlaced
    <3>3. CASE t \in P
      <4>1. trkr'[t].request # "none" /\ manager_space[Rank(t)] = t
        BY <1>1, <3>3, WaitsAtRank
      <4> QED BY <3>1, <3>2, <3>3, <4>1 DEF Placed
    <3>4. CASE t \notin P
      <4>1. trkr'[t] = trkr[t] /\ manager_space'[Rank(t)] = manager_space[Rank(t)]
        BY <1>2, <3>1, <3>4
      <4> QED BY <3>2, <4>1 DEF Placed
    <3> QED BY <3>3, <3>4
  <2> QED BY <1>2, <2>1, <2>2 DEF AllPlaced, Placed
<1>5. CountAgrees'
  <2>1. IsFiniteSet(P) /\ Cardinality(Met(P)) = Cardinality(P) /\ Cardinality(P) \in Nat
    BY <1>1, MetOnce
  <2>2. IsFiniteSet(WaitingHttp) /\ Cardinality(WaitingHttp) \in Nat
    BY <1>1, WaitingHttpFinite
  <2>3. WaitingHttp' = WaitingHttp \ P
    BY <1>2, <1>3 DEF WaitingHttp
  <2>4. Cardinality(WaitingHttp') = Cardinality(WaitingHttp) - Cardinality(WaitingHttp \cap P)
    BY <2>2, <2>3, FS_Difference
  <2>5. Cardinality(WaitingHttp \cap P) \in Nat /\ Cardinality(WaitingHttp \cap P) <= Cardinality(P)
    BY <2>1, FS_Intersection, FS_CardinalityType
  <2>6. InSpace' = InSpace - Cardinality(P) /\ InSpace \in Int
    <3>1. /\ trkrs_in_trkrspace' = trkrs_in_trkrspace + (0 - Cardinality(P))
          /\ 0 - Cardinality(P) \in Int
      BY <1>1, <2>1 DEF SentToProtocolSpace, TypeOK
    <3>2. InSpace' = InSpace + (0 - Cardinality(P)) /\ InSpace \in Int
      BY <1>1, <3>1, InSpaceMoves, InSpaceIs
    <3> QED BY <2>1, <3>2
  <2>7. InSpace' <= Cardinality(WaitingHttp')
    BY <1>1, <2>1, <2>2, <2>4, <2>5, <2>6 DEF CountAgrees
  <2>8. ASSUME AllLinked'
        PROVE  InSpace' = Cardinality(WaitingHttp')
    <3>1. \A t \in HttpTrackers : trkr[t].queue_ptr # 0
      BY <1>2, <2>8 DEF AllLinked
    <3>2. P \in SUBSET WaitingHttp
      BY <1>1, <3>1, WaitsAtRank DEF WaitingHttp
    <3>3. WaitingHttp \cap P = P
      BY <3>2
    <3>4. InSpace = Cardinality(WaitingHttp)
      BY <1>1, <3>1 DEF CountAgrees, AllLinked
    <3> QED BY <2>2, <2>4, <2>6, <3>3, <3>4
  <2> QED BY <2>7, <2>8 DEF CountAgrees
<1>6. OthersIdle'
  BY <1>1, <1>2, <1>3 DEF OthersIdle
<1> QED BY <1>4, <1>5, <1>6 DEF FirstRunSpaces

\* A tracker whose request has ended comes back.
LEMMA ReturnedAgrees ==
  ASSUME SpacesInv, FirstRun, NEW t \in Trackers, trkr[t].request # "none",
         UNCHANGED <<urls, first_count, starts>>, Returned(t),
         NEW s, trkr' = [trkr EXCEPT ![t] = s], s.request = "none",
         s.requeueable = trkr[t].requeueable, s.queue_ptr = trkr[t].queue_ptr
  PROVE  FirstRunSpaces'
<1>1. TypeOK /\ AllPlaced /\ CountAgrees /\ OthersIdle
  BY DEF SpacesInv, DriverInv, FirstRunSpaces
<1>2. /\ Trackers' = Trackers /\ HttpTrackers' = HttpTrackers /\ HttpTrackers \in SUBSET Trackers
      /\ \A u : Rank(u)' = Rank(u)
  BY DEF HttpTrackers, Trackers, has_http, Rank
<1>3. t \in HttpTrackers
  BY <1>1 DEF OthersIdle, Idle
<1>4. trkr'[t] = s /\ \A u \in Trackers : u # t => trkr'[u] = trkr[u]
  BY <1>1 DEF TypeOK
<1>5. /\ manager_space' = [i \in DOMAIN manager_space |->
                             IF trkr[t].queue_ptr = i THEN t ELSE manager_space[i]]
      /\ trkrs_in_trkrspace' = trkrs_in_trkrspace + 1
  BY <1>1, <1>3 DEF Returned, AllPlaced, Placed
<1>6. AllPlaced'
  <2>1. Len(manager_space') = Cardinality(HttpTrackers)
    BY <1>1, ReturnedIs DEF IsSpace, AllPlaced
  <2>2. ASSUME NEW u \in HttpTrackers
        PROVE  Placed(trkr'[u], u, manager_space')
    <3>1. Rank(u) \in DOMAIN manager_space /\ Rank(u) # 0
      <4>1. DOMAIN manager_space = 1 .. Len(manager_space)
        BY <1>1 DEF TypeOK
      <4> QED BY <1>1, <4>1, RankIs DEF AllPlaced
    <3>2. manager_space'[Rank(u)] = IF trkr[t].queue_ptr = Rank(u) THEN t
                                    ELSE manager_space[Rank(u)]
      BY <1>5, <3>1
    <3>3. Placed(trkr[u], u, manager_space)
      BY <1>1 DEF AllPlaced
    <3>4. CASE u = t
      BY <1>4, <3>2, <3>3, <3>4 DEF Placed
    <3>5. CASE u # t
      <4>1. trkr[t].queue_ptr \in {0, Rank(t)} /\ Rank(t) # Rank(u)
        BY <1>1, <1>3, <3>5, RanksDiffer DEF AllPlaced, Placed
      <4>2. manager_space'[Rank(u)] = manager_space[Rank(u)] /\ trkr'[u] = trkr[u]
        BY <1>2, <1>4, <3>1, <3>2, <3>5, <4>1
      <4> QED BY <3>3, <4>2 DEF Placed
    <3> QED BY <3>4, <3>5
  <2> QED BY <1>2, <2>1, <2>2 DEF AllPlaced, Placed
<1>7. CountAgrees'
  <2>1. IsFiniteSet(WaitingHttp) /\ Cardinality(WaitingHttp) \in Nat
    BY <1>1, WaitingHttpFinite
  <2>2. WaitingHttp' = WaitingHttp \cup {t} /\ t \notin WaitingHttp
    BY <1>2, <1>3, <1>4 DEF WaitingHttp
  <2>3. Cardinality(WaitingHttp') = Cardinality(WaitingHttp) + 1
    BY <2>1, <2>2, FS_AddElement
  <2>4. AllLinked' <=> AllLinked
    BY <1>2, <1>3, <1>4 DEF AllLinked
  <2>5. InSpace' = InSpace + 1 /\ InSpace \in Int
    BY <1>1, <1>5, InSpaceMoves, InSpaceIs
  <2> QED BY <1>1, <2>1, <2>3, <2>4, <2>5 DEF CountAgrees
<1>8. OthersIdle'
  BY <1>1, <1>2, <1>3, <1>4 DEF OthersIdle
<1> QED BY <1>6, <1>7, <1>8 DEF FirstRunSpaces

\* Steps that leave the trackers where they are.
LEMMA UnmovedAgree ==
  ASSUME SpacesInv, UNCHANGED <<urls, first_count, manager_space, trkrs_in_trkrspace, starts>>,
         \A t \in Trackers : /\ trkr'[t].requeueable = trkr[t].requeueable
                             /\ trkr'[t].queue_ptr = trkr[t].queue_ptr
                             /\ trkr'[t].timer = trkr[t].timer
                             /\ trkr'[t].request = "none" <=> trkr[t].request = "none"
  PROVE  Counted' /\ FirstRunSpaces'
<1>1. /\ Trackers' = Trackers /\ HttpTrackers' = HttpTrackers /\ HttpTrackers \in SUBSET Trackers
      /\ \A u : Rank(u)' = Rank(u)
  BY DEF HttpTrackers, Trackers, has_http, Rank
<1>2. Counted'
  BY <1>1 DEF SpacesInv, Counted, Idle
<1>3. ASSUME FirstRun'
      PROVE  AllPlaced' /\ CountAgrees' /\ OthersIdle'
  <2>1. AllPlaced /\ CountAgrees /\ OthersIdle
    BY <1>3, FirstRunBefore DEF SpacesInv, FirstRunSpaces
  <2>2. AllPlaced'
    BY <1>1, <2>1 DEF AllPlaced, Placed
  <2>3. WaitingHttp' = WaitingHttp /\ (AllLinked' <=> AllLinked) /\ InSpace' = InSpace
    BY <1>1 DEF WaitingHttp, AllLinked, InSpace
  <2>4. OthersIdle'
    BY <1>1, <2>1 DEF OthersIdle, Idle
  <2> QED BY <2>1, <2>2, <2>3, <2>4 DEF CountAgrees
<1> QED BY <1>2, <1>3 DEF FirstRunSpaces

\* The start of the first run: the entries are in the order of the ranks, and
\* what queue_ptr was taken to is its tracker's entry, or gone.
LEMMA StartAgrees ==
  ASSUME SpacesInv, StartState
  PROVE  Counted' /\ FirstRunSpaces'
<1>1. TypeOK /\ starts \in Nat /\ starts' = starts + 1 /\ UNCHANGED <<urls, first_count>>
  BY DEF SpacesInv, DriverInv, TypeOK, StartState
<1>2. /\ Trackers' = Trackers /\ HttpTrackers' = HttpTrackers /\ HttpTrackers \in SUBSET Trackers
      /\ \A u : Rank(u)' = Rank(u)
  BY <1>1 DEF HttpTrackers, Trackers, has_http, Rank
<1>3. Counted'
  BY <1>1 DEF Counted
<1>4. ASSUME starts = 0
      PROVE  AllPlaced' /\ CountAgrees' /\ OthersIdle'
  <2>1. manager_space = <<>> /\ Len(manager_space) = 0
    BY <1>4 DEF SpacesInv, DriverInv, Unstarted
  <2>2. trkrs_in_trkrspace = first_count /\ \A t \in Trackers : Idle(trkr[t])
    BY <1>4 DEF SpacesInv, Counted
  <2>3. ASSUME NEW t \in HttpTrackers
        PROVE  /\ trkr'[t].requeueable = TRUE /\ trkr'[t].queue_ptr \in {0, Rank(t)}
               /\ trkr'[t].request = "none"
    <3>1. trkr'[t] = Started(t)
      BY <1>2, Zenon DEF StartState, HttpTrackers
    <3>2. trkr'[t].request = "none"
      BY <1>1, <1>2, <2>2, <3>1, StartedIs DEF Idle
    <3> DEFINE h == HttpUrl(trkr[t], urls[t])
               p == QueuePtr(Len(manager_space) + Rank(t))
    <3>3. h \in Tracker
      <4>1. trkr[t] \in Tracker /\ trkr[t].url \in DOMAIN urls[t] /\ urls[t] \in Seq(Schemes)
        BY <1>1, <1>2, TypeParts, HttpTrackersFinite DEF AreTrackers
      <4>2. PICK i \in DOMAIN urls[t] : urls[t][i] = "http"
        BY DEF HttpTrackers, has_http
      <4> QED BY <4>1, <4>2, HttpUrlIs
    <3>4. p = Len(manager_space) + Rank(t) \/ p = 0
      BY DEF QueuePtr
    <3>5. Started(t) = [h EXCEPT !.queue_ptr = p, !.requeueable = TRUE, !.only_one_timer = TRUE,
                                 !.timer = TRUE]
      BY DEF Started
    <3>6. Rank(t) \in Nat
      BY <1>1, HttpTrackersFinite, FS_CardinalityType, RankIs
    <3> HIDE DEF h, p
    <3>7. trkr'[t].requeueable = TRUE /\ trkr'[t].queue_ptr = p
      BY <3>1, <3>3, <3>5 DEF Tracker
    <3> QED BY <2>1, <3>2, <3>4, <3>6, <3>7
  <2>4. ASSUME NEW t \in HttpTrackers
        PROVE  manager_space'[Rank(t)] = t
    <3>1. Rank(t) \in 1 .. Cardinality(HttpTrackers) /\ Cardinality(HttpTrackers) \in Nat
      BY <1>1, RankIs, PopulatedIs
    <3>2. (CHOOSE u \in HttpTrackers : Rank(u) = Rank(t)) = t
      <4>1. \A u \in HttpTrackers : Rank(u) = Rank(t) => u = t
        BY <1>1, RanksDiffer
      <4>2. \E u \in HttpTrackers : Rank(u) = Rank(t)
        OBVIOUS
      <4> DEFINE c == CHOOSE u \in HttpTrackers : Rank(u) = Rank(t)
      <4>3. c \in HttpTrackers /\ Rank(c) = Rank(t)
        BY <4>2, Zenon
      <4> HIDE DEF c
      <4>4. c = t
        BY <4>1, <4>3
      <4> QED BY <4>4 DEF c
    <3>3. ~ (Rank(t) <= 0) /\ Rank(t) - 0 = Rank(t)
          /\ Rank(t) \in 1 .. 0 + Cardinality(HttpTrackers)
      BY <3>1
    <3>4. manager_space'[Rank(t)] = CHOOSE u \in HttpTrackers : Rank(u) = Rank(t) - 0
      BY <2>1, <3>3 DEF StartState, Populated
    <3> QED BY <3>2, <3>3, <3>4
  <2>5. AllPlaced'
    <3>1. Len(manager_space') = Cardinality(HttpTrackers)
      BY <1>1, <2>1, PopulatedIs DEF StartState, IsSpace
    <3> QED BY <1>2, <2>3, <2>4, <3>1 DEF AllPlaced, Placed
  <2>6. CountAgrees'
    <3>1. WaitingHttp' = HttpTrackers
      BY <1>2, <2>3 DEF WaitingHttp
    <3>2. IsFiniteSet(Trackers) /\ Cardinality(Trackers) = Len(urls) /\ Len(urls) \in Nat
      <4>1. Trackers = 1 .. Len(urls) /\ Len(urls) \in Nat
        BY <1>1, HttpTrackersFinite
      <4>2. /\ IsFiniteSet(1 .. Len(urls))
            /\ Cardinality(1 .. Len(urls)) = IF 1 > Len(urls) THEN 0 ELSE Len(urls) - 1 + 1
        <5>1. 1 \in Int /\ Len(urls) \in Int
          BY <4>1
        <5> QED BY <5>1, FS_Interval, Zenon
      <4> QED BY <4>1, <4>2
    <3>3. Trackers \cap HttpTrackers = HttpTrackers
      BY <1>2
    <3>4. Cardinality(Trackers \ HttpTrackers) = Len(urls) - Cardinality(HttpTrackers)
      <4>1. Cardinality(Trackers \ HttpTrackers)
              = Cardinality(Trackers) - Cardinality(Trackers \cap HttpTrackers)
        BY <3>2, FS_Difference, Zenon
      <4> QED BY <3>2, <3>3, <4>1
    <3>5. Cardinality(HttpTrackers) \in Nat
      BY <1>1, HttpTrackersFinite, FS_CardinalityType
    <3>6. InSpace' = Cardinality(HttpTrackers)
      <4>1. /\ trkrs_in_trkrspace' = first_count - Cardinality(Trackers \ HttpTrackers)
            /\ first_count \in Int
        BY <1>1, <2>2, InSpaceIs DEF StartState
      <4> QED BY <1>1, <3>2, <3>4, <3>5, <4>1 DEF InSpace
    <3> QED BY <3>1, <3>5, <3>6 DEF CountAgrees
  <2>7. OthersIdle'
    <3>1. \A t \in Trackers \ HttpTrackers : trkr'[t] = trkr[t]
      BY Zenon DEF StartState, HttpTrackers
    <3> QED BY <1>2, <2>2, <3>1 DEF OthersIdle
  <2> QED BY <2>5, <2>6, <2>7
<1> QED BY <1>1, <1>3, <1>4 DEF FirstRunSpaces, FirstRun

LEMMA ForcedAgree ==
  ASSUME SpacesInv, ReannounceState \/ ForceReannounceState
  PROVE  Counted' /\ FirstRunSpaces'
<1>1. PICK P : /\ P \in SUBSET Waiting
               /\ trkr' = [t \in Trackers |-> IF t \in P THEN Requesting(trkr[t], "update")
                                                       ELSE trkr[t]]
               /\ SentToProtocolSpace(P)
  <2> DEFINE A == {t \in Waiting : ~trkr[t].only_one_timer /\ trkr[t].update_state}
             B == {t \in Waiting : trkr[t].update_state}
  <2>1. CASE ReannounceState
    <3>1. /\ A \in SUBSET Waiting
          /\ trkr' = [t \in Trackers |-> IF t \in A THEN Requesting(trkr[t], "update")
                                                    ELSE trkr[t]]
          /\ SentToProtocolSpace(A)
      BY <2>1, Zenon DEF ReannounceState
    <3> QED BY <3>1, Zenon
  <2>2. CASE ForceReannounceState
    <3>1. /\ B \in SUBSET Waiting
          /\ trkr' = [t \in Trackers |-> IF t \in B THEN Requesting(trkr[t], "update")
                                                    ELSE trkr[t]]
          /\ SentToProtocolSpace(B)
      BY <2>2, Zenon DEF ForceReannounceState
    <3> QED BY <3>1, Zenon
  <2> QED BY <2>1, <2>2
<1>2. UNCHANGED <<urls, first_count, starts>>
  BY DEF ReannounceState, ForceReannounceState
<1>3. Counted'
  <2>1. starts # 0
    BY DEF SpacesInv, DriverInv, Unstarted, Unasked, ReannounceState, ForceReannounceState
  <2> QED BY <1>2, <2>1 DEF Counted
<1>4. trkr \in [Trackers -> Tracker]
  BY DEF SpacesInv, DriverInv, TypeOK
<1>5. ASSUME NEW t \in Trackers
      PROVE  trkr'[t].requeueable = trkr[t].requeueable
  <2>1. trkr'[t] = IF t \in P THEN Requesting(trkr[t], "update") ELSE trkr[t]
    BY <1>1
  <2>2. trkr[t] \in Tracker
    BY <1>4
  <2> QED BY <2>1, <2>2, RequestingKeeps
<1>6. ASSUME FirstRun
      PROVE  FirstRunSpaces'
  <2>1. TypeOK /\ AllPlaced
    BY <1>6 DEF SpacesInv, DriverInv, FirstRunSpaces
  <2>2. ASSUME NEW t \in P
        PROVE  /\ trkr'[t].requeueable = trkr[t].requeueable
               /\ trkr'[t].queue_ptr = trkr[t].queue_ptr /\ trkr'[t].request # "none"
    <3>1. t \in HttpTrackers /\ t \in Trackers
      BY <1>1, <2>1, WaitsAtRank DEF HttpTrackers
    <3>2. trkr[t] \in Tracker /\ trkr[t].http_mode
      BY <1>4, <1>6, <3>1 DEF SpacesInv, DriverInv, AllDriven, Driven, FirstRun
    <3>3. trkr'[t] = Requesting(trkr[t], "update")
      BY <1>1, <3>1
    <3> QED BY <3>2, <3>3, RequestingKeeps
  <2>3. \A t \in Trackers : t \notin P => trkr'[t] = trkr[t]
    BY <1>1, Zenon
  <2> QED BY <1>1, <1>2, <1>6, <2>2, <2>3, SentAgree
<1>7. CASE ~FirstRun
  <2>1. ~FirstRun'
    BY <1>2, <1>5, <1>7, FirstRunBefore
  <2> QED BY <1>3, <2>1 DEF FirstRunSpaces
<1> QED BY <1>3, <1>6, <1>7

\* A shutdown that meets no tracker leaves them all in the first run.
LEMMA ShutdownAgrees ==
  ASSUME SpacesInv, NEW event \in {"stopped", "completed"}, ShutdownState(event)
  PROVE  Counted' /\ FirstRunSpaces'
<1>1. UNCHANGED <<urls, first_count, starts>> /\ SentToProtocolSpace(Waiting) /\ TypeOK
  BY DEF ShutdownState, SpacesInv, DriverInv
<1>2. Counted'
  <2>1. starts # 0
    BY DEF SpacesInv, DriverInv, Unstarted, Unasked, ShutdownState
  <2> QED BY <1>1, <2>1 DEF Counted
<1>3. ASSUME FirstRun'
      PROVE  FirstRunSpaces'
  <2>1. \A t \in Trackers : trkr'[t].requeueable => trkr[t].requeueable
    BY <1>1, ShutdownIs
  <2>2. FirstRun
    BY <1>1, <1>3, <2>1, FirstRunBefore
  <2>3. AllPlaced
    BY <2>2 DEF SpacesInv, FirstRunSpaces
  <2>4. HttpTrackers' = HttpTrackers /\ HttpTrackers \in SUBSET Trackers
    BY <1>1 DEF HttpTrackers, Trackers, has_http
  <2>5. ASSUME NEW t \in Waiting
        PROVE  FALSE
    <3>1. t \in HttpTrackers
      BY <1>1, <2>3, WaitsAtRank
    <3>2. trkr'[t].requeueable
      BY <1>3, <2>4, <3>1 DEF FirstRun, InFirstRun
    <3> QED BY <1>1, <2>4, <3>1, <3>2, ShutdownIs
  <2>6. Waiting = {}
    BY <2>5
  <2>7. \A t \in Trackers : trkr'[t] = trkr[t]
    BY <2>6, Zenon DEF ShutdownState
  <2>8. manager_space' = manager_space /\ trkrs_in_trkrspace' = trkrs_in_trkrspace
    <3>1. Met({}) = {}
      BY DEF Met
    <3>2. trkrs_in_trkrspace \in Int /\ manager_space \in Seq(Trackers \cup {0})
      BY <1>1 DEF TypeOK
    <3>3. Nulled({}) = manager_space
      BY <3>2 DEF Nulled
    <3>4. /\ manager_space' = Nulled({})
          /\ trkrs_in_trkrspace' = trkrs_in_trkrspace - Cardinality({})
      BY <1>1, <2>6, <3>1, Zenon DEF SentToProtocolSpace
    <3> QED BY <3>2, <3>3, <3>4, FS_EmptySet
  <2> QED BY <1>1, <2>7, <2>8, UnmovedAgree
<1> QED BY <1>2, <1>3 DEF FirstRunSpaces

\* The timer of a tracker expires: it waits, so its entry is there.
LEMMA TimeoutAgrees ==
  ASSUME SpacesInv, NEW t \in Trackers, TrackerTimeoutHandler(t)
  PROVE  Counted' /\ FirstRunSpaces'
<1>1. UNCHANGED <<urls, first_count, starts>> /\ looping /\ trkr[t].timer
  BY DEF TrackerTimeoutHandler
<1>2. starts # 0
  BY <1>1 DEF SpacesInv, DriverInv, Unstarted, Unasked
<1>3. Counted'
  BY <1>1, <1>2 DEF Counted
<1>4. TypeOK /\ trkr \in [Trackers -> Tracker]
  BY DEF SpacesInv, DriverInv, TypeOK
<1> DEFINE e == IF trkr[t].update_state THEN "update" ELSE "started"
<1>5. trkr' = [trkr EXCEPT ![t] = Requesting(trkr[t], e)]
  BY DEF TrackerTimeoutHandler
<1> HIDE DEF e
<1>6. trkr'[t] = Requesting(trkr[t], e) /\ \A u \in Trackers : u # t => trkr'[u] = trkr[u]
  BY <1>4, <1>5
<1>7. /\ trkr'[t].requeueable = trkr[t].requeueable
      /\ trkr'[t].queue_ptr = trkr[t].queue_ptr
      /\ trkr[t].http_mode => trkr'[t].request # "none"
  BY <1>4, <1>6, RequestingKeeps
<1>8. ASSUME FirstRun
      PROVE  FirstRunSpaces'
  <2>1. AllPlaced /\ OthersIdle
    BY <1>8 DEF SpacesInv, FirstRunSpaces
  <2>2. t \in HttpTrackers
    BY <1>1, <2>1 DEF OthersIdle, Idle
  <2>3. trkr[t].request = "none" /\ trkr[t].http_mode
    BY <1>1, <1>8, <2>2 DEF SpacesInv, DriverInv, AllDriven, Driven, FirstRun
  <2>4. Rank(t) \in DOMAIN manager_space /\ manager_space[Rank(t)] = t
    <3>1. DOMAIN manager_space = 1 .. Len(manager_space)
      BY <1>4 DEF TypeOK
    <3> QED BY <1>4, <2>1, <2>2, <2>3, <3>1, RankIs DEF AllPlaced, Placed
  <2>5. {t} \in SUBSET Waiting
    <3>1. t # 0
      BY <1>4, HttpTrackersFinite
    <3> QED BY <2>4, <3>1 DEF Waiting
  <2>6. SentToProtocolSpace({t})
    <3>1. Cardinality(Met({t})) = 1
      BY <1>4, <2>1, <2>5, MetOnce, FS_Singleton
    <3> QED BY <3>1 DEF TrackerTimeoutHandler, SentToProtocolSpace
  <2> QED BY <1>1, <1>6, <1>7, <1>8, <2>3, <2>5, <2>6, SentAgree
<1>9. CASE ~FirstRun
  <2>1. ~FirstRun'
    BY <1>1, <1>6, <1>7, <1>9, FirstRunBefore
  <2> QED BY <1>3, <2>1 DEF FirstRunSpaces
<1> QED BY <1>3, <1>8, <1>9

LEMMA CurlAgrees ==
  ASSUME SpacesInv, NEW t \in Trackers, CurlSends(t)
  PROVE  Counted' /\ FirstRunSpaces'
<1>1. trkr \in [Trackers -> Tracker] /\ trkr[t].request = "added"
  BY DEF SpacesInv, DriverInv, TypeOK, CurlSends
<1>2. PICK sent \in {"joining", "leaving"} : trkr' = [trkr EXCEPT ![t].request = sent]
  BY DEF CurlSends
<1>3. UNCHANGED <<urls, first_count, manager_space, trkrs_in_trkrspace, starts>>
  BY DEF CurlSends
<1>4. \A u \in Trackers : /\ trkr'[u].requeueable = trkr[u].requeueable
                          /\ trkr'[u].queue_ptr = trkr[u].queue_ptr
                          /\ trkr'[u].timer = trkr[u].timer
                          /\ trkr'[u].request = "none" <=> trkr[u].request = "none"
  BY <1>1, <1>2 DEF Tracker
<1> QED BY <1>3, <1>4, UnmovedAgree

\* Both outcomes.
LEMMA FinishedAgrees ==
  ASSUME SpacesInv, NEW t \in Trackers, trkr[t].request # "none",
         UNCHANGED <<urls, first_count, starts>>, looping, Returned(t),
         NEW s, trkr' = [trkr EXCEPT ![t] = s], s.request = "none",
         s.requeueable = trkr[t].requeueable, s.queue_ptr = trkr[t].queue_ptr
  PROVE  Counted' /\ FirstRunSpaces'
<1>1. starts # 0
  BY DEF SpacesInv, DriverInv, Unstarted, Unasked
<1>2. Counted'
  BY <1>1 DEF Counted
<1>3. CASE FirstRun
  BY <1>2, <1>3, ReturnedAgrees
<1>4. CASE ~FirstRun
  <2>1. \A u \in Trackers : trkr'[u].requeueable = trkr[u].requeueable
    BY DEF SpacesInv, DriverInv, TypeOK
  <2>2. ~FirstRun'
    BY <1>4, <2>1, FirstRunBefore
  <2> QED BY <1>2, <2>2 DEF FirstRunSpaces
<1> QED BY <1>3, <1>4

LEMMA OutcomeAgrees ==
  ASSUME SpacesInv, NEW t \in Trackers, ChkFinished(t)
  PROVE  Counted' /\ FirstRunSpaces'
<1>1. trkr[t] \in Tracker
  BY DEF SpacesInv, DriverInv, TypeOK
<1>2. ASSUME NEW body \in Bodies, DoOnSuccess(t, body)
      PROVE  Counted' /\ FirstRunSpaces'
  <2> DEFINE data == Appended(t, body)
             s == [Finished(trkr[t]) EXCEPT !.data = data, !.update_state = Accepted(t, data)]
  <2>1. looping /\ UNCHANGED <<urls, first_count, starts>> /\ trkr' = [trkr EXCEPT ![t] = s]
        /\ trkr[t].request # "none" /\ Returned(t)
    BY <1>2 DEF DoOnSuccess
  <2>2. /\ s.request = "none" /\ s.requeueable = trkr[t].requeueable
        /\ s.queue_ptr = trkr[t].queue_ptr
    BY <1>1 DEF Finished, Tracker
  <2> HIDE DEF s
  <2> QED BY <2>1, <2>2, FinishedAgrees
<1>3. ASSUME NEW body \in Bodies, SuccessThrows(t, body)
      PROVE  Counted' /\ FirstRunSpaces'
  <2>1. UNCHANGED <<urls, first_count, manager_space, trkrs_in_trkrspace, trkr, starts>>
    BY <1>3 DEF SuccessThrows, Terminates
  <2> QED BY <2>1, UnmovedAgree
<1>4. ASSUME NEW body \in Bodies, DoOnFailure(t, body)
      PROVE  Counted' /\ FirstRunSpaces'
  <2> DEFINE s == [Finished(trkr[t]) EXCEPT !.data = Appended(t, body)]
  <2>1. looping /\ UNCHANGED <<urls, first_count, starts>> /\ trkr' = [trkr EXCEPT ![t] = s]
        /\ trkr[t].request # "none" /\ Returned(t)
    BY <1>4 DEF DoOnFailure
  <2>2. /\ s.request = "none" /\ s.requeueable = trkr[t].requeueable
        /\ s.queue_ptr = trkr[t].queue_ptr
    BY <1>1 DEF Finished, Tracker
  <2> HIDE DEF s
  <2> QED BY <2>1, <2>2, FinishedAgrees
<1> QED BY <1>2, <1>3, <1>4, Zenon DEF ChkFinished

LEMMA NextAgrees ==
  ASSUME SpacesInv, [Next]_vars
  PROVE  SpacesInv'
<1>1. DriverInv'
  BY NextDriven DEF SpacesInv
<1>2. CASE CurrentState
  <2>1. CASE StartTrackerManager \/ StartMeetsNull
    <3>1. UNCHANGED <<urls, first_count, manager_space, trkrs_in_trkrspace, trkr, starts>>
      BY <2>1 DEF StartTrackerManager, StartMeetsNull, Terminates
    <3> QED BY <1>1, <3>1, UnmovedAgree DEF SpacesInv
  <2>2. CASE StartState
    BY <2>2, <1>1, StartAgrees DEF SpacesInv
  <2>3. CASE ReannounceState \/ ForceReannounceState
    BY <2>3, <1>1, ForcedAgree DEF SpacesInv
  <2>4. CASE \E event \in {"stopped", "completed"} : ShutdownState(event)
    BY <2>4, <1>1, ShutdownAgrees DEF SpacesInv
  <2> QED BY <1>2, <2>1, <2>2, <2>3, <2>4 DEF CurrentState
<1>3. CASE Callbacks
  BY <1>1, <1>3, TimeoutAgrees, CurlAgrees, OutcomeAgrees, Zenon DEF Callbacks, SpacesInv
<1>4. CASE OtherThreads \/ UNCHANGED vars
  <2>1. UNCHANGED <<urls, first_count, manager_space, trkrs_in_trkrspace, trkr, starts>>
    BY <1>4 DEF OtherThreads, Call, Store, StoreLost, vars
  <2> QED BY <1>1, <2>1, UnmovedAgree DEF SpacesInv
<1> QED BY <1>2, <1>3, <1>4 DEF Next

LEMMA InitAgrees == Init => SpacesInv
<1> SUFFICES ASSUME Init PROVE SpacesInv
  OBVIOUS
<1>1. DriverInv
  BY InitDriven
<1>2. trkrs_in_trkrspace = first_count /\ \A t \in Trackers : Idle(trkr[t])
  BY DEF Init, Idle
<1>3. starts = 0
  BY DEF Init
<1> QED BY <1>1, <1>2, <1>3 DEF SpacesInv, Counted, FirstRunSpaces, FirstRun

LEMMA AlwaysAgree == Spec => []SpacesInv
<1>1. Init => SpacesInv
  BY InitAgrees
<1>2. SpacesInv /\ [Next]_vars => SpacesInv'
  BY NextAgrees
<1> QED BY <1>1, <1>2, PTL DEF Spec

\* In the first run the entry that a queue_ptr reaches is null exactly while curl
\* has the request, and the count has, from whatever it began as, never come to
\* more than the trackers that wait, and comes to just as many if no queue_ptr
\* dangles (send_to_protocol_space, return_to_manager_space).
THEOREM SpacesAgreeForever == Spec => []SpacesAgree
<1>1. SpacesInv => SpacesAgree
  <2> SUFFICES ASSUME SpacesInv, FirstRun PROVE SpacesAgree
    BY DEF SpacesAgree
  <2>1. TypeOK /\ AllPlaced /\ CountAgrees
    BY DEF SpacesInv, DriverInv, FirstRunSpaces
  <2>2. ASSUME NEW t \in HttpTrackers, trkr[t].queue_ptr # 0
        PROVE  manager_space[trkr[t].queue_ptr] = IF t \in WaitingHttp THEN t ELSE 0
    BY <2>1, <2>2 DEF AllPlaced, Placed, WaitingHttp
  <2> QED BY <2>1, <2>2, Zenon DEF SpacesAgree, CountAgrees, WaitingHttp
<1> QED BY <1>1, AlwaysAgree, PTL

\* What a shutdown of the first run does, for every first value of the count: its
\* pass empties the manager's space; the manager is inactive after it only if
\* memory held at least the number of trackers where the count is, and, if no
\* queue_ptr dangles, just if it held that number (shutdown_state:256-282).
THEOREM ShutdownsEndSo == Spec => ShutdownOutcome
<1> DEFINE EndsSo(event) ==
      ShutdownState(event) /\ FirstRun =>
        /\ current_state' = "inactive" => first_count >= Len(urls)
        /\ AllLinked => /\ InSpace' = 0
                        /\ (current_state' = "inactive") <=> first_count = Len(urls)
<1>1. ASSUME SpacesInv, NEW event \in {"stopped", "completed"}, ShutdownState(event), FirstRun
      PROVE  EndsSo(event)
  <2>1. TypeOK /\ AllPlaced /\ CountAgrees
    BY <1>1 DEF SpacesInv, DriverInv, FirstRunSpaces
  <2>2. WaitingHttp \in SUBSET Waiting
    <3>1. ASSUME NEW t \in WaitingHttp
          PROVE  t \in Waiting
      <4>1. t \in HttpTrackers /\ manager_space[Rank(t)] = t
        BY <2>1 DEF WaitingHttp, AllPlaced, Placed
      <4>2. Rank(t) \in DOMAIN manager_space
        <5>1. DOMAIN manager_space = 1 .. Len(manager_space)
          BY <2>1 DEF TypeOK
        <5> QED BY <2>1, <4>1, <5>1, RankIs DEF AllPlaced
      <4>3. t # 0
        BY <2>1, <4>1, HttpTrackersFinite
      <4> QED BY <4>1, <4>2, <4>3 DEF Waiting
    <3> QED BY <3>1
  <2>3. /\ IsFiniteSet(Waiting) /\ Cardinality(Waiting) \in Nat
        /\ Cardinality(Met(Waiting)) = Cardinality(Waiting)
    BY <2>1, MetOnce
  <2>4. Cardinality(WaitingHttp) <= Cardinality(Waiting) /\ Cardinality(WaitingHttp) \in Nat
    BY <2>1, <2>2, <2>3, FS_Subset, WaitingHttpFinite
  <2>5. InSpace' = InSpace - Cardinality(Waiting)
    <3>1. /\ trkrs_in_trkrspace' = trkrs_in_trkrspace + (0 - Cardinality(Waiting))
          /\ UNCHANGED <<urls, first_count>> /\ 0 - Cardinality(Waiting) \in Int
      <4>1. /\ trkrs_in_trkrspace' = trkrs_in_trkrspace - Cardinality(Met(Waiting))
            /\ UNCHANGED <<urls, first_count>> /\ trkrs_in_trkrspace \in Int
        BY <1>1, <2>1 DEF ShutdownState, SentToProtocolSpace, TypeOK
      <4> QED BY <2>3, <4>1
    <3>2. InSpace' = InSpace + (0 - Cardinality(Waiting)) /\ InSpace \in Int
      BY <2>1, <3>1, InSpaceMoves, InSpaceIs
    <3> QED BY <2>3, <3>2
  <2>6. /\ current_state' = "inactive" <=> InSpace' + (first_count - Len(urls)) = 0
        /\ InSpace \in Int /\ Len(urls) \in Nat /\ first_count \in Int
    <3>1. /\ current_state' = IF trkrs_in_trkrspace' = 0 THEN "inactive" ELSE "shutdown"
          /\ UNCHANGED <<urls, first_count>> /\ trkrs_in_trkrspace' \in Int
      BY <1>1, <2>1, SentIs DEF ShutdownState
    <3>2. trkrs_in_trkrspace' = InSpace' + (first_count - Len(urls))
      BY <2>1, <3>1, InSpaceIs DEF InSpace
    <3> QED BY <2>1, <3>1, <3>2, InSpaceIs
  <2>7. InSpace' <= 0
    BY <2>1, <2>3, <2>4, <2>5, <2>6 DEF CountAgrees
  <2>8. ASSUME AllLinked
        PROVE  InSpace' = 0
    <3>1. Waiting \in SUBSET WaitingHttp
      BY <2>1, <2>8, WaitsAtRank DEF AllLinked, WaitingHttp
    <3>2. Waiting = WaitingHttp /\ InSpace = Cardinality(WaitingHttp)
      BY <2>1, <2>2, <2>8, <3>1 DEF CountAgrees
    <3> QED BY <2>3, <2>5, <3>2
  <2>9. current_state' = "inactive" => first_count >= Len(urls)
    BY <2>5, <2>3, <2>6, <2>7
  <2>10. AllLinked => ((current_state' = "inactive") <=> first_count = Len(urls))
    BY <2>6, <2>8
  <2> QED BY <2>8, <2>9, <2>10
<1>2. SpacesInv /\ [Next]_vars => [\A event \in {"stopped", "completed"} : EndsSo(event)]_vars
  BY <1>1
<1> QED BY <1>2, AlwaysAgree, PTL DEF Spec, ShutdownOutcome
=============================================================================
