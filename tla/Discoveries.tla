---------------------------- MODULE Discoveries ----------------------------
(***************************************************************************)
(* The way of a discovered address from a tracker's thread to the          *)
(* scheduler: the queue that joins the threads, drain_discovered, which    *)
(* moves what it pops to the cache, and the cache.  The manager's thread   *)
(* runs one callback at a time, so only the pushes to the queue interleave *)
(* with its steps.  ConnectionManager takes one drain for one step.        *)
(***************************************************************************)
EXTENDS SpscQueue, OverwritableCache

ASSUME SameElements == Entries = Values

VARIABLE
  drain      \* the manager's thread: outside the callback, popping, or pushing

discoveriesVars == <<vars, cacheVars, drain>>

DiscoveriesInit == Init /\ CacheInit /\ drain = "off"

\* The tracker's thread.  What wakes the callback is not in src/, so it may run
\* at any time.
Report == Producer /\ UNCHANGED <<cacheVars, drain>>

DrainBegins ==
  /\ drain = "off"
  /\ PopBegins
  /\ drain' = "pop"
  /\ UNCHANGED cacheVars

\* Faulty: the loop goes on when the pop returned false.
DrainPopsUntested ==
  /\ drain = "pop"
  /\ PopLoads \/ PopMoves \/ PopStores
  /\ drain' = IF popper'.at = "idle" THEN "push" ELSE "pop"
  /\ UNCHANGED cacheVars

\* The pop goes on.  When it returns true its element is to be pushed to the
\* cache, when it returns false the loop ends.
DrainPops ==
  /\ drain = "pop"
  /\ \/ (PopLoads \/ PopMoves) /\ drain' = IF popper'.at = "idle" THEN "off" ELSE "pop"
     \/ PopStores /\ drain' = "push"
  /\ UNCHANGED cacheVars

\* The element is pushed, and the next pop begins.
DrainPushes ==
  /\ drain = "push"
  /\ push(popped)
  /\ PopBegins
  /\ drain' = "pop"

\* The scheduler takes the newest address.  Nothing in src/ calls stale_pop, the
\* other operation of the cache.
Schedule ==
  /\ drain = "off"
  /\ fresh_pop \/ stale_pop
  /\ UNCHANGED <<vars, drain>>

DiscoveriesNext == Report \/ DrainBegins \/ DrainPops \/ DrainPushes \/ Schedule

DiscoveriesSpec == DiscoveriesInit /\ [][DiscoveriesNext]_discoveriesVars

----------------------------------------------------------------------------
\* The addresses under way, the oldest first: in the cache, in the callback's
\* hand, in the queue.
UnderWay == Kept \o (IF drain = "push" THEN <<popped>> ELSE <<>>) \o Waiting

\* No address is lost, doubled or overtaken between the threads, whatever is
\* stale: addresses come in at the end, and leave as the oldest when a push
\* finds the cache full, or as the cache's newest or oldest when one is taken
\* while no drain is under way (PeerConnectionManager.cpp:55-63, :138).
DrainKeepsOrder ==
  [][\/ UnderWay' = UnderWay
     \/ \E v \in Values : UnderWay' = Append(UnderWay, v)
     \/ drain = "push" /\ size = N /\ UnderWay' = Tail(UnderWay)
     \/ /\ drain = "off" /\ size > 0
        /\ \E i \in {1, size} :
             /\ taken' = UnderWay[i]
             /\ UnderWay' = SubSeq(UnderWay, 1, i - 1)
                              \o SubSeq(UnderWay, i + 1, Len(UnderWay))]_discoveriesVars
=============================================================================
