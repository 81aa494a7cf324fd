--------------------------- MODULE TrackerManager ---------------------------
(***************************************************************************)
(* TrackerManager, its Trackers and the HTTPHandler that drives libcurl.   *)
(* The manager's thread calls the function current_state points to, again  *)
(* and again; only normal_state runs the event loop.  Other threads write  *)
(* current_state.  A tracker waits in manager_space for its timer, or its  *)
(* request is in curl's hands ("protocol space") and its entry is null.    *)
(*                                                                         *)
(* A tracker is its place in the order of the hash table; 0 is nullptr.    *)
(* only_one_timer is true from construction on and only ever assigned      *)
(* true, so the second timer and what depends on it are left out.          *)
(***************************************************************************)
EXTENDS Integers, Sequences, FiniteSets

CONSTANTS
  Torrents,    \* the announce URLs by tracker: sequences of lists of schemes
  Callers,     \* the threads that use the public functions
  FirstCounts, \* what memory may hold where the count of trackers is
  MaxTrackers,          \* the length of the longest of Torrents
  MaxStarts, MinCount   \* bounds on runs of start_state and on InSpace

Schemes == {"http", "udp"}
ASSUME TorrentsAssumption == \A u \in Torrents :
         /\ u \in Seq(Seq(Schemes)) /\ Len(u) <= MaxTrackers
         /\ \A t \in DOMAIN u : u[t] # <<>>
ASSUME FirstCountsAssumption == FirstCounts \subseteq Int
ASSUME BoundsAssumption == MaxStarts \in Nat /\ MinCount \in Int

VARIABLES
  urls,                 \* the torrent's trackers (never changed)
  first_count,          \* the first value of trkrs_in_trkrspace (never changed)
  current_state,
  looping,              \* normal_state is running the event loop
  manager_space,
  trkrs_in_trkrspace,   \* not initialised: the code only adds to it and takes from it
  trkr,                 \* tracker -> its members, and its request in curl
  swarm,                \* the trackers that have accepted this client as a peer
  asked,                \* what a caller is about to store in current_state
  starts                \* how often start_state has run

vars == <<urls, first_count, current_state, looping, manager_space, trkrs_in_trkrspace,
          trkr, swarm, asked, starts>>

Requests == {"start", "reannounce", "force_reannounce", "shutdown"}
States == Requests \cup {"unset", "inactive", "normal", "terminated"}
Trackers == DOMAIN urls
has_http(t) == \E i \in DOMAIN urls[t] : urls[t][i] = "http"
HttpTrackers == {t \in Trackers : has_http(t)}
Waiting == {manager_space[i] : i \in DOMAIN manager_space} \ {0}

\* How many trackers the count has in the manager's space, if its first value is
\* taken for their number.
InSpace == trkrs_in_trkrspace - (first_count - Len(urls))

\* data is what the bencoder makes of the text received so far.  curl has been
\* given a request, or has sent it: as a peer that joins, or as one that leaves.
Bodies == {"", "accepted", "refused", "garbled"}
Tracker ==
  [url : Nat, http_mode : BOOLEAN, update_state : BOOLEAN, requeueable : BOOLEAN,
   only_one_timer : BOOLEAN, timer : BOOLEAN, queue_ptr : Nat, data : Bodies,
   event : {"", "started", "update", "stopped", "completed"},
   request : {"none", "added", "joining", "leaving"}]

Init ==
  /\ urls \in Torrents
  /\ current_state = "unset" /\ looping = FALSE
  /\ manager_space = <<>>
  /\ first_count \in FirstCounts /\ trkrs_in_trkrspace = first_count
  /\ trkr = [t \in Trackers |->
       [url |-> 1, http_mode |-> FALSE, update_state |-> FALSE, requeueable |-> TRUE,
        only_one_timer |-> TRUE, timer |-> FALSE, queue_ptr |-> 0, data |-> "",
        event |-> "", request |-> "none"]]
  /\ swarm = {}
  /\ asked = [c \in Callers |-> "none"]
  /\ starts = 0

----------------------------------------------------------------------------
\* send_to_protocol_space nulls the entry that queue_ptr points to.  A dangling
\* queue_ptr is 0: the write goes to freed memory and nothing here changes.
Nulled(P) == [i \in DOMAIN manager_space |->
                IF \E t \in P : trkr[t].queue_ptr = i THEN 0 ELSE manager_space[i]]

\* A loop over manager_space meets a tracker of P at i, unless an earlier entry
\* for the same tracker made it null.
Met(P) == {i \in DOMAIN manager_space :
             /\ manager_space[i] \in P
             /\ ~(trkr[manager_space[i]].queue_ptr = i
                  /\ \E j \in 1 .. i - 1 : manager_space[j] = manager_space[i])}

\* Faulty: the entry is not nulled.
SentToProtocolSpaceKept(P) ==
  /\ trkrs_in_trkrspace' = trkrs_in_trkrspace - Cardinality(Met(P))
  /\ UNCHANGED manager_space

\* The trackers P of manager_space are sent to protocol space.
SentToProtocolSpace(P) ==
  /\ trkrs_in_trkrspace' = trkrs_in_trkrspace - Cardinality(Met(P))
  /\ manager_space' = Nulled(P)

\* HTTPHandler::add_request: curl does not add a handle again that it has.
Added(r) == [r EXCEPT !.request = IF @ = "none" THEN "added" ELSE @]

\* protocol_handle_t::add_request does nothing for a UDP tracker.
AddRequest(r) == IF r.http_mode THEN Added(r) ELSE r

\* set_announce_url_for_tracker: of the URL only the event matters here.
Announcing(r, event) == [r EXCEPT !.event = event]

\* The timer is stopped, the URL set and the request added.
Requesting(r, event) == AddRequest(Announcing([r EXCEPT !.timer = FALSE], event))

\* Faulty: the tracker's entry is filled but not counted.
ReturnedUncounted(t) ==
  /\ manager_space' = [i \in DOMAIN manager_space |->
       IF trkr[t].requeueable /\ trkr[t].queue_ptr = i THEN t ELSE manager_space[i]]
  /\ UNCHANGED trkrs_in_trkrspace

\* return_to_manager_space, if the tracker may.
Returned(t) ==
  IF trkr[t].requeueable
  THEN /\ manager_space' = [i \in DOMAIN manager_space |->
            IF trkr[t].queue_ptr = i THEN t ELSE manager_space[i]]
       /\ trkrs_in_trkrspace' = trkrs_in_trkrspace + 1
  ELSE UNCHANGED <<manager_space, trkrs_in_trkrspace>>

----------------------------------------------------------------------------
\* The other threads.

\* The test of a public function: start works on an inactive manager, the
\* others on one in normal_state.
Call(c, request) ==
  /\ asked[c] = "none"
  /\ IF request = "start"
     THEN current_state = "inactive" /\ starts < MaxStarts
     ELSE current_state = "normal" /\ InSpace > MinCount
  /\ asked' = [asked EXCEPT ![c] = request]
  /\ UNCHANGED <<urls, first_count, current_state, looping, manager_space,
                 trkrs_in_trkrspace, trkr, swarm, starts>>

\* Its assignment.  The event it signals afterwards ends event_loop.run.
Store(c) ==
  /\ asked[c] # "none" /\ current_state # "terminated"
  /\ current_state' = asked[c]
  /\ asked' = [asked EXCEPT ![c] = "none"]
  /\ UNCHANGED <<urls, first_count, looping, manager_space, trkrs_in_trkrspace, trkr,
                 swarm, starts>>

\* The functions that end with an assignment to current_state, as shutdown_state
\* does if the count will be 0.
EndsWithAssignment ==
  \/ current_state \in {"start", "reannounce", "force_reannounce"}
  \/ current_state = "shutdown" /\ trkrs_in_trkrspace = Cardinality(Met(Waiting))

\* A second caller's assignment while such a function runs is overwritten.
StoreLost(c) ==
  /\ asked[c] # "none" /\ EndsWithAssignment
  /\ asked' = [asked EXCEPT ![c] = "none"]
  /\ UNCHANGED <<urls, first_count, current_state, looping, manager_space,
                 trkrs_in_trkrspace, trkr, swarm, starts>>

----------------------------------------------------------------------------
\* The functions that current_state points to.

StartTrackerManager ==
  /\ current_state = "unset"
  /\ current_state' = "inactive"
  /\ UNCHANGED <<urls, first_count, looping, manager_space, trkrs_in_trkrspace, trkr,
                 swarm, asked, starts>>

\* Faulty: the announce URL stays the first one.
HttpUrlUnsought(r, schemes) == [r EXCEPT !.http_mode = schemes[r.url] = "http"]

\* seek_to_next_url while http_mode is false: it begins false, so at the second URL.
HttpUrl(r, schemes) ==
  LET after(j) == ((r.url + j - 1) % Len(schemes)) + 1
      k == CHOOSE k \in 1 .. Len(schemes) :
             /\ schemes[after(k)] = "http"
             /\ \A j \in 1 .. k - 1 : schemes[after(j)] # "http"
  IN IF r.http_mode THEN r ELSE [r EXCEPT !.http_mode = TRUE, !.url = after(k)]

\* A tracker's place among those with an HTTP URL.
Rank(t) == Cardinality({u \in HttpTrackers : u <= t})

\* The entries that populate_manager_space leaves.
Populated ==
  LET m == Len(manager_space)
  IN [i \in 1 .. m + Cardinality(HttpTrackers) |->
        IF i <= m THEN manager_space[i]
        ELSE CHOOSE t \in HttpTrackers : Rank(t) = i - m]

\* Faulty: queue_ptr is taken one entry too far.
QueuePtrLate(k) == k + 1

\* Where queue_ptr points after it: the vector doubles when it is full, and is
\* shrunk at the end, and each move leaves the pointers taken before it dangling.
QueuePtr(k) ==
  LET m == Len(manager_space)
      n == Len(Populated)
  IN IF 2 * k > n /\ \E e \in 0 .. n : n = (IF m = 0 THEN 1 ELSE m) * 2 ^ e THEN k ELSE 0

Started(t) ==
  [HttpUrl(trkr[t], urls[t]) EXCEPT
     !.queue_ptr = QueuePtr(Len(manager_space) + Rank(t)),
     !.requeueable = TRUE, !.only_one_timer = TRUE, !.timer = TRUE]

StartState ==
  /\ current_state = "start"
  /\ \A i \in DOMAIN manager_space : manager_space[i] # 0
  /\ manager_space' = Populated
  /\ trkr' = [t \in Trackers |-> IF has_http(t) THEN Started(t) ELSE trkr[t]]
  /\ trkrs_in_trkrspace' = trkrs_in_trkrspace - Cardinality(Trackers \ HttpTrackers)
  /\ current_state' = "normal"
  /\ looping' = TRUE
  /\ starts' = starts + 1
  /\ UNCHANGED <<urls, first_count, swarm, asked>>

\* An exception nobody catches, or a null pointer followed.
Terminates ==
  /\ current_state' = "terminated" /\ looping' = FALSE
  /\ UNCHANGED <<urls, first_count, manager_space, trkrs_in_trkrspace, trkr, swarm,
                 asked, starts>>

\* A second start meets the entries that the shutdown nulled.
StartMeetsNull ==
  /\ current_state = "start"
  /\ \E i \in DOMAIN manager_space : manager_space[i] = 0
  /\ Terminates

\* The second timer is never in use, so no tracker qualifies.
ReannounceState ==
  LET P == {t \in Waiting : ~trkr[t].only_one_timer /\ trkr[t].update_state} IN
  /\ current_state = "reannounce"
  /\ current_state' = "normal" /\ looping' = TRUE
  /\ trkr' = [t \in Trackers |-> IF t \in P THEN Requesting(trkr[t], "update") ELSE trkr[t]]
  /\ SentToProtocolSpace(P)
  /\ UNCHANGED <<urls, first_count, swarm, asked, starts>>

ForceReannounceState ==
  LET P == {t \in Waiting : trkr[t].update_state} IN
  /\ current_state = "force_reannounce"
  /\ current_state' = "normal" /\ looping' = TRUE
  /\ trkr' = [t \in Trackers |-> IF t \in P THEN Requesting(trkr[t], "update") ELSE trkr[t]]
  /\ SentToProtocolSpace(P)
  /\ UNCHANGED <<urls, first_count, swarm, asked, starts>>

\* Runs again, without the event loop between, while the count is not 0.
ShutdownState(event) ==
  /\ current_state = "shutdown"
  /\ InSpace > MinCount
  /\ looping' = FALSE
  /\ trkr' = [t \in Trackers |->
       IF t \notin Waiting THEN trkr[t]
       ELSE LET r == [trkr[t] EXCEPT !.timer = FALSE, !.requeueable = FALSE]
            IN IF r.update_state THEN Requesting(r, event) ELSE r]
  /\ SentToProtocolSpace(Waiting)
  /\ current_state' = IF trkrs_in_trkrspace' = 0 THEN "inactive" ELSE "shutdown"
  /\ UNCHANGED <<urls, first_count, swarm, asked, starts>>

----------------------------------------------------------------------------
\* The callbacks of the event loop.  A batch of them may run on after another
\* thread has written current_state.

TrackerTimeoutHandler(t) ==
  /\ looping /\ trkr[t].timer
  /\ trkr[t].requeueable \/ InSpace > MinCount
  /\ trkr' = [trkr EXCEPT ![t] =
       Requesting(@, IF trkr[t].update_state THEN "update" ELSE "started")]
  /\ manager_space' = Nulled({t})
  /\ trkrs_in_trkrspace' = trkrs_in_trkrspace - 1
  /\ UNCHANGED <<urls, first_count, current_state, looping, swarm, asked, starts>>

\* curl connects and sends, driven by drive_timer and drive_sockt: the tracker
\* takes note of the event.
CurlSends(t) ==
  LET leaves == trkr[t].event \in {"stopped", "completed"} IN
  /\ looping /\ trkr[t].request = "added"
  /\ trkr' = [trkr EXCEPT ![t].request = IF leaves THEN "leaving" ELSE "joining"]
  /\ swarm' = IF leaves THEN swarm \ {t} ELSE swarm
  /\ UNCHANGED <<urls, first_count, current_state, looping, manager_space,
                 trkrs_in_trkrspace, asked, starts>>

\* easy_callback appends to what earlier answers left, and the bencoder reads
\* the first value of it only.
Appended(t, body) == IF trkr[t].data = "" THEN body ELSE trkr[t].data

\* A tracker that accepts the announcement of a peer has it, whatever the status
\* of its answer and however the transfer ends.
Joined(t, body) ==
  IF body = "accepted" /\ trkr[t].request = "joining" THEN swarm \cup {t} ELSE swarm

\* Faulty: the tracker is not to be asked again.
RetriedNever(r) == [r EXCEPT !.request = "none"]

\* What both outcomes do: arm the timer, return the tracker, remove the handle.
Finished(r) == [r EXCEPT !.timer = TRUE, !.request = "none"]

\* Faulty: a failure reason is not looked for.
AcceptedByAnyReply(t, data) == trkr[t].update_state \/ data # ""

\* update_state after a dictionary without a failure reason.
Accepted(t, data) == trkr[t].update_state \/ data = "accepted"

\* do_on_success: the answer came with status 200.
DoOnSuccess(t, body) ==
  LET data == Appended(t, body) IN
  /\ looping /\ trkr[t].request \in {"joining", "leaving"}
  /\ data # "garbled"
  /\ trkr' = [trkr EXCEPT ![t] =
       [Finished(@) EXCEPT !.data = data, !.update_state = Accepted(t, data)]]
  /\ swarm' = Joined(t, body)
  /\ Returned(t)
  /\ UNCHANGED <<urls, first_count, current_state, looping, asked, starts>>

\* The bencoder throws.
SuccessThrows(t, body) ==
  /\ looping /\ trkr[t].request \in {"joining", "leaving"}
  /\ Appended(t, body) = "garbled"
  /\ Terminates

\* do_on_failure: another status, or a transfer that failed or timed out, with any
\* text received before, an acceptance too.  Its failure count and retry interval
\* are left out, since the interval is overwritten by 5 seconds, as is the next
\* URL, which is not sought: http_mode is true.
DoOnFailure(t, body) ==
  /\ looping /\ trkr[t].request # "none"
  /\ trkr[t].request = "added" => body = ""
  /\ trkr' = [trkr EXCEPT ![t] = [Finished(@) EXCEPT !.data = Appended(t, body)]]
  /\ swarm' = Joined(t, body)
  /\ Returned(t)
  /\ UNCHANGED <<urls, first_count, current_state, looping, asked, starts>>

ChkFinished(t) ==
  \E body \in Bodies : DoOnSuccess(t, body) \/ SuccessThrows(t, body) \/ DoOnFailure(t, body)

----------------------------------------------------------------------------
CurrentState ==
  \/ StartTrackerManager \/ StartState \/ StartMeetsNull
  \/ ReannounceState \/ ForceReannounceState
  \/ \E event \in {"stopped", "completed"} : ShutdownState(event)

Callbacks == \E t \in Trackers : TrackerTimeoutHandler(t) \/ CurlSends(t) \/ ChkFinished(t)

OtherThreads ==
  \E c \in Callers : Store(c) \/ StoreLost(c) \/ \E request \in Requests : Call(c, request)

Next == CurrentState \/ Callbacks \/ OtherThreads

Spec == Init /\ [][Next]_vars

\* The thread runs on, timers expire, and curl ends every transfer after its
\* timeout of 30 seconds.  Nothing makes a tracker answer, nor a caller call.
Fairness ==
  /\ WF_vars(CurrentState)
  /\ \A c \in Callers : WF_vars(Store(c) \/ StoreLost(c))
  /\ \A t \in 1 .. MaxTrackers :
       /\ WF_vars(t \in Trackers /\ TrackerTimeoutHandler(t))
       /\ WF_vars(t \in Trackers /\ ChkFinished(t))

FairSpec == Spec /\ Fairness

----------------------------------------------------------------------------
\* The values of the variables.
TypeOK ==
  /\ urls \in Torrents /\ first_count \in FirstCounts
  /\ current_state \in States /\ looping \in BOOLEAN
  /\ manager_space \in Seq(Trackers \cup {0})
  /\ trkrs_in_trkrspace \in Int
  /\ trkr \in [Trackers -> Tracker]
  /\ \A t \in Trackers : trkr[t].url \in DOMAIN urls[t]
                        /\ trkr[t].queue_ptr \in 0 .. Len(manager_space)
  /\ swarm \in SUBSET Trackers
  /\ asked \in [Callers -> Requests \cup {"none"}]
  /\ starts \in Nat

\* The tracker has been started once, and no shutdown has met it.
InFirstRun(t) == starts = 1 /\ trkr[t].requeueable

\* From its start to its shutdown each tracker with an HTTP URL has one driver:
\* its timer is armed, or curl has its request, and not both, in whatever order
\* the stores of several callers meet the state functions.
\* (tracker_timeout_handler, the outcomes and force_reannounce_state, which may
\* run while the request of a tracker is still in flight.)
EachTrackerHasOneDriver ==
  \A t \in HttpTrackers : InFirstRun(t) => trkr[t].timer # (trkr[t].request # "none")

\* What a tracker is sent, against what it knows.  An announcement without an
\* event goes only to a tracker that has this client as a peer, and whose first
\* text, whatever the status it came with, was an acceptance; from then on it gets
\* no "started".  One that has not this client gets "started".  What a tracker gets
\* that accepted after another first text is left open: "started", for ever, where
\* the documents expect it once (tracker_timeout_handler:179, do_on_success:48-51;
\* easy_callback appends, chk_finished decides afterwards).
EventFitsSwarm ==
  \A t \in HttpTrackers : InFirstRun(t) =>
    /\ trkr[t].update_state => trkr[t].data = "accepted" /\ t \in swarm
    /\ trkr[t].request # "none" =>
         IF trkr[t].update_state THEN trkr[t].event = "update"
         ELSE t \notin swarm => trkr[t].event = "started"

\* No shutdown has met a tracker of the first run.
FirstRun == starts = 1 /\ \A t \in HttpTrackers : InFirstRun(t)

\* The two spaces.  The entry that a tracker's queue_ptr reaches is null while
\* curl has its request, and only then.  Whatever the count began as, since then
\* it has never come to more than the trackers that wait, and comes to just as many
\* if no queue_ptr dangles, which holds for a single tracker only
\* (send_to_protocol_space, return_to_manager_space).
AllLinked == \A t \in HttpTrackers : trkr[t].queue_ptr # 0
SpacesAgree ==
  LET waiting == {t \in HttpTrackers : trkr[t].request = "none"} IN
  FirstRun =>
    /\ \A t \in HttpTrackers : trkr[t].queue_ptr # 0 =>
         manager_space[trkr[t].queue_ptr] = IF t \in waiting THEN t ELSE 0
    /\ InSpace <= Cardinality(waiting)
    /\ AllLinked => InSpace = Cardinality(waiting)

\* While the event loop runs, each tracker with an HTTP URL that no shutdown has
\* met is asked again and again, whatever it answered before and whatever is called.
AskedAgain == \A t \in 1 .. MaxTrackers :
  []<>(looping /\ t \in Trackers /\ has_http(t) /\ trkr[t].requeueable
         => trkr[t].request # "none")

\* How a shutdown of the first run ends.  Its one pass takes every tracker out of
\* the manager's space; the manager is inactive after it only if memory held at
\* least the number of trackers where the count is, and, if no queue_ptr dangles,
\* just if it held that number: from any other first value shutdown_state is run
\* for ever (shutdown_state:256-282; TrackerManager.hpp:36 has no initialiser).
ShutdownOutcome ==
  [][\A event \in {"stopped", "completed"} :
       ShutdownState(event) /\ FirstRun =>
         /\ current_state' = "inactive" => first_count >= Len(urls)
         /\ AllLinked => /\ InSpace' = 0
                         /\ (current_state' = "inactive") <=> first_count = Len(urls)]_vars

\* Every tracker that has this client as a peer has been told of the shutdown
\* when it is complete (the_bittorrent_protocol.md:69).
StoppedAnnounced == current_state = "inactive" => swarm = {}
=============================================================================
