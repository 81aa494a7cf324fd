---------------------------- MODULE PeerLifecycle ----------------------------
(***************************************************************************)
(* What the connection manager promises of each endpoint, whatever slot,   *)
(* socket, timer or queue it uses: an endpoint has one connection at most, *)
(* it gets past "shaking" only by a completed handshake, only a dialled    *)
(* endpoint is kept for a retry, a step moves one endpoint, and no more    *)
(* endpoints are known than there are slots.                               *)
(***************************************************************************)
EXTENDS Integers, FiniteSets

CONSTANTS
  Endpoints,     \* every endpoint
  Discoverable,  \* those the trackers report
  Dialing,       \* those that dial in
  Capacity       \* size of the connection pool

VARIABLE status

Statuses == {"unknown", "dialing", "shaking", "waiting", "connected"}

Known == {a \in Endpoints : status[a] # "unknown"}

Becomes(a, new) == status' = [status EXCEPT ![a] = new]

LifecycleInit == status = [a \in Endpoints |-> "unknown"]

\* A reported endpoint is dialled; the connect may succeed at once.
Dial(a) ==
  /\ a \in Discoverable
  /\ \/ status[a] = "unknown" /\ Cardinality(Known) < Capacity
     \/ status[a] = "waiting"
  /\ Becomes(a, "dialing") \/ Becomes(a, "shaking")

\* The endpoint dials in, and replaces what was known of it; for that one
\* slot must be free.
Accept(a) ==
  /\ a \in Dialing /\ Cardinality(Known) < Capacity
  /\ Becomes(a, "shaking")

Established(a) == status[a] = "dialing" /\ Becomes(a, "shaking")

Connected(a) == status[a] = "shaking" /\ Becomes(a, "connected")

Fail(a) ==
  /\ a \in Discoverable /\ status[a] \in {"dialing", "shaking"}
  /\ Becomes(a, "waiting")

Forget(a) == status[a] # "unknown" /\ Becomes(a, "unknown")

LifecycleNext ==
  \E a \in Endpoints :
    \/ Dial(a) \/ Accept(a) \/ Established(a)
    \/ Connected(a) \/ Fail(a) \/ Forget(a)

LifecycleSpec == LifecycleInit /\ [][LifecycleNext]_status
=============================================================================
