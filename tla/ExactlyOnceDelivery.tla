------------------------ MODULE ExactlyOnceDelivery ------------------------
(***************************************************************************)
(* What the transactional outbox promises to the rest of the system: an    *)
(* event is enqueued once, its business effect is applied at most once and *)
(* never before it was enqueued, and nothing is acknowledged (PUBLISHED)   *)
(* whose effect was not applied.                                           *)
(***************************************************************************)
EXTENDS Naturals

CONSTANT Event

VARIABLES
    enqueued,   \* events some transaction has committed to the outbox
    effects,    \* effects[e]: committed executions of e's handler
    acked       \* events the outbox currently reports as PUBLISHED

vars == <<enqueued, effects, acked>>

Init ==
    /\ enqueued = {}
    /\ effects = [e \in Event |-> 0]
    /\ acked = {}

Enqueue(e) ==
    /\ e \notin enqueued
    /\ enqueued' = enqueued \cup {e}
    /\ UNCHANGED <<effects, acked>>

\* The handler's transaction commits together with the acknowledgement.
Apply(e) ==
    /\ e \in enqueued
    /\ effects[e] = 0
    /\ effects' = [effects EXCEPT ![e] = 1]
    /\ acked' = acked \cup {e}
    /\ UNCHANGED enqueued

\* An event whose effect is applied is acknowledged again after a redelivery.
Ack(e) ==
    /\ effects[e] = 1
    /\ acked' = acked \cup {e}
    /\ UNCHANGED <<enqueued, effects>>

\* An acknowledged event may be offered for delivery again.
Reoffer(e) ==
    /\ e \in acked
    /\ acked' = acked \ {e}
    /\ UNCHANGED <<enqueued, effects>>

Next == \E e \in Event : Enqueue(e) \/ Apply(e) \/ Ack(e) \/ Reoffer(e)

Spec == Init /\ [][Next]_vars
==============================================================================
