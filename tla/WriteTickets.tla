---------------------------- MODULE WriteTickets ----------------------------
(***************************************************************************)
(* What SerialDuplexScheduler.QueueWrite promises a caller, without queues, *)
(* tasks or fences: an accepted write's ticket is completed exactly once,  *)
(* only safety work may displace lower-priority work, nothing is accepted   *)
(* once the service stops, and when it has stopped no ticket is left open.  *)
(***************************************************************************)
EXTENDS Integers

CONSTANTS Request, PriorityOf

VARIABLES ticket, service

vars == <<ticket, service>>

Init == ticket = [r \in Request |-> "none"] /\ service = "open"

Pending(r) == ticket[r] = "pending"

Reject(r) ==
    /\ ~Pending(r)
    /\ ticket' = [ticket EXCEPT ![r] = "rejected"]
    /\ service' = service

Accept(r) ==
    /\ service = "open"
    /\ ~Pending(r)
    /\ ticket' = [ticket EXCEPT ![r] = "pending"]
    /\ service' = service

Displace(r, v) ==
    /\ service = "open"
    /\ ~Pending(r) /\ Pending(v)
    /\ PriorityOf[r] = 0 /\ PriorityOf[v] # 0
    /\ ticket' = [ticket EXCEPT ![r] = "pending", ![v] = "superseded"]
    /\ service' = service

Complete(r) ==
    /\ service # "stopped"
    /\ Pending(r)
    /\ \E o \in {"written", "expired", "cancelled", "failed"} :
         ticket' = [ticket EXCEPT ![r] = o]
    /\ service' = service

StopAccepting ==
    /\ service = "open"
    /\ service' = "stopping"
    /\ ticket' = ticket

Stopped ==
    /\ service = "stopping"
    /\ service' = "stopped"
    /\ ticket' = [r \in Request |-> IF Pending(r) THEN "cancelled" ELSE ticket[r]]

Next ==
    \/ \E r \in Request : Reject(r) \/ Accept(r) \/ Complete(r)
    \/ \E r, v \in Request : Displace(r, v)
    \/ StopAccepting \/ Stopped

Spec == Init /\ [][Next]_vars
=============================================================================
