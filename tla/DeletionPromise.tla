--------------------------- MODULE DeletionPromise ---------------------------
(***************************************************************************)
(* What the deletion of an object promises to the rest of the system,      *)
(* without holds, receipts, deliveries or crashes: access is blocked       *)
(* before anything is erased, erased replicas stay erased, and completion  *)
(* is announced once, for a non-empty set of required replicas all of      *)
(* which are gone.  DeletionCoordinator implements it.                     *)
(***************************************************************************)
CONSTANTS Replicas, Required

VARIABLES
    blocked,     \* is logical access to the object blocked?
    registered,  \* replicas known to exist or to have existed
    gone,        \* replicas that were erased
    announced    \* the replicas whose deletion was announced; {} before

vars == <<blocked, registered, gone, announced>>

Init ==
    /\ blocked = FALSE
    /\ registered \in SUBSET Replicas
    /\ gone = {}
    /\ announced = {}

Block ==
    /\ ~blocked
    /\ blocked' = TRUE
    /\ UNCHANGED <<registered, gone, announced>>

Register(r) ==
    /\ r \notin registered
    /\ registered' = registered \cup {r}
    /\ UNCHANGED <<blocked, gone, announced>>

Erase(r) ==
    /\ blocked
    /\ r \in registered \ gone
    /\ gone' = gone \cup {r}
    /\ UNCHANGED <<blocked, registered, announced>>

Announce(required) ==
    /\ announced = {}
    /\ required # {}
    /\ required \subseteq Required \cap gone
    /\ announced' = required
    /\ UNCHANGED <<blocked, registered, gone>>

Next ==
    \/ Block
    \/ \E r \in Replicas : Register(r) \/ Erase(r)
    \/ \E required \in SUBSET Replicas : Announce(required)

Spec == Init /\ [][Next]_vars

=============================================================================
