------------------------------- MODULE AuditChain ------------------------------
(***************************************************************************)
(* The audit hash chain (core/audit.py).  A handler asks whether the sink  *)
(* is available, changes its data, and only then writes; the one writer of *)
(* the application serialises writers with a lock, and the sink may go     *)
(* away at any moment.  Every tenant and domain (a scope) has a chain of   *)
(* its own in the one list of events.                                      *)
(***************************************************************************)
EXTENDS Naturals, Sequences, FiniteSets

CONSTANTS
    Scopes,         \* (tenant, data domain) pairs
    Handlers,       \* requests that write to the audit log
    Outcomes,       \* what an event says happened
    MaxEvents       \* bound on the length of the log

VARIABLES
    events,         \* the sink's list of events
    available,      \* the sink accepts events
    lock,           \* handler that holds the writer's lock
    handler         \* where each handler stands

auditVars == <<events, available, lock, handler>>

None == "none"

ASSUME HandlersAssumption == None \notin Handlers

GENESIS_HASH == <<>>

Idle == [step |-> "idle", scope |-> None, outcome |-> None, previous |-> GENESIS_HASH]

Init ==
    /\ events = <<>>
    /\ available = TRUE
    /\ lock = None
    /\ handler = [h \in Handlers |-> Idle]

(* SHA-256 over the canonical JSON of all fields but the hash itself is    *)
(* taken to be injective: the hash is the tuple of those fields.           *)
Hash(id, scope, outcome, previous) == <<id, scope, outcome, previous>>

AuditEvent(id, scope, outcome, previous) ==
    [audit_id |-> id, scope |-> scope, outcome |-> outcome,
     previous_hash |-> previous, event_hash |-> Hash(id, scope, outcome, previous)]

Matches(s) == {i \in DOMAIN events : events[i].scope = s}

(* The place of a scope's k-th event in the list. *)
Nth(s, k) == CHOOSE i \in Matches(s) : Cardinality({j \in Matches(s) : j <= i}) = k

list_events(s) == [k \in 1..Cardinality(Matches(s)) |-> events[Nth(s, k)]]

latest_hash(s) ==
    IF Matches(s) = {} THEN GENESIS_HASH
    ELSE events[CHOOSE i \in Matches(s) : \A j \in Matches(s) : j <= i].event_hash

(* require_audit: the handler is refused when the sink is known to be away.*)
require_audit(h, s, o) ==
    /\ handler[h].step = "idle"
    /\ available
    /\ handler' = [handler EXCEPT ![h] =
         [step |-> "changed", scope |-> s, outcome |-> o, previous |-> GENESIS_HASH]]
    /\ UNCHANGED <<events, available, lock>>

(* write: the second look at the sink.  The change is already stored, and  *)
(* stays without an event when the sink went away meanwhile.               *)
BeginWrite(h) ==
    /\ handler[h].step = "changed"
    /\ handler' = [handler EXCEPT ![h] = IF available THEN [@ EXCEPT !.step = "waiting"] ELSE Idle]
    /\ UNCHANGED <<events, available, lock>>

(* Mutant: the chain's head is read without the lock. *)
AcquireFree(h) ==
    /\ handler[h].step = "waiting"
    /\ lock' = h
    /\ handler' = [handler EXCEPT ![h].step = "linked",
                                  ![h].previous = latest_hash(handler[h].scope)]
    /\ UNCHANGED <<events, available>>

Acquire(h) ==
    /\ handler[h].step = "waiting"
    /\ lock = None
    /\ lock' = h
    /\ handler' = [handler EXCEPT ![h].step = "linked",
                                  ![h].previous = latest_hash(handler[h].scope)]
    /\ UNCHANGED <<events, available>>

NewId == Len(events) + 1

(* append raises when the sink went away meanwhile; the lock is released   *)
(* either way.                                                             *)
AppendEvent(h) ==
    /\ handler[h].step = "linked"
    /\ Len(events) < MaxEvents
    /\ events' = IF available
                 THEN Append(events, AuditEvent(NewId, handler[h].scope, handler[h].outcome,
                                                handler[h].previous))
                 ELSE events
    /\ handler' = [handler EXCEPT ![h] = Idle]
    /\ lock' = None
    /\ UNCHANGED available

set_available(value) ==
    /\ available # value
    /\ available' = value
    /\ UNCHANGED <<events, lock, handler>>

Next ==
    \/ \E h \in Handlers, s \in Scopes, o \in Outcomes : require_audit(h, s, o)
    \/ \E h \in Handlers : BeginWrite(h) \/ Acquire(h) \/ AppendEvent(h)
    \/ \E value \in BOOLEAN : set_available(value)

Spec == Init /\ [][Next]_auditVars

-----------------------------------------------------------------------------
verify_hash_chain(log) ==
    \A i \in DOMAIN log :
      /\ log[i].scope = log[1].scope
      /\ log[i].previous_hash = IF i = 1 THEN GENESIS_HASH ELSE log[i-1].event_hash
      /\ log[i].event_hash = Hash(log[i].audit_id, log[i].scope, log[i].outcome,
                                  log[i].previous_hash)

(* A stored log somebody tampered with: an event left out, two exchanged,  *)
(* one of another scope put in, one altered with its hash as it was or     *)
(* with a hash computed afresh.  (An empty log takes any scope's events:   *)
(* the verifier learns the scope from the first event.)                    *)
Without(log, i) == SubSeq(log, 1, i - 1) \o SubSeq(log, i + 1, Len(log))
Swapped(log, i, j) == [log EXCEPT ![i] = log[j], ![j] = log[i]]
Altered(log, i, o) == [log EXCEPT ![i].outcome = o]
Rehashed(log, i, o) ==
    [log EXCEPT ![i] = AuditEvent(log[i].audit_id, log[i].scope, o, log[i].previous_hash)]
Tampered(log) ==
    {Without(log, i) : i \in DOMAIN log}
      \cup {Swapped(log, i, j) : i, j \in DOMAIN log}
      \cup {Altered(log, i, o) : i \in DOMAIN log, o \in Outcomes}
      \cup {Append(log, events[i]) : i \in IF log = <<>> THEN {} ELSE DOMAIN events}

IsPrefixOf(short, log) == Len(short) <= Len(log) /\ short = SubSeq(log, 1, Len(short))

TypeOK ==
    /\ \A i \in DOMAIN events :
         events[i] = AuditEvent(i, events[i].scope, events[i].outcome, events[i].previous_hash)
    /\ available \in BOOLEAN
    /\ lock \in Handlers \cup {None}
    /\ \A h \in Handlers : handler[h].step \in {"idle", "changed", "waiting", "linked"}

(* Whatever the order in which handlers reach the writer and whenever the  *)
(* sink goes away, each scope's events form one unbroken chain:            *)
(* verify_hash_chain accepts every scope's log.                            *)
ChainVerifies == \A s \in Scopes : verify_hash_chain(list_events(s))

(* verify_hash_chain detects tampering: of all the altered copies it       *)
(* accepts only those that are a beginning of the true log, and an event   *)
(* whose hash was computed afresh only in the last place (no anchor of the *)
(* last hash is kept anywhere).                                            *)
TamperingIsSeen ==
    \A s \in Scopes :
      /\ \A log \in Tampered(list_events(s)) :
           verify_hash_chain(log) => IsPrefixOf(log, list_events(s))
      /\ \A i \in DOMAIN list_events(s), o \in Outcomes :
           verify_hash_chain(Rehashed(list_events(s), i, o)) =>
             i = Len(list_events(s)) \/ o = list_events(s)[i].outcome

(* The audit writer keeps one chain per scope and the verifier sees what   *)
(* was done to it (core/audit.py).                                         *)
AuditInv ==
    /\ TypeOK
    /\ ChainVerifies
    /\ TamperingIsSeen

=============================================================================
