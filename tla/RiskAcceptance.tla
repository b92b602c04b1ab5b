----------------------------- MODULE RiskAcceptance ----------------------------
(***************************************************************************)
(* Risk acceptances (modules/approvals_reports).  A revocation reads its   *)
(* acceptance, decides, and writes back the copy it read, so revocations   *)
(* may overlap; expiry is never stored but seen by whoever reads.          *)
(***************************************************************************)
EXTENDS Naturals

CONSTANTS
    Acceptances,    \* risk acceptance ids
    Revokers,       \* revocation requests, each of another person
    Makers,         \* people
    MaxTime         \* bound on time

VARIABLES
    acceptance,     \* stored risk acceptances
    revocation,     \* acceptance a revocation request has read
    met,            \* history: acceptances two revocations held at once
    now             \* the clock

riskVars == <<acceptance, revocation, met, now>>

None == "none"

RiskAcceptance ==
    [state : {"ABSENT", "ACTIVE", "REVOKED"}, maker : Makers \cup {None},
     approver : Makers \cup {None}, from : 0..MaxTime, until : 0..MaxTime,
     revokedBy : Revokers \cup {None}]

TypeOK ==
    /\ acceptance \in [Acceptances -> RiskAcceptance]
    /\ revocation \in [Revokers -> Acceptances \cup {None, "over"}]
    /\ met \subseteq Acceptances
    /\ now \in 0..MaxTime

NoAcceptance == [state |-> "ABSENT", maker |-> None, approver |-> None,
                 from |-> 0, until |-> 0, revokedBy |-> None]

Init ==
    /\ acceptance = [a \in Acceptances |-> NoAcceptance]
    /\ revocation = [r \in Revokers |-> None]
    /\ met = {}
    /\ now = 0

(* Mutant: the period of a revoked acceptance runs out as well. *)
effective_state_any(a) ==
    IF acceptance[a].state # "ABSENT" /\ now >= acceptance[a].until
    THEN "EXPIRED" ELSE acceptance[a].state

effective_risk_acceptance(a) ==
    IF acceptance[a].state = "ACTIVE" /\ now >= acceptance[a].until
    THEN "EXPIRED" ELSE acceptance[a].state

(* The approver is named by the maker and does nothing. *)
create_risk_acceptance(a, maker, approver, from, until) ==
    /\ acceptance[a].state = "ABSENT"
    /\ maker # approver
    /\ from < until
    /\ acceptance' = [acceptance EXCEPT ![a] =
         [state |-> "ACTIVE", maker |-> maker, approver |-> approver,
          from |-> from, until |-> until, revokedBy |-> None]]
    /\ UNCHANGED <<revocation, met, now>>

Revocable(a) == effective_risk_acceptance(a) = "ACTIVE"

BeginRevoke(r, a) ==
    /\ revocation[r] = None
    /\ Revocable(a)
    /\ revocation' = [revocation EXCEPT ![r] = a]
    /\ met' = IF \E q \in Revokers : revocation[q] = a
              THEN met \cup {a} ELSE met
    /\ UNCHANGED <<acceptance, now>>

revoke(r, a) ==
    /\ revocation[r] = a
    /\ acceptance' = [acceptance EXCEPT ![a].state = "REVOKED",
                                        ![a].revokedBy = r]
    /\ revocation' = [revocation EXCEPT ![r] = "over"]
    /\ UNCHANGED <<met, now>>

Tick ==
    /\ now < MaxTime
    /\ now' = now + 1
    /\ UNCHANGED <<acceptance, revocation, met>>

AcceptanceRequests ==
    \E a \in Acceptances :
        \/ \E maker, approver \in Makers, from, until \in 0..MaxTime :
             create_risk_acceptance(a, maker, approver, from, until)
        \/ \E r \in Revokers : BeginRevoke(r, a) \/ revoke(r, a)

Next == AcceptanceRequests \/ Tick

Spec == Init /\ [][Next]_riskVars

-----------------------------------------------------------------------------
(* Properties.                                                             *)

(* What a reader sees of a risk acceptance only moves on: from active to   *)
(* expired or revoked, and what is revoked stays so as time passes         *)
(* (approvals_reports/domain/models.py:86-96, services.py:204-226).        *)
LapsedStaysLapsed ==
    \A a \in Acceptances :
       LET before == effective_risk_acceptance(a)
           after == effective_risk_acceptance(a)'
       IN  /\ before = "REVOKED" => after = "REVOKED"
           /\ before = "EXPIRED" => after # "ACTIVE"

(* Who revoked an acceptance is never replaced, unless two revocations     *)
(* held it at once (approvals_reports/domain/models.py:3-5).               *)
RevocationIsOnce ==
    \A a \in Acceptances :
       (acceptance[a].state = "REVOKED" /\ a \notin met')
         => acceptance'[a] = acceptance[a]

(* A risk acceptance only moves on, for its readers and in its record      *)
(* (approvals_reports/domain/models.py:86-96, services.py:204-226).        *)
AcceptancesMoveOn ==
    [][/\ LapsedStaysLapsed
       /\ RevocationIsOnce]_riskVars

=============================================================================
