------------------------------ MODULE AccessControl ----------------------------
(***************************************************************************)
(* Who may do what to which item (core/auth.py, the guards of              *)
(* modules/projects and modules/evidence, and the scope filter of the      *)
(* repositories).  The roles a guard accepts are written down twice: in    *)
(* the guards themselves and in the permissions an identity reports.       *)
(***************************************************************************)
EXTENDS Naturals, FiniteSets, FiniteSetsExt

CONSTANTS
    Tenants,        \* (tenant, data domain) pairs
    ScopedItems,    \* projects and units that exist
    TenantOf,       \* the tenant of each item
    MaxRoles        \* bound on the roles of one identity

VARIABLES
    identity,       \* the authenticated caller
    answer          \* what the last request was answered

accessVars == <<identity, answer>>

Role == {"PROJECT_MANAGER", "RULE_EDITOR", "BID_MANAGER", "TENANT_ADMIN", "DOCUMENT_STEWARD",
         "LEGAL_PRIVACY", "AUDITOR", "APPROVER", "COMMERCIAL_ANALYST", "PRIVACY_OFFICER",
         "DOCUMENT_SPECIALIST", "TECHNICAL_LEAD", "FINANCE_AUTHOR", "FINANCE_APPROVER",
         "SYSTEM_ADMIN"}

(* One permission stands for each group that the tables never separate.    *)
Permission == {"fr-01:read", "fr-01:write", "fr-01:publish", "fr-03:read", "fr-03:author",
               "fr-03:review", "fr-03:condition", "fr-04:read", "fr-04:create", "fr-04:approve"}

(* The roles the guards of the handlers accept. *)
FR01Roles == [p \in {"fr-01:read", "fr-01:write", "fr-01:publish"} |->
    CASE p = "fr-01:read"    -> {"PROJECT_MANAGER", "RULE_EDITOR", "BID_MANAGER", "TENANT_ADMIN",
                                 "DOCUMENT_STEWARD", "LEGAL_PRIVACY", "AUDITOR", "APPROVER"}
      [] p = "fr-01:write"   -> {"PROJECT_MANAGER", "RULE_EDITOR", "BID_MANAGER", "TENANT_ADMIN"}
      [] p = "fr-01:publish" -> {"BID_MANAGER", "LEGAL_PRIVACY", "PROJECT_MANAGER", "RULE_EDITOR"}]

FR0304Roles == [p \in Permission \ DOMAIN FR01Roles |->
    CASE p = "fr-03:read"      -> {"PROJECT_MANAGER", "DOCUMENT_STEWARD", "COMMERCIAL_ANALYST",
                                   "PRIVACY_OFFICER", "BID_MANAGER", "DOCUMENT_SPECIALIST",
                                   "TECHNICAL_LEAD", "APPROVER"}
      [] p = "fr-03:author"    -> {"DOCUMENT_SPECIALIST", "TECHNICAL_LEAD"}
      [] p = "fr-03:review"    -> {"DOCUMENT_STEWARD"}
      [] p = "fr-03:condition" -> {"PRIVACY_OFFICER", "BID_MANAGER", "APPROVER"}
      [] p = "fr-04:read"      -> {"PROJECT_MANAGER", "COMMERCIAL_ANALYST", "PRIVACY_OFFICER",
                                   "BID_MANAGER", "FINANCE_AUTHOR", "FINANCE_APPROVER"}
      [] p = "fr-04:create"    -> {"COMMERCIAL_ANALYST", "FINANCE_AUTHOR"}
      [] p = "fr-04:approve"   -> {"FINANCE_APPROVER"}]

(* The operations that also ask for a second factor: all but reading and   *)
(* the creation of drafts of evidence and costs.                           *)
NeedsMfa == {"fr-01:write", "fr-01:publish", "fr-03:review", "fr-03:condition", "fr-04:approve"}

Fr01Guard(p, mfa, roles) ==
    /\ p \in DOMAIN FR01Roles
    /\ p \in NeedsMfa => mfa
    /\ roles \cap FR01Roles[p] # {}

(* fr-03:author covers creation, which needs no second factor, and         *)
(* publication, which does; the weaker is modelled.                        *)
RoleGuard(p, mfa, roles) ==
    /\ p \in DOMAIN FR0304Roles
    /\ p \in NeedsMfa => mfa
    /\ roles \cap FR0304Roles[p] # {}

(* The permissions each role reports. *)
FR01_READ_WRITE == {"fr-01:read", "fr-01:write"}

DOMAIN_ROLE_PERMISSIONS(r) ==
    CASE r = "PROJECT_MANAGER"     -> FR01_READ_WRITE \cup {"fr-01:publish", "fr-03:read", "fr-04:read"}
      [] r = "RULE_EDITOR"         -> FR01_READ_WRITE \cup {"fr-01:publish"}
      [] r = "BID_MANAGER"         -> FR01_READ_WRITE \cup
                                        {"fr-01:publish", "fr-03:read", "fr-04:read", "fr-03:condition"}
      [] r = "TENANT_ADMIN"        -> FR01_READ_WRITE
      [] r = "DOCUMENT_STEWARD"    -> {"fr-01:read", "fr-03:read", "fr-03:review"}
      [] r = "LEGAL_PRIVACY"       -> {"fr-01:read", "fr-01:publish"}
      [] r = "AUDITOR"             -> {"fr-01:read"}
      [] r = "APPROVER"            -> {"fr-01:read", "fr-03:read", "fr-03:condition"}
      [] r = "COMMERCIAL_ANALYST"  -> {"fr-03:read", "fr-04:read", "fr-04:create"}
      [] r = "PRIVACY_OFFICER"     -> {"fr-03:read", "fr-04:read", "fr-03:condition"}
      [] r = "DOCUMENT_SPECIALIST" -> {"fr-03:read", "fr-03:author"}
      [] r = "TECHNICAL_LEAD"      -> {"fr-03:read", "fr-03:author"}
      [] r = "FINANCE_AUTHOR"      -> {"fr-04:read", "fr-04:create"}
      [] r = "FINANCE_APPROVER"    -> {"fr-04:read", "fr-04:approve"}
      [] OTHER                     -> {}

permissions(roles) == UNION {DOMAIN_ROLE_PERMISSIONS(r) : r \in roles}

-----------------------------------------------------------------------------
(* A token names a tenant and the items, or all items, of its bearer.      *)
TenantScope == [tenant : Tenants, items : SUBSET ScopedItems, all : BOOLEAN]

(* The services pass the caller's own tenant, so the comparison of tenants *)
(* is left to the repository; an empty list of items allows none here.     *)
assert_allows(scope, i) == scope.all \/ i \in scope.items

(* Mutant: the repository leaves the tenant to the service. *)
_scope_ok_items(scope, i) == scope.all \/ scope.items = {} \/ i \in scope.items

(* In the repository an empty list of items restricts nothing.             *)
_scope_ok(scope, i) ==
    /\ TenantOf[i] = scope.tenant
    /\ scope.all \/ scope.items = {} \/ i \in scope.items

Init ==
    /\ identity = [roles |-> {}, mfa |-> FALSE, scope |-> [tenant |-> CHOOSE t \in Tenants : TRUE,
                                                          items |-> {}, all |-> FALSE]]
    /\ answer = <<"none">>

(* A token without a known role is refused. *)
authenticate(roles, mfa, scope) ==
    /\ roles # {}
    /\ identity' = [roles |-> roles, mfa |-> mfa, scope |-> scope]
    /\ answer' = <<"none">>

(* A request about one item: the guard, the service's check, the           *)
(* repository's filter.                                                    *)
request(p, i) ==
    /\ answer = <<"none">>
    /\ identity.roles # {}
    /\ answer' = IF ~Fr01Guard(p, identity.mfa, identity.roles)
                    /\ ~RoleGuard(p, identity.mfa, identity.roles)
                 THEN <<"denied", p, i>>
                 ELSE IF assert_allows(identity.scope, i) /\ _scope_ok(identity.scope, i)
                 THEN <<"served", p, i>>
                 ELSE <<"not found", p, i>>
    /\ UNCHANGED identity

Next ==
    \/ /\ identity.roles = {}
       /\ \E n \in 1..MaxRoles : \E roles \in kSubset(n, Role), mfa \in BOOLEAN, scope \in TenantScope :
            authenticate(roles, mfa, scope)
    \/ \E p \in Permission, i \in ScopedItems : request(p, i)

Spec == Init /\ [][Next]_accessVars

-----------------------------------------------------------------------------
TypeOK ==
    /\ identity.roles \subseteq Role /\ identity.scope \in TenantScope /\ identity.mfa \in BOOLEAN
    /\ answer[1] \in {"none", "served", "denied", "not found"}

(* What /me reports is what the guards do: a request is denied exactly     *)
(* when the permission is not among the reported ones or a second factor   *)
(* is missing, for every combination of roles one person may hold.         *)
ProjectionMatchesGuards ==
    answer[1] # "none" =>
      (answer[1] = "denied" <=>
         answer[2] \notin permissions(identity.roles) \/ (answer[2] \in NeedsMfa /\ ~identity.mfa))

(* Nobody is served an item of another tenant or one outside the items of  *)
(* the token, although the service compares the caller's tenant only with  *)
(* itself.                                                                 *)
ServedIsInScope ==
    answer[1] = "served" =>
      /\ TenantOf[answer[3]] = identity.scope.tenant
      /\ identity.scope.all \/ answer[3] \in identity.scope.items

(* What the tables of roles, permissions and scopes promise together. *)
AccessInv ==
    /\ TypeOK
    /\ ProjectionMatchesGuards
    /\ ServedIsInScope

=============================================================================
