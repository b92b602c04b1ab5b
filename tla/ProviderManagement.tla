--------------------------- MODULE ProviderManagement --------------------------
(***************************************************************************)
(* AI provider catalogs and a tenant's provider configurations             *)
(* (modules/model_governance/application/provider_management.py).  Every   *)
(* command holds one lock from its reads to its last write, so commands    *)
(* do not interleave; but the secret store, the provider runtime and the   *)
(* audit sink are called in the middle, and when one of them raises, the   *)
(* command ends there and what it already changed stays.  `fault' names    *)
(* the call that raised.                                                   *)
(*                                                                         *)
(* A command that returned is remembered under its idempotency key and a   *)
(* repetition changes nothing; one that raised is not remembered, and its  *)
(* repetition is a new call.  All configurations are for one provider and  *)
(* one of its models; they differ in catalog and purpose.                  *)
(***************************************************************************)
EXTENDS Naturals, FiniteSets

CONSTANTS
    People,     \* who creates and decides catalogs
    Catalogs,   \* catalog versions
    Configs,    \* configuration ids, numbers in the order of creation
    Purposes,   \* purposes of a configuration
    Nobody,     \* no person
    NoCatalog,  \* no published catalog
    MaxFaults   \* bound on the commands that end in the middle

(* A configuration names 0 as its predecessor when it has none. *)
ASSUME ProviderAssumption ==
    /\ Catalogs # {} /\ Purposes # {}
    /\ 0 \notin Configs
    /\ Nobody \notin People
    /\ MaxFaults \in Nat

VARIABLES
    catalogs,       \* _catalogs
    published,      \* _published_catalog_id
    configs,        \* _configurations
    secret,         \* the secret store: what each configuration's key may do
    proved,         \* keys the provider has accepted in a connection test
    deletionJobs,   \* configurations whose remote deletion was enqueued
    registered,     \* per catalog, the configurations of the external model
                    \* reference that deployments are checked against
    faults          \* history: how many commands ended in the middle

providerVars == <<catalogs, published, configs, secret, proved, deletionJobs,
                  registered, faults>>

ProviderCatalogVersion == [state : {"ABSENT", "DRAFT", "PUBLISHED", "REVOKED"},
                           createdBy : People \cup {Nobody},
                           decidedBy : People \cup {Nobody}]

ProviderActivationState == {"INACTIVE", "VERIFIED", "ACTIVE", "SUSPENDED",
                            "REVOKED"}

ProviderCredentialState == {"MISSING", "UNVERIFIED", "VALID", "INVALID",
                            "REVOKED"}

CredentialUsageScope == {"NONE", "TEST_ONLY", "BUSINESS_AND_DELETION",
                         "DELETION_ONLY"}

(* hasKey: the credential metadata is there. *)
AIProviderConfiguration ==
    [state : ProviderActivationState \cup {"ABSENT"},
     credential : ProviderCredentialState, scope : CredentialUsageScope,
     hasKey : BOOLEAN, current : BOOLEAN, catalog : Catalogs \cup {NoCatalog},
     purpose : Purposes, supersedes : Configs \cup {0},
     mode : {"NONE", "NORMAL", "COMPROMISE"}]

NoConfig ==
    [state |-> "ABSENT", credential |-> "MISSING", scope |-> "NONE",
     hasKey |-> FALSE, current |-> TRUE, catalog |-> NoCatalog,
     purpose |-> CHOOSE p \in Purposes : TRUE, supersedes |-> 0,
     mode |-> "NONE"]

TypeOK ==
    /\ catalogs \in [Catalogs -> ProviderCatalogVersion]
    /\ published \in Catalogs \cup {NoCatalog}
    /\ configs \in [Configs -> AIProviderConfiguration]
    /\ secret \in [Configs -> CredentialUsageScope \cup {"DESTROYED"}]
    /\ proved \subseteq Configs
    /\ deletionJobs \subseteq Configs
    /\ registered \in [Catalogs -> SUBSET Configs]
    /\ faults \in 0..MaxFaults

NoCatalogVersion ==
    [state |-> "ABSENT", createdBy |-> Nobody, decidedBy |-> Nobody]

(* Nothing yet, or one catalog that was created and published. *)
Init ==
    /\ \/ /\ published = NoCatalog
          /\ catalogs = [k \in Catalogs |-> NoCatalogVersion]
       \/ \E author, checker \in People :
            /\ author # checker
            /\ published = CHOOSE k \in Catalogs : TRUE
            /\ catalogs = [k \in Catalogs |->
                 IF k = published
                 THEN [state |-> "PUBLISHED", createdBy |-> author,
                       decidedBy |-> checker]
                 ELSE NoCatalogVersion]
    /\ configs = [c \in Configs |-> NoConfig]
    /\ secret = [c \in Configs |-> "NONE"]
    /\ proved = {}
    /\ deletionJobs = {}
    /\ registered = [k \in Catalogs |-> {}]
    /\ faults = 0

Fault(fault) ==
    faults' = IF fault = "none" THEN faults ELSE faults + 1

-----------------------------------------------------------------------------
(* Catalogs.                                                               *)

create_catalog(k, u) ==
    /\ catalogs[k].state = "ABSENT"
    /\ catalogs' = [catalogs EXCEPT ![k].state = "DRAFT", ![k].createdBy = u]
    /\ UNCHANGED <<published, configs, secret, proved, deletionJobs, registered, faults>>

(* The pointer moves before the audit write, the catalog after it. *)
PublishCatalog(k, u, fault) ==
    /\ catalogs[k].state = "DRAFT"
    /\ u # catalogs[k].createdBy
    /\ published' = k
    /\ catalogs' = IF fault = "audit" THEN catalogs
                   ELSE [catalogs EXCEPT ![k].state = "PUBLISHED",
                                         ![k].decidedBy = u]
    /\ Fault(fault)
    /\ UNCHANGED <<configs, secret, proved, deletionJobs, registered>>

RevokeCatalog(k, u, fault) ==
    /\ catalogs[k].state = "PUBLISHED"
    /\ u # catalogs[k].createdBy
    /\ published' = IF published = k THEN NoCatalog ELSE published
    /\ catalogs' = IF fault = "audit" THEN catalogs
                   ELSE [catalogs EXCEPT ![k].state = "REVOKED"]
    /\ Fault(fault)
    /\ UNCHANGED <<configs, secret, proved, deletionJobs, registered>>

_published_catalog(k) ==
    k # NoCatalog /\ published = k /\ catalogs[k].state = "PUBLISHED"

-----------------------------------------------------------------------------
(* Configurations.                                                         *)

IsNew(c) == /\ configs[c].state = "ABSENT"
            /\ \A b \in Configs : b < c => configs[b].state # "ABSENT"

create_configuration(c) ==
    /\ IsNew(c)
    /\ _published_catalog(published)
    /\ \E p \in Purposes :
         configs' = [configs EXCEPT ![c] =
           [NoConfig EXCEPT !.state = "INACTIVE", !.catalog = published,
                            !.purpose = p]]
    /\ UNCHANGED <<catalogs, published, secret, proved, deletionJobs,
                   registered, faults>>

(* The ETag covers the whole record and is compared under the lock. *)
update_configuration(c) ==
    /\ configs[c].state \in {"INACTIVE", "VERIFIED"}
    /\ _published_catalog(configs[c].catalog)
    /\ \E p \in Purposes : configs' = [configs EXCEPT ![c].purpose = p]
    /\ UNCHANGED <<catalogs, published, secret, proved, deletionJobs,
                   registered, faults>>

HasNoSuccessor(c) ==
    \A s \in Configs : configs[s].supersedes = c => configs[s].state = "REVOKED"

Successor(c, mode) ==
    [configs[c] EXCEPT !.state = "INACTIVE", !.credential = "MISSING",
                       !.scope = "NONE", !.hasKey = FALSE, !.current = FALSE,
                       !.supersedes = c, !.mode = mode]

(* A planned rotation leaves the old configuration alone. *)
SucceedNormally(c, s) ==
    /\ configs[c].state = "ACTIVE"
    /\ HasNoSuccessor(c)
    /\ IsNew(s)
    /\ configs' = [configs EXCEPT ![s] = Successor(c, "NORMAL")]
    /\ UNCHANGED <<catalogs, published, secret, proved, deletionJobs,
                   registered, faults>>

Compromised(c) ==
    [configs[c] EXCEPT !.state = "REVOKED", !.credential = "REVOKED",
                       !.scope = "NONE", !.current = FALSE]

DestroyKey(c) == [secret EXCEPT ![c] = "DESTROYED"]

(* After a compromise the key is destroyed, the configuration is revoked   *)
(* and its deletion enqueued before the successor is stored.               *)
SucceedCompromised(c, s, fault) ==
    /\ configs[c].state = "ACTIVE"
    /\ HasNoSuccessor(c)
    /\ IsNew(s)
    /\ secret' = DestroyKey(c)
    /\ configs' = IF fault = "none"
                  THEN [configs EXCEPT ![c] = Compromised(c),
                                       ![s] = Successor(c, "COMPROMISE")]
                  ELSE [configs EXCEPT ![c] = Compromised(c)]
    /\ deletionJobs' = IF fault = "enqueue" THEN deletionJobs
                                            ELSE deletionJobs \cup {c}
    /\ Fault(fault)
    /\ UNCHANGED <<catalogs, published, proved, registered>>

-----------------------------------------------------------------------------
(* Credentials.                                                            *)

(* Mutant: a suspended configuration takes a new key. *)
TakesKeySuspended(c) == configs[c].state \in {"INACTIVE", "VERIFIED", "SUSPENDED"}

TakesKey(c) == configs[c].state \in {"INACTIVE", "VERIFIED"}

WithNewKey(c) ==
    [configs[c] EXCEPT !.state = "INACTIVE", !.credential = "UNVERIFIED",
                       !.scope = "TEST_ONLY", !.hasKey = TRUE]

(* When the audit write fails, or the store answers with another scope,    *)
(* the new key is destroyed; a key that it replaced is retired already.    *)
set_credential(c, fault) ==
    /\ TakesKey(c)
    /\ IF fault = "none"
       THEN /\ configs' = [configs EXCEPT ![c] = WithNewKey(c)]
            /\ secret' = [secret EXCEPT ![c] = "TEST_ONLY"]
            /\ proved' = proved \ {c}
       ELSE /\ configs[c].hasKey
            /\ secret' = DestroyKey(c)
            /\ UNCHANGED <<configs, proved>>
    /\ Fault(fault)
    /\ UNCHANGED <<catalogs, published, deletionJobs, registered>>

(* The provider accepts the key, refuses it, or cannot tell. *)
test_connection(c, outcome) ==
    /\ configs[c].state \in {"INACTIVE", "VERIFIED"}
    /\ configs[c].credential \in {"UNVERIFIED", "VALID"}
    /\ configs[c].scope = "TEST_ONLY"
    /\ _published_catalog(configs[c].catalog)
    /\ outcome = "accepted" => secret[c] = "TEST_ONLY"
    /\ configs' = [configs EXCEPT
         ![c].state = IF outcome = "accepted" THEN "VERIFIED" ELSE "INACTIVE",
         ![c].credential = CASE outcome = "accepted" -> "VALID"
                             [] outcome = "refused" -> "INVALID"
                             [] OTHER -> @]
    /\ proved' = IF outcome = "accepted" THEN proved \cup {c} ELSE proved
    /\ UNCHANGED <<catalogs, published, secret, deletionJobs, registered, faults>>

(* The secret store: a key that is gone stays gone. *)
Restrict(store, c) ==
    [store EXCEPT ![c] = IF @ = "DESTROYED" THEN @ ELSE "DELETION_ONLY"]

-----------------------------------------------------------------------------
(* Activation.                                                             *)

SameUse(b, c) == b # c /\ configs[b].purpose = configs[c].purpose

NoOtherActive(c) ==
    \A b \in Configs : (SameUse(b, c) /\ configs[b].state = "ACTIVE") =>
        configs[c].supersedes = b

(* Mutant: the predecessor's key is left as it is. *)
RetirePredecessorNot(c) == secret

RetirePredecessor(c) ==
    LET p == configs[c].supersedes
    IN  IF p # 0 /\ configs[p].hasKey THEN Restrict(secret, p) ELSE secret

(* The predecessor is written as SUSPENDED whatever it was. *)
Activated(c) ==
    LET p == configs[c].supersedes
    IN  [b \in Configs |->
          CASE b = c -> [configs[c] EXCEPT !.state = "ACTIVE", !.current = TRUE,
                                           !.scope = "BUSINESS_AND_DELETION"]
            [] b = p /\ configs[b].hasKey ->
                 [configs[b] EXCEPT !.state = "SUSPENDED", !.current = FALSE,
                                    !.scope = "DELETION_ONLY"]
            [] OTHER -> configs[b]]

(* Whether the legal basis, the policy, the PIA and the cross-border       *)
(* assessment are in force and were decided by others is up to the privacy *)
(* records: an activation they refuse changes nothing.                     *)
(* The old key is restricted, then the new key promoted, then the audit    *)
(* written, and only then are the configurations stored and the external   *)
(* model reference of the catalog replaced.                                *)
activate_configuration(c, fault) ==
    /\ configs[c].state = "VERIFIED"
    /\ configs[c].credential = "VALID"
    /\ configs[c].scope = "TEST_ONLY"
    /\ _published_catalog(configs[c].catalog)
    /\ NoOtherActive(c)
    /\ secret[c] = "DESTROYED" => fault = "promote"
    /\ secret' = IF fault = "promote" THEN RetirePredecessor(c)
                 ELSE [RetirePredecessor(c) EXCEPT
                         ![c] = "BUSINESS_AND_DELETION"]
    /\ IF fault = "none"
       THEN /\ configs' = Activated(c)
            /\ registered' = [registered EXCEPT ![configs[c].catalog] = {c}]
       ELSE UNCHANGED <<configs, registered>>
    /\ Fault(fault)
    /\ UNCHANGED <<catalogs, published, proved, deletionJobs>>

-----------------------------------------------------------------------------
(* Stopping.                                                               *)

Stopped(c, target) ==
    [configs[c] EXCEPT
        !.state = target,
        !.current = IF target = "REVOKED" THEN FALSE ELSE @,
        !.scope = IF configs[c].hasKey THEN "DELETION_ONLY" ELSE "NONE"]

(* The state is stored before the audit is written and the key restricted. *)
(* What is in the target state already is not touched again, though it may *)
(* be there through a call that failed.                                    *)
_apply_stop(c, target, fault) ==
    /\ configs[c].state # "ABSENT"
    /\ \/ /\ configs[c].state = target
          /\ UNCHANGED <<configs, secret>>
       \/ /\ configs[c].state \notin {target, "REVOKED"}
          /\ configs' = [configs EXCEPT ![c] = Stopped(c, target)]
          /\ secret' = IF configs[c].hasKey /\ fault # "stop"
                       THEN Restrict(secret, c) ELSE secret

suspend_configuration(c, fault) ==
    /\ _apply_stop(c, "SUSPENDED", fault)
    /\ Fault(fault)
    /\ UNCHANGED <<catalogs, published, proved, deletionJobs, registered>>

EnqueueDeletion(c) == deletionJobs \cup {c}

revoke_configuration(c, fault) ==
    /\ _apply_stop(c, "REVOKED", fault)
    /\ deletionJobs' = IF fault = "none" THEN EnqueueDeletion(c) ELSE deletionJobs
    /\ Fault(fault)
    /\ UNCHANGED <<catalogs, published, proved, registered>>

(* Whatever the configuration was, also REVOKED, it is SUSPENDED after. *)
revoke_credential(c, fault) ==
    /\ configs[c].hasKey
    /\ secret' = Restrict(secret, c)
    /\ configs' = [configs EXCEPT ![c].state = "SUSPENDED",
                                  ![c].scope = "DELETION_ONLY"]
    /\ deletionJobs' = IF fault = "none" THEN EnqueueDeletion(c) ELSE deletionJobs
    /\ Fault(fault)
    /\ UNCHANGED <<catalogs, published, proved, registered>>

(* What can raise, within the bound. *)
Faults(calls) == {"none"} \cup IF faults < MaxFaults THEN calls ELSE {}

CatalogRequests ==
    \E k \in Catalogs, u \in People, fault \in Faults({"audit"}) :
        \/ create_catalog(k, u)
        \/ PublishCatalog(k, u, fault)
        \/ RevokeCatalog(k, u, fault)

ConfigurationRequests ==
    \E c, s \in Configs, fault \in Faults({"enqueue", "audit"}) :
        \/ create_configuration(c)
        \/ update_configuration(c)
        \/ SucceedNormally(c, s)
        \/ SucceedCompromised(c, s, fault)

CredentialRequests ==
    \E c \in Configs, fault \in Faults({"audit"}),
       outcome \in {"accepted", "refused", "unclear"} :
        \/ set_credential(c, fault)
        \/ test_connection(c, outcome)
        \/ revoke_credential(c, fault)

ActivationRequests ==
    \E c \in Configs :
        \/ \E fault \in Faults({"promote", "audit"}) :
             activate_configuration(c, fault)
        \/ \E fault \in Faults({"stop"}) : suspend_configuration(c, fault)
        \/ \E fault \in Faults({"stop", "enqueue"}) :
             revoke_configuration(c, fault)

Next ==
    \/ CatalogRequests
    \/ ConfigurationRequests
    \/ CredentialRequests
    \/ ActivationRequests

Spec == Init /\ [][Next]_providerVars

-----------------------------------------------------------------------------
(* Properties.                                                             *)

(* At most one configuration serves a purpose, whatever rotations and      *)
(* failures came before (provider_management.py:1065-1087).                *)
OneActivePerUse ==
    \A b, c \in Configs :
        (configs[b].state = "ACTIVE" /\ configs[c].state = "ACTIVE"
           /\ configs[b].purpose = configs[c].purpose) => b = c

(* An active configuration's key is one the provider accepted: a new key   *)
(* always goes through a test of its own (805-846, 940-963, 1050-1056).    *)
ActiveKeyWasProved ==
    \A c \in Configs : configs[c].state = "ACTIVE" => c \in proved

(* While no command failed half-way, exactly the keys of active            *)
(* configurations may do business: activation, rotation, suspension and    *)
(* revocation keep the secret store in step (1092-1122, 1223-1247).        *)
BusinessKeysAreActive ==
    faults = 0 => \A c \in Configs :
        (secret[c] = "BUSINESS_AND_DELETION") <=> (configs[c].state = "ACTIVE")

(* What was suspended or revoked never serves again, not even when a       *)
(* successor's activation or a credential's revocation writes it once more *)
(* (614-617, 785-793, 1102, 1213, 1339).                                   *)
StoppedStaysStopped ==
    [][\A c \in Configs : configs[c].state \in {"SUSPENDED", "REVOKED"} =>
          configs'[c].state \in {"SUSPENDED", "REVOKED"}]_providerVars

(* A key that leaked is gone before the successor it caused exists, and it *)
(* never comes back (697-731).                                             *)
CompromisedIsGone ==
    \A s \in Configs : configs[s].mode = "COMPROMISE" =>
        \A c \in Configs : configs[s].supersedes = c =>
            secret[c] = "DESTROYED" /\ configs[c].state # "ACTIVE"

(* A configuration has at most one successor that is not stopped (687-694). *)
OneSuccessor ==
    \A r, s \in Configs :
        LET Alive(x) == configs[x].state \in {"INACTIVE", "VERIFIED", "ACTIVE"}
        IN  (Alive(r) /\ Alive(s) /\ configs[r].supersedes # 0
               /\ configs[r].supersedes = configs[s].supersedes) => r = s

(* While no command failed half-way, the current catalog is one that a     *)
(* second person published and nobody revoked (420-462).                   *)
CurrentCatalogIsPublished ==
    (faults = 0 /\ published # NoCatalog) =>
        /\ catalogs[published].state = "PUBLISHED"
        /\ catalogs[published].decidedBy \notin
             {Nobody, catalogs[published].createdBy}

(* While no command failed half-way, every revoked configuration has its   *)
(* remote deletion enqueued, after a compromise too (723-731, 1284-1290).  *)
RevokedIsDeleted ==
    faults = 0 => \A c \in Configs :
        configs[c].state = "REVOKED" => c \in deletionJobs

(* "If it fails the old ACTIVE stays as it was": an active configuration   *)
(* keeps its key while its successor's activation fails.  Refuted: the old *)
(* key is restricted before the new one is promoted and audited.           *)
RotationFailureKeepsOldKey ==
    \A c \in Configs : configs[c].state = "ACTIVE" =>
        secret[c] = "BUSINESS_AND_DELETION"

(* What provider management promises of catalogs, configurations, keys and *)
(* deletion jobs together (provider_management.py:420-1290).               *)
ProviderInv ==
    /\ TypeOK
    /\ OneActivePerUse
    /\ ActiveKeyWasProved
    /\ BusinessKeysAreActive
    /\ CompromisedIsGone
    /\ OneSuccessor
    /\ CurrentCatalogIsPublished
    /\ RevokedIsDeleted

=============================================================================
