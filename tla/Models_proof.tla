------------------------------ MODULE Models_proof ------------------------------
(***************************************************************************)
(* What provider management promises, for any number of people, catalogs,  *)
(* configurations and purposes, and any number of commands that end in the *)
(* middle.                                                                 *)
(*                                                                         *)
(* Every command is one step, so no intermediate state has to be described *)
(* and the invariant to find is about the records only.  The promises lean *)
(* on three facts that the code never states: the credential field tells   *)
(* whether there is a key and whether the provider accepted that very key; *)
(* an active configuration got there through such a credential; and a      *)
(* configuration whose successor came from a compromise is stopped, so     *)
(* that no command that takes or promotes a key can reach it.              *)
(*                                                                         *)
(* In ModelLifecycle a published dataset, artifact or approval is never    *)
(* taken back, so what an activation checked of its evidence stays true;   *)
(* and the deployment that an activation or a rollback takes out of a      *)
(* slot is followed by one of the same slot in the same step.              *)
(***************************************************************************)
EXTENDS MCModels, TLAPS

(* A configuration that has a credential has its metadata, and one whose   *)
(* credential is VALID has a key that passed a test (805-846, 940-963).    *)
CredentialIsHonest ==
    \A c \in Configs :
        /\ configs[c].credential # "MISSING" => configs[c].hasKey
        /\ configs[c].credential = "VALID" => c \in proved

(* What the activation checked stays true while it serves (1050-1056). *)
ActiveHasProvedKey ==
    \A c \in Configs : configs[c].state = "ACTIVE" =>
        configs[c].hasKey /\ c \in proved

(* The predecessor of a compromise is stopped for good (697-731). *)
CompromisedIsStopped ==
    \A s \in Configs : configs[s].mode = "COMPROMISE" =>
        \A c \in Configs : configs[s].supersedes = c =>
            /\ secret[c] = "DESTROYED"
            /\ configs[c].state \in {"SUSPENDED", "REVOKED"}

(* A configuration does not succeed itself: the successor gets an id of    *)
(* its own (738-746).                                                      *)
SucceedsAnother == \A c \in Configs : configs[c].supersedes # c

(* The inductive invariant. *)
ProviderIndInv ==
    /\ TypeOK
    /\ OneActivePerUse
    /\ CredentialIsHonest
    /\ ActiveHasProvedKey
    /\ BusinessKeysAreActive
    /\ CompromisedIsStopped
    /\ SucceedsAnother
    /\ OneSuccessor
    /\ CurrentCatalogIsPublished
    /\ RevokedIsDeleted

-----------------------------------------------------------------------------
(* A command is counted when a call raises in it, up to the bound; while   *)
(* none is counted, the command that just ended went through to its end.   *)
LEMMA FaultIsCounted ==
    ASSUME TypeOK, NEW at, NEW fault \in Faults(at), Fault(fault)
    PROVE  /\ faults' \in 0..MaxFaults
           /\ faults' = 0 => faults = 0 /\ fault = "none"
  BY ProviderAssumption DEF TypeOK, Faults, Fault

(* Restrict leaves no business key behind and revives no key that is gone. *)
LEMMA RestrictFacts ==
    ASSUME NEW store \in [Configs -> CredentialUsageScope \cup {"DESTROYED"}],
           NEW c \in Configs
    PROVE  /\ Restrict(store, c) \in [Configs -> CredentialUsageScope \cup {"DESTROYED"}]
           /\ Restrict(store, c)[c] \in {"DESTROYED", "DELETION_ONLY"}
           /\ store[c] = "DESTROYED" => Restrict(store, c)[c] = "DESTROYED"
           /\ \A b \in Configs : b # c => Restrict(store, c)[b] = store[b]
  BY DEF Restrict, CredentialUsageScope

(* Initially there is no configuration and at most one published catalog. *)
LEMMA InitInv == Init => ProviderIndInv
<1> SUFFICES ASSUME Init PROVE ProviderIndInv
  OBVIOUS
<1> USE ProviderAssumption DEF Init
<1>1. NoConfig \in AIProviderConfiguration
  BY DEF NoConfig, AIProviderConfiguration, ProviderActivationState,
         ProviderCredentialState, CredentialUsageScope
<1>2. /\ configs \in [Configs -> AIProviderConfiguration]
      /\ \A c \in Configs : /\ configs[c].state = "ABSENT"
                            /\ configs[c].credential = "MISSING"
                            /\ configs[c].mode = "NONE"
                            /\ configs[c].supersedes # c
  BY <1>1 DEF NoConfig
<1>3. /\ published \in Catalogs \cup {NoCatalog}
      /\ catalogs \in [Catalogs -> ProviderCatalogVersion]
      /\ CurrentCatalogIsPublished
  <2>1. CASE published = NoCatalog /\ catalogs = [k \in Catalogs |-> NoCatalogVersion]
    BY <2>1 DEF NoCatalogVersion, ProviderCatalogVersion, CurrentCatalogIsPublished
  <2>2. ASSUME NEW author \in People, NEW checker \in People, author # checker,
               published = CHOOSE k \in Catalogs : TRUE,
               catalogs = [k \in Catalogs |->
                 IF k = published
                 THEN [state |-> "PUBLISHED", createdBy |-> author,
                       decidedBy |-> checker]
                 ELSE NoCatalogVersion]
        PROVE  /\ published \in Catalogs
               /\ catalogs \in [Catalogs -> ProviderCatalogVersion]
               /\ CurrentCatalogIsPublished
    <3>1. published \in Catalogs
      BY <2>2
    <3> QED
      BY <2>2, <3>1 DEF NoCatalogVersion, ProviderCatalogVersion,
                        CurrentCatalogIsPublished
  <2> QED
    BY <2>1, <2>2
<1>4. TypeOK
  BY <1>2, <1>3 DEF TypeOK, CredentialUsageScope
<1> QED
  BY <1>2, <1>3, <1>4 DEF ProviderIndInv, OneActivePerUse, CredentialIsHonest,
     ActiveHasProvedKey, BusinessKeysAreActive, CompromisedIsStopped,
     OneSuccessor, SucceedsAnother, RevokedIsDeleted

-----------------------------------------------------------------------------
(* Catalog commands do not touch configurations; the pointer follows the   *)
(* state of the catalog in every command that goes through.                *)
LEMMA CatalogInv ==
    ASSUME ProviderIndInv, CatalogRequests
    PROVE  ProviderIndInv'
<1> USE DEF ProviderIndInv
<1>1. PICK k \in Catalogs, u \in People, fault \in Faults({"audit"}) :
        create_catalog(k, u) \/ PublishCatalog(k, u, fault) \/ RevokeCatalog(k, u, fault)
  BY DEF CatalogRequests
<1>2. UNCHANGED <<configs, secret, proved, deletionJobs, registered>>
  BY <1>1 DEF create_catalog, PublishCatalog, RevokeCatalog
<1>3. /\ faults' \in 0..MaxFaults
      /\ faults' = 0 => faults = 0 /\ (fault = "none" \/ create_catalog(k, u))
  BY <1>1, FaultIsCounted DEF create_catalog, PublishCatalog, RevokeCatalog, TypeOK
<1>4. /\ published' \in Catalogs \cup {NoCatalog}
      /\ catalogs' \in [Catalogs -> ProviderCatalogVersion]
  BY <1>1 DEF create_catalog, PublishCatalog, RevokeCatalog, TypeOK,
              ProviderCatalogVersion
<1>5. CurrentCatalogIsPublished'
  <2> SUFFICES ASSUME faults' = 0, published' # NoCatalog
               PROVE  /\ catalogs'[published'].state = "PUBLISHED"
                      /\ catalogs'[published'].decidedBy \notin
                           {Nobody, catalogs'[published'].createdBy}
    BY DEF CurrentCatalogIsPublished
  <2>1. CASE create_catalog(k, u)
    <3>1. published' = published /\ published \in Catalogs /\ published # k
      BY <1>3, <2>1 DEF create_catalog, TypeOK, CurrentCatalogIsPublished
    <3> QED
      BY <1>3, <2>1, <3>1 DEF create_catalog, TypeOK, CurrentCatalogIsPublished
  <2>2. CASE PublishCatalog(k, u, fault)
    <3>1. fault = "none"
      BY <1>3, <2>2 DEF PublishCatalog, create_catalog
    <3> QED
      BY <2>2, <3>1, ProviderAssumption DEF PublishCatalog, TypeOK,
                                            ProviderCatalogVersion
  <2>3. CASE RevokeCatalog(k, u, fault)
    <3>1. fault = "none" /\ faults = 0
      BY <1>3, <2>3 DEF RevokeCatalog, create_catalog
    <3>2. published' = published /\ published \in Catalogs /\ published # k
      BY <2>3 DEF RevokeCatalog, TypeOK
    <3> QED
      BY <2>3, <3>1, <3>2 DEF RevokeCatalog, TypeOK, CurrentCatalogIsPublished
  <2> QED
    BY <1>1, <2>1, <2>2, <2>3
<1>6. TypeOK'
  BY <1>2, <1>3, <1>4 DEF TypeOK
<1> QED
  BY <1>2, <1>3, <1>5, <1>6 DEF OneActivePerUse, CredentialIsHonest,
     ActiveHasProvedKey, BusinessKeysAreActive, CompromisedIsStopped,
     OneSuccessor, SucceedsAnother, RevokedIsDeleted

-----------------------------------------------------------------------------
(* A new configuration or an edited purpose is never that of an active     *)
(* configuration, and no key is touched.                                   *)
LEMMA EditInv ==
    ASSUME ProviderIndInv, NEW c \in Configs,
           create_configuration(c) \/ update_configuration(c)
    PROVE  ProviderIndInv'
<1> USE DEF ProviderIndInv
<1>1. /\ UNCHANGED <<catalogs, published, secret, proved, deletionJobs, registered,
                     faults>>
      /\ configs \in [Configs -> AIProviderConfiguration]
      /\ published \in Catalogs \cup {NoCatalog}
  BY DEF create_configuration, update_configuration, TypeOK
<1>2. PICK new \in AIProviderConfiguration :
        /\ configs' = [configs EXCEPT ![c] = new]
        /\ \/ /\ configs[c].state = "ABSENT" /\ new.state = "INACTIVE"
              /\ new.credential = "MISSING" /\ new.supersedes = 0
              /\ new.mode = "NONE"
           \/ /\ configs[c].state \in {"INACTIVE", "VERIFIED"}
              /\ \E p \in Purposes : new = [configs[c] EXCEPT !.purpose = p]
  <2>1. CASE create_configuration(c)
    <3>1. PICK p \in Purposes : configs' = [configs EXCEPT ![c] =
             [NoConfig EXCEPT !.state = "INACTIVE", !.catalog = published, !.purpose = p]]
      BY <2>1 DEF create_configuration
    <3> DEFINE new == [NoConfig EXCEPT !.state = "INACTIVE", !.catalog = published,
                                       !.purpose = p]
    <3>2. /\ new \in AIProviderConfiguration /\ new.state = "INACTIVE"
          /\ new.credential = "MISSING" /\ new.supersedes = 0 /\ new.mode = "NONE"
      BY <1>1, <3>1 DEF NoConfig, AIProviderConfiguration, ProviderActivationState,
                   ProviderCredentialState, CredentialUsageScope
    <3>3. configs[c].state = "ABSENT"
      BY <2>1 DEF create_configuration, IsNew
    <3> HIDE DEF new
    <3> QED
      BY <3>1, <3>2, <3>3 DEF new
  <2>2. CASE update_configuration(c)
    <3>1. PICK p \in Purposes : configs' = [configs EXCEPT ![c].purpose = p]
      BY <2>2 DEF update_configuration
    <3>2. /\ configs' = [configs EXCEPT ![c] = [configs[c] EXCEPT !.purpose = p]]
          /\ [configs[c] EXCEPT !.purpose = p] \in AIProviderConfiguration
      BY <1>1, <3>1 DEF AIProviderConfiguration
    <3>3. configs[c].state \in {"INACTIVE", "VERIFIED"}
      BY <2>2 DEF update_configuration
    <3> QED
      BY <3>2, <3>3
  <2> QED
    BY <2>1, <2>2
<1>3. /\ configs' \in [Configs -> AIProviderConfiguration] /\ configs'[c] = new
      /\ \A b \in Configs : b # c => configs'[b] = configs[b]
  BY <1>1, <1>2
<1>4. /\ configs[c].state \notin {"ACTIVE", "SUSPENDED", "REVOKED"}
      /\ new.state \notin {"ACTIVE", "SUSPENDED", "REVOKED"}
      /\ \/ new.mode = configs[c].mode /\ new.supersedes = configs[c].supersedes
         \/ new.mode = "NONE" /\ new.supersedes = 0
      /\ new.supersedes # 0 => new.state = configs[c].state
      /\ new.credential # "MISSING" =>
           new.credential = configs[c].credential /\ new.hasKey = configs[c].hasKey
  BY <1>1, <1>2 DEF AIProviderConfiguration
<1>5. TypeOK'
  BY <1>1, <1>3 DEF TypeOK
<1>6. OneActivePerUse' /\ ActiveHasProvedKey' /\ RevokedIsDeleted' /\ BusinessKeysAreActive'
  BY <1>1, <1>3, <1>4 DEF OneActivePerUse, ActiveHasProvedKey, RevokedIsDeleted,
                          BusinessKeysAreActive
<1>7. CredentialIsHonest'
  BY <1>1, <1>3, <1>4 DEF CredentialIsHonest
<1>8. CompromisedIsStopped'
  BY <1>1, <1>3, <1>4 DEF CompromisedIsStopped
<1>9. OneSuccessor' /\ SucceedsAnother'
  BY <1>3, <1>4, ProviderAssumption DEF OneSuccessor, SucceedsAnother
<1> QED
  BY <1>1, <1>5, <1>6, <1>7, <1>8, <1>9 DEF CurrentCatalogIsPublished

(* A successor starts without a key and only when no other successor is    *)
(* alive; the predecessor of a compromise loses its key and its state      *)
(* before, also when the command ends in the middle.                       *)
LEMMA SuccessorInv ==
    ASSUME ProviderIndInv, NEW c \in Configs, NEW s \in Configs,
           NEW fault \in Faults({"enqueue", "audit"}),
           SucceedNormally(c, s) \/ SucceedCompromised(c, s, fault)
    PROVE  ProviderIndInv'
<1> USE DEF ProviderIndInv
<1>1. /\ UNCHANGED <<catalogs, published, proved, registered>>
      /\ configs \in [Configs -> AIProviderConfiguration]
      /\ configs[c] \in AIProviderConfiguration
      /\ configs[c].state = "ACTIVE" /\ configs[s].state = "ABSENT" /\ c # s
      /\ \A r \in Configs : configs[r].supersedes = c => configs[r].state = "REVOKED"
  BY DEF SucceedNormally, SucceedCompromised, IsNew, HasNoSuccessor, TypeOK
<1>2. \A mode \in {"NORMAL", "COMPROMISE"} :
        /\ Successor(c, mode) \in AIProviderConfiguration
        /\ Successor(c, mode).state = "INACTIVE"
        /\ Successor(c, mode).credential = "MISSING"
        /\ Successor(c, mode).mode = mode
        /\ Successor(c, mode).supersedes = c
  BY <1>1 DEF Successor, AIProviderConfiguration, ProviderActivationState,
              ProviderCredentialState, CredentialUsageScope
<1>3. CASE SucceedNormally(c, s)
  <2>1. /\ UNCHANGED <<secret, deletionJobs, faults>>
        /\ configs' \in [Configs -> AIProviderConfiguration]
        /\ configs'[s] = Successor(c, "NORMAL")
        /\ \A b \in Configs : b # s => configs'[b] = configs[b]
    BY <1>1, <1>2, <1>3 DEF SucceedNormally
  <2>2. TypeOK'
    BY <1>1, <2>1 DEF TypeOK
  <2>3. OneActivePerUse' /\ ActiveHasProvedKey' /\ RevokedIsDeleted'
        /\ BusinessKeysAreActive' /\ CredentialIsHonest'
    BY <1>1, <1>2, <2>1 DEF OneActivePerUse, ActiveHasProvedKey, RevokedIsDeleted,
                            BusinessKeysAreActive, CredentialIsHonest
  <2>4. CompromisedIsStopped'
    BY <1>1, <1>2, <2>1 DEF CompromisedIsStopped
  <2>5. OneSuccessor' /\ SucceedsAnother'
    BY <1>1, <1>2, <2>1 DEF OneSuccessor, SucceedsAnother
  <2> QED
    BY <1>1, <2>1, <2>2, <2>3, <2>4, <2>5 DEF CurrentCatalogIsPublished
<1>4. CASE SucceedCompromised(c, s, fault)
  <2>1. /\ faults' \in 0..MaxFaults
        /\ faults' = 0 => faults = 0 /\ fault = "none"
    BY <1>4, FaultIsCounted DEF SucceedCompromised
  <2>2. /\ secret' \in [Configs -> CredentialUsageScope \cup {"DESTROYED"}]
        /\ secret'[c] = "DESTROYED"
        /\ \A b \in Configs : b # c => secret'[b] = secret[b]
        /\ deletionJobs' \subseteq Configs /\ deletionJobs \subseteq deletionJobs'
        /\ fault = "none" => c \in deletionJobs'
    BY <1>4 DEF SucceedCompromised, DestroyKey, TypeOK
  <2>3. /\ Compromised(c) \in AIProviderConfiguration
        /\ Compromised(c).state = "REVOKED" /\ Compromised(c).credential = "REVOKED"
        /\ Compromised(c).hasKey = configs[c].hasKey
        /\ Compromised(c).supersedes = configs[c].supersedes
        /\ Compromised(c).mode = configs[c].mode
    BY <1>1 DEF Compromised, AIProviderConfiguration, ProviderActivationState,
                ProviderCredentialState, CredentialUsageScope
  <2>4. /\ configs' \in [Configs -> AIProviderConfiguration]
        /\ configs'[c] = Compromised(c)
        /\ configs'[s] = configs[s] \/ configs'[s] = Successor(c, "COMPROMISE")
        /\ \A b \in Configs : b # s /\ b # c => configs'[b] = configs[b]
    BY <1>1, <1>2, <1>4, <2>3 DEF SucceedCompromised
  <2>5. TypeOK'
    BY <1>1, <2>1, <2>2, <2>4 DEF TypeOK
  <2>6. OneActivePerUse' /\ ActiveHasProvedKey'
    BY <1>1, <1>2, <2>3, <2>4 DEF OneActivePerUse, ActiveHasProvedKey
  <2>7. CredentialIsHonest'
    BY <1>1, <1>2, <2>3, <2>4 DEF CredentialIsHonest, ActiveHasProvedKey
  <2>8. RevokedIsDeleted' /\ BusinessKeysAreActive'
    BY <1>1, <1>2, <2>1, <2>2, <2>3, <2>4 DEF RevokedIsDeleted, BusinessKeysAreActive
  <2>9. CompromisedIsStopped'
    BY <1>1, <1>2, <2>2, <2>3, <2>4 DEF CompromisedIsStopped
  <2>10. OneSuccessor' /\ SucceedsAnother'
    BY <1>1, <1>2, <2>3, <2>4 DEF OneSuccessor, SucceedsAnother
  <2> QED
    BY <1>1, <2>1, <2>5, <2>6, <2>7, <2>8, <2>9, <2>10 DEF CurrentCatalogIsPublished
<1> QED
  BY <1>3, <1>4

-----------------------------------------------------------------------------
(* A new key starts unproved, and only a configuration that is not active  *)
(* and not stopped takes one.                                              *)
LEMMA SetCredentialInv ==
    ASSUME ProviderIndInv, NEW c \in Configs, NEW fault \in Faults({"audit"}),
           set_credential(c, fault)
    PROVE  ProviderIndInv'
<1> USE DEF ProviderIndInv
<1>1. /\ UNCHANGED <<catalogs, published, deletionJobs, registered>>
      /\ configs \in [Configs -> AIProviderConfiguration]
      /\ configs[c] \in AIProviderConfiguration
      /\ configs[c].state \in {"INACTIVE", "VERIFIED"}
  BY DEF set_credential, TakesKey, TypeOK
<1>2. /\ faults' \in 0..MaxFaults
      /\ faults' = 0 => faults = 0 /\ fault = "none"
  BY FaultIsCounted DEF set_credential
<1>3. /\ secret' \in [Configs -> CredentialUsageScope \cup {"DESTROYED"}]
      /\ secret'[c] \in {"TEST_ONLY", "DESTROYED"}
      /\ \A b \in Configs : b # c => secret'[b] = secret[b]
  BY DEF set_credential, DestroyKey, TypeOK, CredentialUsageScope
<1>4. CASE fault = "none"
  <2>1. /\ WithNewKey(c) \in AIProviderConfiguration
        /\ WithNewKey(c).state = "INACTIVE" /\ WithNewKey(c).hasKey
        /\ WithNewKey(c).credential = "UNVERIFIED"
        /\ WithNewKey(c).supersedes = configs[c].supersedes
        /\ WithNewKey(c).mode = configs[c].mode
    BY <1>1 DEF WithNewKey, AIProviderConfiguration, ProviderActivationState,
                ProviderCredentialState, CredentialUsageScope
  <2>2. /\ configs' \in [Configs -> AIProviderConfiguration]
        /\ configs'[c] = WithNewKey(c) /\ proved' = proved \ {c}
        /\ \A b \in Configs : b # c => configs'[b] = configs[b]
    BY <1>1, <1>4, <2>1 DEF set_credential
  <2>3. TypeOK'
    BY <1>1, <1>2, <1>3, <2>2 DEF TypeOK
  <2>4. OneActivePerUse' /\ ActiveHasProvedKey' /\ CredentialIsHonest'
    BY <1>1, <2>1, <2>2 DEF OneActivePerUse, ActiveHasProvedKey, CredentialIsHonest
  <2>5. RevokedIsDeleted' /\ BusinessKeysAreActive'
    BY <1>1, <1>2, <1>3, <2>1, <2>2 DEF RevokedIsDeleted, BusinessKeysAreActive
  <2>6. CompromisedIsStopped'
    BY <1>1, <1>3, <2>1, <2>2 DEF CompromisedIsStopped
  <2>7. OneSuccessor' /\ SucceedsAnother'
    BY <1>1, <2>1, <2>2 DEF OneSuccessor, SucceedsAnother
  <2> QED
    BY <1>1, <1>2, <2>3, <2>4, <2>5, <2>6, <2>7 DEF CurrentCatalogIsPublished
<1>5. CASE fault # "none"
  <2>1. UNCHANGED <<configs, proved>> /\ faults' # 0
    BY <1>2, <1>5 DEF set_credential
  <2>2. TypeOK'
    BY <1>1, <1>2, <1>3, <2>1 DEF TypeOK
  <2>3. CompromisedIsStopped'
    BY <1>1, <1>3, <2>1 DEF CompromisedIsStopped
  <2> QED
    BY <1>1, <2>1, <2>2, <2>3 DEF OneActivePerUse, CredentialIsHonest,
       ActiveHasProvedKey, BusinessKeysAreActive, OneSuccessor, SucceedsAnother,
       CurrentCatalogIsPublished, RevokedIsDeleted
<1> QED
  BY <1>4, <1>5

(* A test makes the credential VALID only together with the proof. *)
LEMMA TestInv ==
    ASSUME ProviderIndInv, NEW c \in Configs,
           NEW outcome \in {"accepted", "refused", "unclear"},
           test_connection(c, outcome)
    PROVE  ProviderIndInv'
<1> USE DEF ProviderIndInv
<1>1. /\ UNCHANGED <<catalogs, published, secret, deletionJobs, registered, faults>>
      /\ configs \in [Configs -> AIProviderConfiguration]
      /\ configs[c] \in AIProviderConfiguration
      /\ configs[c].state \in {"INACTIVE", "VERIFIED"}
      /\ configs[c].credential \in {"UNVERIFIED", "VALID"}
  BY DEF test_connection, TypeOK
<1>2. PICK state \in {"INACTIVE", "VERIFIED"}, credential \in ProviderCredentialState :
        /\ configs' = [configs EXCEPT ![c].state = state, ![c].credential = credential]
        /\ credential # "MISSING"
        /\ credential = "VALID" =>
              outcome = "accepted" \/ configs[c].credential = "VALID"
  <2>1. CASE outcome = "accepted"
    BY <2>1 DEF test_connection, ProviderCredentialState
  <2>2. CASE outcome = "refused"
    BY <2>2 DEF test_connection, ProviderCredentialState
  <2>3. CASE outcome = "unclear"
    BY <1>1, <2>3 DEF test_connection, ProviderCredentialState
  <2> QED
    BY <2>1, <2>2, <2>3
<1>3. /\ configs' \in [Configs -> AIProviderConfiguration]
      /\ configs'[c].state = state /\ configs'[c].credential = credential
      /\ configs'[c].hasKey = configs[c].hasKey
      /\ configs'[c].supersedes = configs[c].supersedes
      /\ configs'[c].mode = configs[c].mode
      /\ \A b \in Configs : b # c => configs'[b] = configs[b]
  BY <1>1, <1>2 DEF AIProviderConfiguration, ProviderActivationState
<1>4. /\ proved \subseteq proved' /\ proved' \subseteq Configs
      /\ outcome = "accepted" => c \in proved'
  BY DEF test_connection, TypeOK
<1>5. TypeOK'
  BY <1>1, <1>3, <1>4 DEF TypeOK
<1>6. OneActivePerUse' /\ ActiveHasProvedKey'
  BY <1>1, <1>2, <1>3, <1>4 DEF OneActivePerUse, ActiveHasProvedKey
<1>7. CredentialIsHonest'
  BY <1>1, <1>2, <1>3, <1>4 DEF CredentialIsHonest
<1>8. RevokedIsDeleted' /\ BusinessKeysAreActive'
  BY <1>1, <1>2, <1>3 DEF RevokedIsDeleted, BusinessKeysAreActive
<1>9. CompromisedIsStopped'
  BY <1>1, <1>2, <1>3 DEF CompromisedIsStopped
<1>10. OneSuccessor' /\ SucceedsAnother'
  BY <1>1, <1>2, <1>3 DEF OneSuccessor, SucceedsAnother
<1> QED
  BY <1>1, <1>5, <1>6, <1>7, <1>8, <1>9, <1>10 DEF CurrentCatalogIsPublished

-----------------------------------------------------------------------------
(* What suspension, revocation and the revocation of a credential have in  *)
(* common: one configuration that is not new is stopped and keeps its      *)
(* fields, its key may at most delete unless the command failed, and a     *)
(* configuration that was revoked has its deletion enqueued.               *)
LEMMA StopInv ==
    ASSUME ProviderIndInv, NEW c \in Configs, NEW new \in AIProviderConfiguration,
           UNCHANGED <<catalogs, published, proved, registered>>,
           configs' = [configs EXCEPT ![c] = new],
           new.state \in {"SUSPENDED", "REVOKED"},
           new.credential = configs[c].credential, new.hasKey = configs[c].hasKey,
           new.supersedes = configs[c].supersedes, new.mode = configs[c].mode,
           \/ secret' = Restrict(secret, c)
           \/ /\ secret' = secret
              /\ \/ faults' # 0 \/ ~configs[c].hasKey
                 \/ configs[c].state \in {"SUSPENDED", "REVOKED"},
           deletionJobs \subseteq deletionJobs', deletionJobs' \subseteq Configs,
           faults' = 0 /\ new.state = "REVOKED" => c \in deletionJobs',
           faults' \in 0..MaxFaults, faults' = 0 => faults = 0
    PROVE  ProviderIndInv'
<1> USE DEF ProviderIndInv
<1>1. /\ configs \in [Configs -> AIProviderConfiguration]
      /\ configs' \in [Configs -> AIProviderConfiguration]
      /\ configs'[c] = new
      /\ \A b \in Configs : b # c => configs'[b] = configs[b]
  BY DEF TypeOK
<1>2. /\ secret' \in [Configs -> CredentialUsageScope \cup {"DESTROYED"}]
      /\ secret'[c] = secret[c] \/ secret'[c] \in {"DESTROYED", "DELETION_ONLY"}
      /\ secret[c] = "DESTROYED" => secret'[c] = "DESTROYED"
      /\ \A b \in Configs : b # c => secret'[b] = secret[b]
  BY RestrictFacts DEF TypeOK
<1>3. faults' = 0 => secret'[c] # "BUSINESS_AND_DELETION"
  <2> SUFFICES ASSUME faults' = 0, faults = 0
               PROVE  secret'[c] # "BUSINESS_AND_DELETION"
    OBVIOUS
  <2>1. CASE /\ secret' = secret
             /\ ~configs[c].hasKey \/ configs[c].state \in {"SUSPENDED", "REVOKED"}
    BY <2>1 DEF BusinessKeysAreActive, ActiveHasProvedKey
  <2>2. CASE secret' = Restrict(secret, c)
    BY <2>2, RestrictFacts DEF TypeOK
  <2> QED
    BY <2>1, <2>2
<1>4. TypeOK'
  BY <1>1, <1>2 DEF TypeOK
<1>5. OneActivePerUse' /\ ActiveHasProvedKey' /\ CredentialIsHonest'
  BY <1>1 DEF OneActivePerUse, ActiveHasProvedKey, CredentialIsHonest
<1>6. RevokedIsDeleted'
  BY <1>1 DEF RevokedIsDeleted
<1>7. BusinessKeysAreActive'
  BY <1>1, <1>2, <1>3 DEF BusinessKeysAreActive
<1>8. CompromisedIsStopped'
  BY <1>1, <1>2 DEF CompromisedIsStopped
<1>9. OneSuccessor' /\ SucceedsAnother'
  BY <1>1 DEF OneSuccessor, SucceedsAnother
<1> QED
  BY <1>4, <1>5, <1>6, <1>7, <1>8, <1>9 DEF CurrentCatalogIsPublished

(* suspend_configuration and revoke_configuration, whether they find the   *)
(* configuration in the target state or stop it.                           *)
LEMMA ApplyStopInv ==
    ASSUME ProviderIndInv, NEW c \in Configs, NEW target \in {"SUSPENDED", "REVOKED"},
           NEW fault \in Faults({"stop", "enqueue"}), _apply_stop(c, target, fault),
           Fault(fault), UNCHANGED <<catalogs, published, proved, registered>>,
           \/ target = "SUSPENDED" /\ UNCHANGED deletionJobs
           \/ deletionJobs' = IF fault = "none" THEN EnqueueDeletion(c) ELSE deletionJobs
    PROVE  ProviderIndInv'
<1> USE DEF ProviderIndInv
<1>1. /\ configs \in [Configs -> AIProviderConfiguration]
      /\ configs[c] \in AIProviderConfiguration
  BY DEF TypeOK
<1>2. /\ faults' \in 0..MaxFaults
      /\ faults' = 0 => faults = 0 /\ fault = "none"
  BY FaultIsCounted
<1>3. /\ deletionJobs \subseteq deletionJobs' /\ deletionJobs' \subseteq Configs
      /\ faults' = 0 /\ target = "REVOKED" => c \in deletionJobs'
  BY <1>2 DEF EnqueueDeletion, TypeOK
<1>4. CASE configs[c].state = target /\ UNCHANGED <<configs, secret>>
  <2>1. configs' = [configs EXCEPT ![c] = configs[c]]
    BY <1>1, <1>4
  <2> QED
    BY <1>1, <1>2, <1>3, <1>4, <2>1, StopInv
<1>5. CASE /\ configs' = [configs EXCEPT ![c] = Stopped(c, target)]
           /\ secret' = IF configs[c].hasKey /\ fault # "stop"
                        THEN Restrict(secret, c) ELSE secret
  <2>1. /\ Stopped(c, target) \in AIProviderConfiguration
        /\ Stopped(c, target).state = target
        /\ Stopped(c, target).credential = configs[c].credential
        /\ Stopped(c, target).hasKey = configs[c].hasKey
        /\ Stopped(c, target).supersedes = configs[c].supersedes
        /\ Stopped(c, target).mode = configs[c].mode
    BY <1>1 DEF Stopped, AIProviderConfiguration, ProviderActivationState,
                CredentialUsageScope
  <2>2. \/ secret' = Restrict(secret, c)
        \/ secret' = secret /\ (faults' # 0 \/ ~configs[c].hasKey)
    BY <1>2, <1>5
  <2> QED
    BY <1>2, <1>3, <1>5, <2>1, <2>2, StopInv
<1> QED
  BY <1>4, <1>5 DEF _apply_stop

(* revoke_credential stops whatever has a key. *)
LEMMA RevokeCredentialInv ==
    ASSUME ProviderIndInv, NEW c \in Configs, NEW fault \in Faults({"audit"}),
           revoke_credential(c, fault)
    PROVE  ProviderIndInv'
<1> USE DEF ProviderIndInv
<1>1. /\ configs \in [Configs -> AIProviderConfiguration]
      /\ configs[c] \in AIProviderConfiguration
      /\ UNCHANGED <<catalogs, published, proved, registered>>
      /\ secret' = Restrict(secret, c)
  BY DEF TypeOK, revoke_credential
<1>2. /\ faults' \in 0..MaxFaults
      /\ faults' = 0 => faults = 0 /\ fault = "none"
  BY FaultIsCounted DEF revoke_credential
<1>3. deletionJobs \subseteq deletionJobs' /\ deletionJobs' \subseteq Configs
  BY DEF revoke_credential, EnqueueDeletion, TypeOK
<1> DEFINE new == [configs[c] EXCEPT !.state = "SUSPENDED", !.scope = "DELETION_ONLY"]
<1>4. /\ new \in AIProviderConfiguration /\ new.state = "SUSPENDED"
      /\ new.credential = configs[c].credential /\ new.hasKey = configs[c].hasKey
      /\ new.supersedes = configs[c].supersedes /\ new.mode = configs[c].mode
  BY <1>1 DEF AIProviderConfiguration, ProviderActivationState, CredentialUsageScope
<1>5. configs' = [configs EXCEPT ![c] = new]
  BY <1>1 DEF revoke_credential
<1> HIDE DEF new
<1> QED
  BY <1>1, <1>2, <1>3, <1>4, <1>5, StopInv

-----------------------------------------------------------------------------
(* An activation that goes through makes one configuration active and      *)
(* suspends the predecessor, which is the only other one that served; an   *)
(* activation that fails changes keys only.                                *)
LEMMA ActivateInv ==
    ASSUME ProviderIndInv, NEW c \in Configs,
           NEW fault \in Faults({"promote", "audit"}), activate_configuration(c, fault)
    PROVE  ProviderIndInv'
<1> USE DEF ProviderIndInv
<1>1. /\ configs \in [Configs -> AIProviderConfiguration]
      /\ configs[c] \in AIProviderConfiguration
      /\ UNCHANGED <<catalogs, published, proved, deletionJobs>>
      /\ configs[c].state = "VERIFIED" /\ configs[c].credential = "VALID"
      /\ configs[c].hasKey /\ c \in proved
  BY DEF TypeOK, activate_configuration, CredentialIsHonest
<1>2. /\ faults' \in 0..MaxFaults
      /\ faults' = 0 => faults = 0 /\ fault = "none"
  BY FaultIsCounted DEF activate_configuration
<1>3. PICK p \in Configs \cup {0} : p = configs[c].supersedes
  BY <1>1 DEF AIProviderConfiguration
<1> DEFINE retired(b) == b = p /\ configs[b].hasKey
<1>4. /\ RetirePredecessor(c) \in [Configs -> CredentialUsageScope \cup {"DESTROYED"}]
      /\ \A b \in Configs :
           /\ retired(b) => RetirePredecessor(c)[b] \in {"DESTROYED", "DELETION_ONLY"}
           /\ secret[b] = "DESTROYED" => RetirePredecessor(c)[b] = "DESTROYED"
           /\ ~retired(b) => RetirePredecessor(c)[b] = secret[b]
  <2>1. CASE p # 0 /\ configs[p].hasKey
    BY <1>3, <2>1, RestrictFacts DEF RetirePredecessor, TypeOK
  <2>2. CASE ~(p # 0 /\ configs[p].hasKey)
    BY <1>3, <2>2, ProviderAssumption DEF RetirePredecessor, TypeOK
  <2> QED
    BY <2>1, <2>2
<1>5. /\ secret' \in [Configs -> CredentialUsageScope \cup {"DESTROYED"}]
      /\ \A b \in Configs : b # c => secret'[b] = RetirePredecessor(c)[b]
      /\ fault = "none" => secret'[c] = "BUSINESS_AND_DELETION"
  BY <1>4 DEF activate_configuration, CredentialUsageScope
<1>6. CompromisedIsStopped /\ UNCHANGED configs => CompromisedIsStopped'
  BY <1>1, <1>4, <1>5 DEF CompromisedIsStopped
<1>7. CASE fault # "none"
  <2>1. UNCHANGED <<configs, registered>> /\ faults' # 0
    BY <1>2, <1>7 DEF activate_configuration
  <2>2. TypeOK'
    BY <1>1, <1>2, <1>5, <2>1 DEF TypeOK
  <2> QED
    BY <1>1, <1>6, <2>1, <2>2 DEF OneActivePerUse, CredentialIsHonest,
       ActiveHasProvedKey, BusinessKeysAreActive, OneSuccessor, SucceedsAnother,
       CurrentCatalogIsPublished, RevokedIsDeleted
<1>8. CASE fault = "none"
  <2>1. configs' = Activated(c) /\ registered' = [registered EXCEPT ![configs[c].catalog] = {c}]
    BY <1>8 DEF activate_configuration
  <2>2. /\ configs' \in [Configs -> AIProviderConfiguration]
        /\ configs'[c].state = "ACTIVE"
        /\ \A b \in Configs :
             /\ configs'[b].credential = configs[b].credential
             /\ configs'[b].hasKey = configs[b].hasKey
             /\ configs'[b].purpose = configs[b].purpose
             /\ configs'[b].supersedes = configs[b].supersedes
             /\ configs'[b].mode = configs[b].mode
             /\ b # c /\ retired(b) => configs'[b].state = "SUSPENDED"
             /\ b # c /\ ~retired(b) => configs'[b].state = configs[b].state
    <3> SUFFICES ASSUME NEW b \in Configs
                 PROVE  /\ Activated(c)[b] \in AIProviderConfiguration
                        /\ Activated(c)[b].credential = configs[b].credential
                        /\ Activated(c)[b].hasKey = configs[b].hasKey
                        /\ Activated(c)[b].purpose = configs[b].purpose
                        /\ Activated(c)[b].supersedes = configs[b].supersedes
                        /\ Activated(c)[b].mode = configs[b].mode
                        /\ b = c => Activated(c)[b].state = "ACTIVE"
                        /\ b # c /\ retired(b) => Activated(c)[b].state = "SUSPENDED"
                        /\ b # c /\ ~retired(b) => Activated(c)[b].state = configs[b].state
      BY <2>1 DEF Activated
    <3>1. configs[b] \in AIProviderConfiguration
      BY <1>1
    <3>2. CASE b = c
      <4>1. Activated(c)[b] = [configs[b] EXCEPT !.state = "ACTIVE", !.current = TRUE,
                                                 !.scope = "BUSINESS_AND_DELETION"]
        BY <3>2 DEF Activated, SucceedsAnother
      <4> QED
        BY <3>1, <3>2, <4>1 DEF AIProviderConfiguration, ProviderActivationState,
                                CredentialUsageScope
    <3>3. CASE b # c /\ retired(b)
      <4>1. Activated(c)[b] = [configs[b] EXCEPT !.state = "SUSPENDED",
                                     !.current = FALSE, !.scope = "DELETION_ONLY"]
        BY <1>3, <3>3 DEF Activated
      <4> QED
        BY <3>1, <3>3, <4>1 DEF AIProviderConfiguration, ProviderActivationState,
                                CredentialUsageScope
    <3>4. CASE b # c /\ ~retired(b)
      <4>1. Activated(c)[b] = configs[b]
        BY <1>3, <3>4 DEF Activated
      <4> QED
        BY <3>1, <3>4, <4>1
    <3> QED
      BY <3>2, <3>3, <3>4
  <2>3. TypeOK'
    BY <1>1, <1>2, <1>5, <2>1, <2>2 DEF TypeOK
  <2>4. \A b \in Configs : configs'[b].state = "ACTIVE" /\ b # c =>
          configs[b].purpose # configs[c].purpose /\ configs[b].state = "ACTIVE"
    <3> SUFFICES ASSUME NEW b \in Configs, configs'[b].state = "ACTIVE", b # c
                 PROVE  configs[b].purpose # configs[c].purpose
                        /\ configs[b].state = "ACTIVE"
      OBVIOUS
    <3>1. ~retired(b) /\ configs[b].state = "ACTIVE" /\ configs[b].hasKey
      BY <2>2 DEF ActiveHasProvedKey
    <3>2. b # configs[c].supersedes
      BY <1>3, <3>1
    <3> QED
      BY <3>1, <3>2 DEF activate_configuration, NoOtherActive, SameUse
  <2>5. OneActivePerUse'
    BY <1>1, <2>2, <2>4 DEF OneActivePerUse
  <2>6. ActiveHasProvedKey' /\ CredentialIsHonest'
    BY <1>1, <2>2, <2>4 DEF ActiveHasProvedKey, CredentialIsHonest
  <2>7. BusinessKeysAreActive'
    BY <1>1, <1>2, <1>4, <1>5, <1>8, <2>2 DEF BusinessKeysAreActive
  <2>8. CompromisedIsStopped'
    BY <1>1, <1>4, <1>5, <2>2 DEF CompromisedIsStopped
  <2>9. OneSuccessor' /\ SucceedsAnother'
    BY <1>1, <2>2 DEF OneSuccessor, SucceedsAnother
  <2>10. RevokedIsDeleted'
    BY <1>1, <1>2, <2>2 DEF RevokedIsDeleted
  <2> QED
    BY <1>1, <1>2, <2>3, <2>5, <2>6, <2>7, <2>8, <2>9, <2>10 DEF CurrentCatalogIsPublished
<1> QED
  BY <1>7, <1>8

-----------------------------------------------------------------------------
(* Every command keeps the inductive invariant. *)
LEMMA NextInv == ProviderIndInv /\ [Next]_providerVars => ProviderIndInv'
<1> SUFFICES ASSUME ProviderIndInv, [Next]_providerVars
             PROVE  ProviderIndInv'
  OBVIOUS
<1>1. CASE CatalogRequests
  BY <1>1, CatalogInv
<1>2. CASE ConfigurationRequests
  BY <1>2, EditInv, SuccessorInv DEF ConfigurationRequests
<1>3. CASE CredentialRequests
  BY <1>3, SetCredentialInv, TestInv, RevokeCredentialInv DEF CredentialRequests
<1>4. CASE ActivationRequests
  <2>1. PICK c \in Configs :
          \/ \E fault \in Faults({"promote", "audit"}) : activate_configuration(c, fault)
          \/ \E fault \in Faults({"stop"}) : suspend_configuration(c, fault)
          \/ \E fault \in Faults({"stop", "enqueue"}) : revoke_configuration(c, fault)
    BY <1>4 DEF ActivationRequests
  <2>2. CASE \E fault \in Faults({"promote", "audit"}) : activate_configuration(c, fault)
    BY <2>2, ActivateInv
  <2>3. CASE \E fault \in Faults({"stop"}) : suspend_configuration(c, fault)
    <3>1. PICK fault \in Faults({"stop"}) : suspend_configuration(c, fault)
      BY <2>3
    <3>2. fault \in Faults({"stop", "enqueue"})
      BY DEF Faults
    <3> QED
      BY <3>1, <3>2, ApplyStopInv DEF suspend_configuration
  <2>4. CASE \E fault \in Faults({"stop", "enqueue"}) : revoke_configuration(c, fault)
    BY <2>4, ApplyStopInv DEF revoke_configuration
  <2> QED
    BY <2>1, <2>2, <2>3, <2>4
<1>5. CASE UNCHANGED providerVars
  BY <1>5 DEF providerVars, ProviderIndInv, TypeOK, OneActivePerUse,
     CredentialIsHonest, ActiveHasProvedKey, BusinessKeysAreActive,
     CompromisedIsStopped, SucceedsAnother, OneSuccessor,
     CurrentCatalogIsPublished, RevokedIsDeleted
<1> QED
  BY <1>1, <1>2, <1>3, <1>4, <1>5 DEF Next

(* The inductive invariant holds in every state that catalog, configuration, *)
(* credential and activation commands reach, failed ones included            *)
(* (provider_management.py:420-1290).                                        *)
THEOREM Invariance == Spec => []ProviderIndInv
  BY InitInv, NextInv, PTL DEF Spec

(* What provider management promises: one configuration serves a purpose and *)
(* its key was proved; while no command failed half-way the secret store     *)
(* agrees with the configurations, revoked ones are being deleted and the    *)
(* current catalog was published by a second person; a leaked key is gone    *)
(* before its successor exists (provider_management.py:420-1290).            *)
THEOREM ProvidersAreConsistent == Spec => []ProviderInv
<1>1. ProviderIndInv => ProviderInv
  BY DEF ProviderIndInv, ProviderInv, ActiveHasProvedKey, ActiveKeyWasProved,
         CompromisedIsStopped, CompromisedIsGone
<1> QED
  BY <1>1, Invariance, PTL

(* A stopped configuration can be stopped again but no command brings it     *)
(* back: those that write INACTIVE, VERIFIED or ACTIVE refuse it, and the    *)
(* activation of a successor only suspends it (614-617, 785-793, 1102).      *)
THEOREM StopIsFinal == Spec => StoppedStaysStopped
<1> DEFINE Stays == \A c \in Configs : configs[c].state \in {"SUSPENDED", "REVOKED"} =>
                        configs'[c].state \in {"SUSPENDED", "REVOKED"}
<1>1. ProviderIndInv /\ [Next]_providerVars => [Stays]_providerVars
  <2> SUFFICES ASSUME ProviderIndInv, Next, NEW b \in Configs,
                      configs[b].state \in {"SUSPENDED", "REVOKED"}
               PROVE  configs'[b].state \in {"SUSPENDED", "REVOKED"}
    OBVIOUS
  <2>1. configs \in [Configs -> AIProviderConfiguration]
        /\ configs[b] \in AIProviderConfiguration
    BY DEF ProviderIndInv, TypeOK
  <2>2. CASE CatalogRequests
    BY <2>2 DEF CatalogRequests, create_catalog, PublishCatalog, RevokeCatalog
  <2>3. ASSUME NEW c \in Configs, create_configuration(c) \/ update_configuration(c)
        PROVE  configs'[b] = configs[b]
    <3>1. c # b
      BY <2>3 DEF create_configuration, update_configuration, IsNew
    <3> QED
      BY <2>1, <2>3, <3>1 DEF create_configuration, update_configuration
  <2>4. ASSUME NEW c \in Configs, NEW s \in Configs,
               NEW fault \in Faults({"enqueue", "audit"}),
               SucceedNormally(c, s) \/ SucceedCompromised(c, s, fault)
        PROVE  configs'[b] = configs[b]
    <3>1. c # b /\ s # b
      BY <2>4 DEF SucceedNormally, SucceedCompromised, IsNew
    <3> QED
      BY <2>1, <2>4, <3>1 DEF SucceedNormally, SucceedCompromised
  <2>5. ASSUME NEW c \in Configs, NEW fault, NEW outcome,
               set_credential(c, fault) \/ test_connection(c, outcome)
        PROVE  configs'[b] = configs[b]
    <3>1. c # b
      BY <2>5 DEF set_credential, TakesKey, test_connection
    <3>2. CASE set_credential(c, fault)
      BY <2>1, <3>1, <3>2 DEF set_credential
    <3>3. CASE test_connection(c, outcome)
      BY <2>1, <3>1, <3>3 DEF test_connection
    <3> QED
      BY <2>5, <3>2, <3>3
  <2>6. ASSUME NEW c \in Configs, NEW fault, revoke_credential(c, fault)
        PROVE  configs'[b].state \in {"SUSPENDED", "REVOKED"}
    BY <2>1, <2>6 DEF revoke_credential, AIProviderConfiguration
  <2>7. ASSUME NEW c \in Configs, NEW fault, activate_configuration(c, fault)
        PROVE  configs'[b].state \in {"SUSPENDED", "REVOKED"}
    <3>1. c # b
      BY <2>7 DEF activate_configuration
    <3>2. CASE UNCHANGED configs
      BY <3>2
    <3>3. CASE configs' = Activated(c)
      <4>1. \/ configs'[b] = configs[b]
            \/ configs'[b] = [configs[b] EXCEPT !.state = "SUSPENDED",
                                     !.current = FALSE, !.scope = "DELETION_ONLY"]
        BY <3>1, <3>3 DEF Activated
      <4> QED
        BY <2>1, <4>1 DEF AIProviderConfiguration
    <3> QED
      BY <2>7, <3>2, <3>3 DEF activate_configuration
  <2>8. ASSUME NEW c \in Configs, NEW fault, NEW target \in {"SUSPENDED", "REVOKED"},
               _apply_stop(c, target, fault)
        PROVE  configs'[b].state \in {"SUSPENDED", "REVOKED"}
    <3>1. CASE UNCHANGED configs
      BY <3>1
    <3>2. CASE configs' = [configs EXCEPT ![c] = Stopped(c, target)]
      <4>1. CASE b = c
        <5>1. configs'[b] = Stopped(b, target)
          BY <2>1, <3>2, <4>1
        <5> QED
          BY <2>1, <5>1 DEF Stopped, AIProviderConfiguration
      <4>2. CASE b # c
        BY <2>1, <3>2, <4>2
      <4> QED
        BY <4>1, <4>2
    <3> QED
      BY <2>8, <3>1, <3>2 DEF _apply_stop
  <2> QED
    BY <2>2, <2>3, <2>4, <2>5, <2>6, <2>7, <2>8 DEF Next, ConfigurationRequests,
       CredentialRequests, ActivationRequests, suspend_configuration,
       revoke_configuration
<1> QED
  BY <1>1, Invariance, PTL DEF Spec, StoppedStaysStopped

-----------------------------------------------------------------------------
(* The lifecycle of models.  Nothing published is ever taken back and no   *)
(* stored calibration changes, so what an approval was given on stays as   *)
(* it was; and the deployment that another one superseded is of the same   *)
(* slot, so a rollback restores what served there before.                  *)

(* The evidence of an approval, and that it still is what was validated    *)
(* (866-888).                                                              *)
EvidenceStands ==
    \A ap \in Approvals : approval[ap].state # "ABSENT" =>
        /\ approval[ap].artifact \in Artifacts
        /\ approval[ap].protocol \in Protocols
        /\ publication[approval[ap].artifact] = "PUBLISHED"
        /\ publication[approval[ap].protocol] = "PUBLISHED"
        /\ approval[ap].calibration # None =>
             calibration[approval[ap].calibration] =
                [artifact |-> approval[ap].artifact,
                 protocol |-> approval[ap].protocol,
                 dataset |-> datasetOf[approval[ap].protocol]]

(* The second person behind every approval (975). *)
ApprovedByAnother ==
    \A ap \in Approvals : approval[ap].state = "APPROVED" =>
        approval[ap].decidedBy \notin {None, approval[ap].createdBy}

(* A stored deployment names its artifact and its approval (1053-1066). *)
DeploymentIsBound ==
    \A d \in Deployments : deployment[d].state # "ABSENT" =>
        /\ deployment[d].artifact \in Artifacts
        /\ deployment[d].approval \in Approvals

(* What was superseded served the same slot (1155-1190). *)
SupersededInSlot ==
    \A d \in Deployments : deployment[d].supersedes # 0 =>
        /\ deployment[deployment[d].supersedes].state # "ABSENT"
        /\ deployment[deployment[d].supersedes].slot = deployment[d].slot

(* The inductive invariant of the lifecycle. *)
LifecycleIndInv ==
    /\ Lifecycle!TypeOK
    /\ Lifecycle!OneActivePerSlot
    /\ Lifecycle!ServedIsApproved
    /\ Lifecycle!RollbacksAreOnRecord
    /\ EvidenceStands
    /\ ApprovedByAnother
    /\ DeploymentIsBound
    /\ SupersededInSlot

(* What absent records look like. *)
LEMMA AbsentRecords ==
    /\ Lifecycle!NoCalibration \in Lifecycle!CalibrationArtifactVersion
    /\ Lifecycle!NoApproval \in Lifecycle!ModelApprovalVersion
    /\ Lifecycle!NoDeployment \in Lifecycle!ModelDeploymentVersion
  BY LifecycleAssumption DEF Lifecycle!NoCalibration, Lifecycle!NoApproval,
     Lifecycle!NoDeployment, Lifecycle!AnyUse,
     Lifecycle!CalibrationArtifactVersion, Lifecycle!ModelApprovalVersion,
     Lifecycle!ModelDeploymentVersion

(* An approval that two people stand behind. *)
LEMMA GivenApproval ==
    ASSUME NEW a \in Artifacts, NEW p \in Protocols, NEW u \in Users, NEW v \in Users
    PROVE  LET g == Lifecycle!ApprovalGiven(a, p, u, v)
           IN  /\ g \in Lifecycle!ModelApprovalVersion
               /\ g.state = "APPROVED" /\ g.artifact = a /\ g.protocol = p
               /\ g.calibration = None /\ g.createdBy = u /\ g.decidedBy = v
  BY LifecycleAssumption DEF Lifecycle!ApprovalGiven, Lifecycle!NoApproval,
     Lifecycle!AnyUse, Lifecycle!ModelApprovalVersion

(* A command within the bound. *)
LEMMA CommandIsCounted ==
    Lifecycle!TypeOK /\ Lifecycle!_execute => calls' \in 0..MaxCalls
  BY LifecycleAssumption DEF Lifecycle!TypeOK, Lifecycle!_execute

(* The empty store, the drafted one and the published one with approvals   *)
(* by two people satisfy the invariant.                                    *)
LEMMA LifecycleInit == Lifecycle!Init => LifecycleIndInv
<1> SUFFICES ASSUME Lifecycle!Init PROVE LifecycleIndInv
  OBVIOUS
<1>1. /\ calls \in 0..MaxCalls
      /\ calibration \in [Calibrations -> Lifecycle!CalibrationArtifactVersion]
      /\ deployment \in [Deployments -> Lifecycle!ModelDeploymentVersion]
      /\ incidents = {} /\ snapshots = {} /\ events = {}
      /\ approved \subseteq Configurations
  BY AbsentRecords, LifecycleAssumption DEF Lifecycle!Init
<1>2. \A d \in Deployments : deployment[d].state = "ABSENT"
                             /\ deployment[d].supersedes = 0
  BY DEF Lifecycle!Init, Lifecycle!NoDeployment
<1>3. /\ approval \in [Approvals -> Lifecycle!ModelApprovalVersion]
      /\ publication \in [Lifecycle!Publishable -> {"ABSENT", "DRAFT", "PUBLISHED"}]
      /\ datasetOf \in [Protocols -> Datasets \cup {None}]
      /\ EvidenceStands
      /\ ApprovedByAnother
  <2>1. CASE /\ \E s \in {"ABSENT", "DRAFT"} :
                  publication = [x \in Lifecycle!Publishable |->
                      IF x \in Datasets \cup Schemas THEN s ELSE "ABSENT"]
             /\ datasetOf = [p \in Protocols |-> None]
             /\ approval = [a \in Approvals |-> Lifecycle!NoApproval]
    <3>1. \A ap \in Approvals : approval[ap].state = "ABSENT"
      BY <2>1 DEF Lifecycle!NoApproval
    <3> QED
      BY <2>1, <3>1, AbsentRecords DEF EvidenceStands, ApprovedByAnother
  <2>2. CASE /\ publication = [x \in Lifecycle!Publishable |-> "PUBLISHED"]
             /\ \E d \in Datasets : datasetOf = [p \in Protocols |-> d]
             /\ \E given \in SUBSET Approvals, of \in [Approvals -> Artifacts],
                   author, checker \in Users, p \in Protocols :
                  /\ author # checker
                  /\ approval = [a \in Approvals |->
                       IF a \notin given THEN Lifecycle!NoApproval
                       ELSE Lifecycle!ApprovalGiven(of[a], p, author, checker)]
    <3>1. PICK d \in Datasets : datasetOf = [p \in Protocols |-> d]
      BY <2>2
    <3>2. PICK given \in SUBSET Approvals, of \in [Approvals -> Artifacts],
               author \in Users, checker \in Users, p \in Protocols :
             /\ author # checker
             /\ approval = [a \in Approvals |->
                  IF a \notin given THEN Lifecycle!NoApproval
                  ELSE Lifecycle!ApprovalGiven(of[a], p, author, checker)]
      BY <2>2, Zenon
    <3>3. ASSUME NEW a \in Approvals
          PROVE  /\ approval[a] \in Lifecycle!ModelApprovalVersion
                 /\ approval[a].state # "ABSENT" =>
                      /\ approval[a].artifact = of[a] /\ approval[a].protocol = p
                      /\ approval[a].calibration = None
                      /\ approval[a].createdBy = author
                      /\ approval[a].decidedBy = checker
      <4>1. CASE a \notin given
        BY <3>2, <4>1, AbsentRecords DEF Lifecycle!NoApproval
      <4>2. CASE a \in given
        BY <3>2, <4>2, GivenApproval
      <4> QED
        BY <4>1, <4>2
    <3>4. /\ \A a \in Approvals : publication[of[a]] = "PUBLISHED"
          /\ publication[p] = "PUBLISHED"
      BY <2>2 DEF Lifecycle!Publishable
    <3>5. EvidenceStands
      BY <2>2, <3>1, <3>2, <3>3, <3>4 DEF EvidenceStands
    <3>6. ApprovedByAnother
      BY <2>2, <3>1, <3>2, <3>3, LifecycleAssumption DEF ApprovedByAnother
    <3> QED
      BY <2>2, <3>1, <3>2, <3>3, <3>5, <3>6
  <2> QED
    BY <2>1, <2>2, Zenon DEF Lifecycle!Init
<1> QED
  BY <1>1, <1>2, <1>3 DEF LifecycleIndInv, Lifecycle!TypeOK,
     Lifecycle!OneActivePerSlot, Lifecycle!ServedIsApproved,
     Lifecycle!RollbacksAreOnRecord, DeploymentIsBound, SupersededInSlot

(* Commands that add evidence: nothing published is taken back, a          *)
(* published protocol keeps its dataset, a stored calibration stays, and   *)
(* approvals, deployments and rollback events are left alone.              *)
LEMMA EvidenceGrows ==
    ASSUME LifecycleIndInv, Lifecycle!TypeOK',
           \A x \in Lifecycle!Publishable :
               publication[x] = "PUBLISHED" => publication'[x] = "PUBLISHED",
           \A p \in Protocols :
               publication[p] = "PUBLISHED" => datasetOf'[p] = datasetOf[p],
           \A c \in Calibrations :
               calibration[c] # Lifecycle!NoCalibration =>
                   calibration'[c] = calibration[c],
           incidents \subseteq incidents',
           UNCHANGED <<approval, deployment, events>>
    PROVE  LifecycleIndInv'
<1>1. /\ approval \in [Approvals -> Lifecycle!ModelApprovalVersion]
      /\ \A ap \in Approvals : approval[ap].calibration \in Calibrations \cup {None}
  BY DEF LifecycleIndInv, Lifecycle!TypeOK, Lifecycle!ModelApprovalVersion
<1>2. EvidenceStands'
  <2> SUFFICES ASSUME NEW ap \in Approvals, approval[ap].state # "ABSENT"
               PROVE  /\ approval[ap].artifact \in Artifacts
                      /\ approval[ap].protocol \in Protocols
                      /\ publication'[approval[ap].artifact] = "PUBLISHED"
                      /\ publication'[approval[ap].protocol] = "PUBLISHED"
                      /\ approval[ap].calibration # None =>
                           calibration'[approval[ap].calibration] =
                             [artifact |-> approval[ap].artifact,
                              protocol |-> approval[ap].protocol,
                              dataset |-> datasetOf'[approval[ap].protocol]]
    BY DEF EvidenceStands
  <2>1. /\ approval[ap].artifact \in Artifacts
        /\ approval[ap].protocol \in Protocols
        /\ publication[approval[ap].artifact] = "PUBLISHED"
        /\ publication[approval[ap].protocol] = "PUBLISHED"
        /\ approval[ap].calibration # None =>
             calibration[approval[ap].calibration] =
                [artifact |-> approval[ap].artifact,
                 protocol |-> approval[ap].protocol,
                 dataset |-> datasetOf[approval[ap].protocol]]
    BY DEF LifecycleIndInv, EvidenceStands
  <2>2. publication'[approval[ap].artifact] = "PUBLISHED"
        /\ publication'[approval[ap].protocol] = "PUBLISHED"
        /\ datasetOf'[approval[ap].protocol] = datasetOf[approval[ap].protocol]
    BY <2>1 DEF Lifecycle!Publishable
  <2>3. ASSUME approval[ap].calibration # None
        PROVE  calibration'[approval[ap].calibration] =
                 calibration[approval[ap].calibration]
    <3>1. calibration[approval[ap].calibration].artifact \in Artifacts
      BY <2>1, <2>3
    <3>2. calibration[approval[ap].calibration] # Lifecycle!NoCalibration
      BY <3>1, LifecycleAssumption DEF Lifecycle!NoCalibration
    <3> QED
      BY <1>1, <2>3, <3>2
  <2> QED
    BY <2>1, <2>2, <2>3
<1>3. Lifecycle!RollbacksAreOnRecord'
  BY DEF LifecycleIndInv, Lifecycle!RollbacksAreOnRecord
<1> QED
  BY <1>2, <1>3 DEF LifecycleIndInv, Lifecycle!OneActivePerSlot,
     Lifecycle!ServedIsApproved, ApprovedByAnother, DeploymentIsBound,
     SupersededInSlot

(* Drafting and publishing datasets, schemas, artifacts and protocols, and *)
(* calibrating (model_lifecycle.py:420-860).                               *)
LEMMA EvidenceInv ==
    ASSUME LifecycleIndInv,
           \/ Lifecycle!DatasetRequests
           \/ Lifecycle!ArtifactRequests
           \/ Lifecycle!ProtocolRequests
    PROVE  LifecycleIndInv'
<1> USE DEF Lifecycle!Publishable
<1>0. Lifecycle!TypeOK
  BY DEF LifecycleIndInv
<1>1. ASSUME NEW x \in Lifecycle!Publishable, Lifecycle!_execute, Lifecycle!Draft(x),
             UNCHANGED <<calibration, approval, deployment, incidents, snapshots,
                         events, approved>>,
             \/ UNCHANGED datasetOf
             \/ x \in Protocols /\ \E d \in Datasets :
                                     datasetOf' = [datasetOf EXCEPT ![x] = d]
      PROVE  LifecycleIndInv'
  <2>1. Lifecycle!TypeOK'
    BY <1>0, <1>1, CommandIsCounted DEF Lifecycle!TypeOK, Lifecycle!Draft
  <2>2. /\ \A y \in Lifecycle!Publishable :
             publication[y] = "PUBLISHED" => publication'[y] = "PUBLISHED"
        /\ \A p \in Protocols :
             publication[p] = "PUBLISHED" => datasetOf'[p] = datasetOf[p]
    BY <1>0, <1>1 DEF Lifecycle!TypeOK, Lifecycle!Draft
  <2> QED
    BY <1>1, <2>1, <2>2, EvidenceGrows
<1>2. ASSUME NEW x \in Lifecycle!Publishable, Lifecycle!_publish(x)
      PROVE  LifecycleIndInv'
  <2>1. Lifecycle!TypeOK'
    BY <1>0, <1>2, CommandIsCounted DEF Lifecycle!TypeOK, Lifecycle!_publish
  <2>2. \A y \in Lifecycle!Publishable :
             publication[y] = "PUBLISHED" => publication'[y] = "PUBLISHED"
    BY <1>0, <1>2 DEF Lifecycle!TypeOK, Lifecycle!_publish
  <2> QED
    BY <1>2, <2>1, <2>2, EvidenceGrows DEF Lifecycle!_publish
<1>3. ASSUME NEW c \in Calibrations, Lifecycle!create_calibration_artifact(c)
      PROVE  LifecycleIndInv'
  <2>1. PICK a \in Artifacts, p \in Protocols :
           calibration' = [calibration EXCEPT ![c] =
              [artifact |-> a, protocol |-> p, dataset |-> datasetOf[p]]]
    BY <1>3 DEF Lifecycle!create_calibration_artifact
  <2>2. [artifact |-> a, protocol |-> p, dataset |-> datasetOf[p]]
           \in Lifecycle!CalibrationArtifactVersion
    BY <1>0 DEF Lifecycle!TypeOK, Lifecycle!CalibrationArtifactVersion
  <2>3. Lifecycle!TypeOK'
    BY <1>0, <1>3, <2>1, <2>2, CommandIsCounted
       DEF Lifecycle!TypeOK, Lifecycle!create_calibration_artifact
  <2>4. \A b \in Calibrations : calibration[b] # Lifecycle!NoCalibration =>
                                  calibration'[b] = calibration[b]
    BY <1>0, <1>3, <2>1 DEF Lifecycle!TypeOK, Lifecycle!create_calibration_artifact
  <2> QED
    BY <1>3, <2>3, <2>4, EvidenceGrows DEF Lifecycle!create_calibration_artifact
<1>4. CASE Lifecycle!DatasetRequests
  BY <1>1, <1>2, <1>4 DEF Lifecycle!DatasetRequests, Lifecycle!create_dataset,
     Lifecycle!create_feature_schema
<1>5. CASE Lifecycle!ArtifactRequests
  BY <1>1, <1>2, <1>5 DEF Lifecycle!ArtifactRequests, Lifecycle!create_model_artifact
<1>6. CASE Lifecycle!ProtocolRequests
  BY <1>1, <1>2, <1>3, <1>6 DEF Lifecycle!ProtocolRequests,
     Lifecycle!create_evaluation_protocol
<1> QED
  BY <1>4, <1>5, <1>6

(* A command that stores an approval keeps the invariant when the evidence *)
(* of the new one stands, two people are behind it if it is approved, and  *)
(* one that was approved only ages.                                        *)
LEMMA ApprovalStored ==
    ASSUME LifecycleIndInv, NEW ap \in Approvals,
           NEW new \in Lifecycle!ModelApprovalVersion,
           approval' = [approval EXCEPT ![ap] = new],
           calls' \in 0..MaxCalls,
           UNCHANGED <<publication, datasetOf, calibration, deployment, incidents,
                       snapshots, events, approved>>,
           new.artifact \in Artifacts, new.protocol \in Protocols,
           publication[new.artifact] = "PUBLISHED",
           publication[new.protocol] = "PUBLISHED",
           new.calibration # None =>
               calibration[new.calibration] =
                   [artifact |-> new.artifact, protocol |-> new.protocol,
                    dataset |-> datasetOf[new.protocol]],
           new.state = "APPROVED" => new.decidedBy \notin {None, new.createdBy},
           approval[ap].state = "APPROVED" =>
               /\ new.state = "APPROVED" /\ new.artifact = approval[ap].artifact
               /\ new.use = approval[ap].use
    PROVE  LifecycleIndInv'
<1>1. approval \in [Approvals -> Lifecycle!ModelApprovalVersion]
  BY DEF LifecycleIndInv, Lifecycle!TypeOK
<1>2. Lifecycle!TypeOK'
  BY <1>1 DEF LifecycleIndInv, Lifecycle!TypeOK
<1>3. approval'[ap] = new /\ \A b \in Approvals : b # ap => approval'[b] = approval[b]
  BY <1>1
<1>4. EvidenceStands'
  <2> SUFFICES ASSUME NEW b \in Approvals, approval'[b].state # "ABSENT"
               PROVE  /\ approval'[b].artifact \in Artifacts
                      /\ approval'[b].protocol \in Protocols
                      /\ publication[approval'[b].artifact] = "PUBLISHED"
                      /\ publication[approval'[b].protocol] = "PUBLISHED"
                      /\ approval'[b].calibration # None =>
                           calibration[approval'[b].calibration] =
                             [artifact |-> approval'[b].artifact,
                              protocol |-> approval'[b].protocol,
                              dataset |-> datasetOf[approval'[b].protocol]]
    BY DEF EvidenceStands
  <2>1. CASE b = ap
    BY <1>3, <2>1
  <2>2. CASE b # ap
    BY <1>3, <2>2 DEF LifecycleIndInv, EvidenceStands
  <2> QED
    BY <2>1, <2>2
<1>5. ApprovedByAnother'
  BY <1>3 DEF LifecycleIndInv, ApprovedByAnother
<1>6. Lifecycle!ServedIsApproved'
  BY <1>3, <1>5 DEF LifecycleIndInv, Lifecycle!ServedIsApproved, DeploymentIsBound,
     ApprovedByAnother
<1> QED
  BY <1>2, <1>4, <1>5, <1>6 DEF LifecycleIndInv, Lifecycle!OneActivePerSlot,
     Lifecycle!RollbacksAreOnRecord, DeploymentIsBound, SupersededInSlot

(* Proposing, deciding and expiring approvals (model_lifecycle.py:866-1022). *)
LEMMA ApprovalInv ==
    ASSUME LifecycleIndInv,
           Lifecycle!ApprovalRequests \/ \E ap \in Approvals : Lifecycle!Expire(ap)
    PROVE  LifecycleIndInv'
<1>0. /\ Lifecycle!TypeOK
      /\ approval \in [Approvals -> Lifecycle!ModelApprovalVersion]
  BY DEF LifecycleIndInv, Lifecycle!TypeOK
<1>1. ASSUME NEW ap \in Approvals, NEW u \in Users,
             Lifecycle!create_model_approval(ap, u)
      PROVE  LifecycleIndInv'
  <2>1. PICK a \in Artifacts, p \in Protocols, c \in Calibrations \cup {None},
             use \in Uses :
          /\ Lifecycle!_validate_approval_evidence(a, p, c)
          /\ approval' = [approval EXCEPT ![ap] =
               [Lifecycle!NoApproval EXCEPT !.state = "PENDING", !.artifact = a,
                                 !.protocol = p, !.calibration = c,
                                 !.use = use, !.createdBy = u]]
    BY <1>1, Zenon DEF Lifecycle!create_model_approval
  <2> DEFINE new == [Lifecycle!NoApproval EXCEPT !.state = "PENDING",
                       !.artifact = a, !.protocol = p, !.calibration = c,
                       !.use = use, !.createdBy = u]
  <2>2. /\ new \in Lifecycle!ModelApprovalVersion
        /\ new.state = "PENDING" /\ new.artifact = a /\ new.protocol = p
        /\ new.calibration = c
    BY DEF Lifecycle!NoApproval, Lifecycle!ModelApprovalVersion
  <2>3. approval' = [approval EXCEPT ![ap] = new]
    BY <2>1
  <2> HIDE DEF new
  <2>4. approval[ap].state = "ABSENT" /\ calls' \in 0..MaxCalls
        /\ UNCHANGED <<publication, datasetOf, calibration, deployment, incidents,
                       snapshots, events, approved>>
    BY <1>0, <1>1, CommandIsCounted DEF Lifecycle!create_model_approval
  <2>5. /\ publication[a] = "PUBLISHED" /\ publication[p] = "PUBLISHED"
        /\ c # None => calibration[c] =
             [artifact |-> a, protocol |-> p, dataset |-> datasetOf[p]]
    BY <2>1 DEF Lifecycle!_validate_approval_evidence, Lifecycle!IsPublished,
       Lifecycle!_require_published_model_artifact,
       Lifecycle!_require_published_protocol
  <2> QED
    BY <2>2, <2>3, <2>4, <2>5, ApprovalStored
<1>2. ASSUME NEW ap \in Approvals, approval[ap].state # "ABSENT",
             NEW new \in Lifecycle!ModelApprovalVersion,
             approval' = [approval EXCEPT ![ap] = new],
             new.artifact = approval[ap].artifact,
             new.protocol = approval[ap].protocol,
             new.calibration = approval[ap].calibration,
             new.use = approval[ap].use, new.createdBy = approval[ap].createdBy,
             approval[ap].state = "APPROVED" => new.state = "APPROVED",
             new.state = "APPROVED" => new.decidedBy \notin {None, new.createdBy},
             calls' \in 0..MaxCalls,
             UNCHANGED <<publication, datasetOf, calibration, deployment, incidents,
                         snapshots, events, approved>>
      PROVE  LifecycleIndInv'
  <2>1. /\ approval[ap].artifact \in Artifacts
        /\ approval[ap].protocol \in Protocols
        /\ publication[approval[ap].artifact] = "PUBLISHED"
        /\ publication[approval[ap].protocol] = "PUBLISHED"
        /\ approval[ap].calibration # None =>
             calibration[approval[ap].calibration] =
                [artifact |-> approval[ap].artifact,
                 protocol |-> approval[ap].protocol,
                 dataset |-> datasetOf[approval[ap].protocol]]
    BY <1>2 DEF LifecycleIndInv, EvidenceStands
  <2> QED
    BY <1>2, <2>1, ApprovalStored
<1>3. ASSUME NEW ap \in Approvals, NEW u \in Users,
             NEW decision \in {"APPROVED", "REJECTED"},
             Lifecycle!decide_model_approval(ap, u, decision)
      PROVE  LifecycleIndInv'
  <2>1. /\ approval[ap].state = "PENDING" /\ approval[ap].createdBy # u
        /\ calls' \in 0..MaxCalls
        /\ UNCHANGED <<publication, datasetOf, calibration, deployment, incidents,
                       snapshots, events, approved>>
    BY <1>0, <1>3, CommandIsCounted DEF Lifecycle!decide_model_approval,
       Lifecycle!MayDecide
  <2> DEFINE new == [approval[ap] EXCEPT !.state = decision, !.decidedBy = u]
  <2>2. approval' = [approval EXCEPT ![ap] = new]
    BY <1>0, <1>3 DEF Lifecycle!decide_model_approval
  <2>3. /\ new \in Lifecycle!ModelApprovalVersion
        /\ new.artifact = approval[ap].artifact
        /\ new.protocol = approval[ap].protocol
        /\ new.calibration = approval[ap].calibration
        /\ new.use = approval[ap].use /\ new.createdBy = approval[ap].createdBy
        /\ new.decidedBy = u
    BY <1>0 DEF Lifecycle!ModelApprovalVersion
  <2> HIDE DEF new
  <2>4. u # None
    BY LifecycleAssumption
  <2> QED
    BY <1>2, <2>1, <2>2, <2>3, <2>4
<1>4. ASSUME NEW ap \in Approvals, Lifecycle!Expire(ap)
      PROVE  LifecycleIndInv'
  <2>1. /\ approval[ap].state # "ABSENT" /\ calls' \in 0..MaxCalls
        /\ UNCHANGED <<publication, datasetOf, calibration, deployment, incidents,
                       snapshots, events, approved>>
    BY <1>0, <1>4 DEF Lifecycle!Expire, Lifecycle!TypeOK
  <2> DEFINE new == [approval[ap] EXCEPT !.expired = TRUE]
  <2>2. approval' = [approval EXCEPT ![ap] = new]
    BY <1>0, <1>4 DEF Lifecycle!Expire
  <2>3. /\ new \in Lifecycle!ModelApprovalVersion
        /\ new.artifact = approval[ap].artifact
        /\ new.protocol = approval[ap].protocol
        /\ new.calibration = approval[ap].calibration
        /\ new.use = approval[ap].use /\ new.createdBy = approval[ap].createdBy
        /\ new.decidedBy = approval[ap].decidedBy /\ new.state = approval[ap].state
    BY <1>0 DEF Lifecycle!ModelApprovalVersion
  <2> HIDE DEF new
  <2>4. approval[ap].state = "APPROVED" =>
          approval[ap].decidedBy \notin {None, approval[ap].createdBy}
    BY DEF LifecycleIndInv, ApprovedByAnother
  <2> QED
    BY <1>2, <2>1, <2>2, <2>3, <2>4
<1> QED
  BY <1>1, <1>3, <1>4 DEF Lifecycle!ApprovalRequests

-----------------------------------------------------------------------------
(* A binding that passed validation names an approved approval of the      *)
(* artifact for the purpose, which has not run out (1053-1066).            *)
LEMMA BindingIsApproved ==
    ASSUME NEW a, NEW ap, NEW cfg, NEW use,
           Lifecycle!_validate_deployment_binding(a, ap, cfg, use)
    PROVE  /\ approval[ap].state = "APPROVED" /\ ~approval[ap].expired
           /\ approval[ap].artifact = a /\ approval[ap].use = use
  BY DEF Lifecycle!_validate_deployment_binding, Lifecycle!_require_approved_approval

(* While a slot serves at most one deployment, find_active_deployment      *)
(* finds it.                                                               *)
LEMMA ActiveIsFound ==
    ASSUME LifecycleIndInv, NEW slot,
           NEW active, active = Lifecycle!find_active_deployment(slot)
    PROVE  /\ active \in Deployments \cup {0}
           /\ active # 0 => /\ deployment[active].state = "ACTIVE"
                            /\ deployment[active].slot = slot
           /\ \A e \in Deployments :
                (deployment[e].state = "ACTIVE" /\ deployment[e].slot = slot)
                  => e = active
<1> DEFINE S == {d \in Deployments : deployment[d].slot = slot
                                     /\ deployment[d].state = "ACTIVE"}
<1>1. \A d, e \in S : d = e
  BY DEF LifecycleIndInv, Lifecycle!OneActivePerSlot
<1>2. CASE S = {}
  <2>1. active = 0
    BY <1>2 DEF Lifecycle!find_active_deployment
  <2> QED
    BY <1>2, <2>1, LifecycleAssumption
<1>3. CASE S # {}
  <2>1. PICK d \in S : TRUE
    BY <1>3
  <2>2. \A e \in S : e <= d
    BY <1>1, <2>1, LifecycleAssumption
  <2>3. active = CHOOSE x \in S : \A e \in S : e <= x
    BY <1>3 DEF Lifecycle!find_active_deployment
  <2>4. active \in S
    BY <2>1, <2>2, <2>3
  <2> QED
    BY <1>1, <2>4
<1> QED
  BY <1>2, <1>3

(* Storing a new draft (1068-1130). *)
LEMMA CreateDeploymentInv ==
    ASSUME LifecycleIndInv, NEW d \in Deployments, Lifecycle!create_model_deployment(d)
    PROVE  LifecycleIndInv'
<1>0. /\ Lifecycle!TypeOK
      /\ deployment \in [Deployments -> Lifecycle!ModelDeploymentVersion]
  BY DEF LifecycleIndInv, Lifecycle!TypeOK
<1>1. PICK a \in Artifacts, ap \in Approvals, cfg \in Configurations, use \in Uses,
           slot \in Slots :
        /\ Lifecycle!_validate_deployment_binding(a, ap, cfg, use)
        /\ deployment' = [deployment EXCEPT ![d] =
             [state |-> "DRAFT", artifact |-> a, approval |-> ap,
              configuration |-> cfg, use |-> use, slot |-> slot,
              supersedes |-> 0]]
  BY DEF Lifecycle!create_model_deployment
<1>2. /\ deployment[d].state = "ABSENT" /\ calls' \in 0..MaxCalls
      /\ UNCHANGED <<publication, datasetOf, calibration, approval, incidents,
                     snapshots, events, approved>>
  BY <1>0, CommandIsCounted DEF Lifecycle!create_model_deployment
<1> DEFINE new == [state |-> "DRAFT", artifact |-> a, approval |-> ap,
                   configuration |-> cfg, use |-> use, slot |-> slot,
                   supersedes |-> 0]
<1>3. /\ new \in Lifecycle!ModelDeploymentVersion
      /\ new.state = "DRAFT" /\ new.artifact = a /\ new.approval = ap
      /\ new.use = use /\ new.supersedes = 0
  BY DEF Lifecycle!ModelDeploymentVersion
<1>4. /\ deployment' \in [Deployments -> Lifecycle!ModelDeploymentVersion]
      /\ deployment'[d] = new
      /\ \A e \in Deployments : e # d => deployment'[e] = deployment[e]
  BY <1>0, <1>1, <1>3
<1> HIDE DEF new
<1>5. Lifecycle!TypeOK'
  BY <1>0, <1>2, <1>4 DEF Lifecycle!TypeOK
<1>6. Lifecycle!OneActivePerSlot'
  BY <1>3, <1>4 DEF LifecycleIndInv, Lifecycle!OneActivePerSlot
<1>7. Lifecycle!ServedIsApproved' /\ DeploymentIsBound'
  <2> SUFFICES ASSUME NEW e \in Deployments, deployment'[e].state # "ABSENT"
               PROVE  /\ deployment'[e].artifact \in Artifacts
                      /\ deployment'[e].approval \in Approvals
                      /\ approval[deployment'[e].approval].state = "APPROVED"
                      /\ approval[deployment'[e].approval].artifact = deployment'[e].artifact
                      /\ approval[deployment'[e].approval].use = deployment'[e].use
                      /\ approval[deployment'[e].approval].decidedBy \notin
                           {None, approval[deployment'[e].approval].createdBy}
    BY <1>2 DEF Lifecycle!ServedIsApproved, DeploymentIsBound
  <2>1. CASE e = d
    BY <1>1, <1>3, <1>4, <2>1, BindingIsApproved DEF LifecycleIndInv, ApprovedByAnother
  <2>2. CASE e # d
    BY <1>4, <2>2 DEF LifecycleIndInv, Lifecycle!ServedIsApproved, DeploymentIsBound
  <2> QED
    BY <2>1, <2>2
<1>8. Lifecycle!RollbacksAreOnRecord'
  BY <1>2, <1>3, <1>4 DEF LifecycleIndInv, Lifecycle!RollbacksAreOnRecord
<1>9. SupersededInSlot'
  <2> SUFFICES ASSUME NEW e \in Deployments, deployment'[e].supersedes # 0
               PROVE  /\ deployment'[deployment'[e].supersedes].state # "ABSENT"
                      /\ deployment'[deployment'[e].supersedes].slot = deployment'[e].slot
    BY DEF SupersededInSlot
  <2>1. e # d /\ deployment'[e] = deployment[e]
    BY <1>3, <1>4
  <2>2. /\ deployment[e].supersedes \in Deployments
        /\ deployment[deployment[e].supersedes].state # "ABSENT"
        /\ deployment[deployment[e].supersedes].slot = deployment[e].slot
    BY <1>0, <2>1 DEF LifecycleIndInv, SupersededInSlot, Lifecycle!ModelDeploymentVersion
  <2>3. deployment'[deployment[e].supersedes] = deployment[deployment[e].supersedes]
    BY <1>2, <1>4, <2>2
  <2> QED
    BY <2>1, <2>2, <2>3
<1> QED
  BY <1>2, <1>5, <1>6, <1>7, <1>8, <1>9 DEF LifecycleIndInv, EvidenceStands,
     ApprovedByAnother

(* A command that only moves stored deployments between states keeps what  *)
(* they are bound to.                                                      *)
LEMMA DeploymentsMove ==
    ASSUME LifecycleIndInv, Lifecycle!TypeOK',
           UNCHANGED <<publication, datasetOf, calibration, approval, incidents>>,
           \A e \in Deployments :
               /\ deployment'[e].state = "ABSENT" <=> deployment[e].state = "ABSENT"
               /\ deployment'[e].artifact = deployment[e].artifact
               /\ deployment'[e].approval = deployment[e].approval
               /\ deployment'[e].use = deployment[e].use,
           Lifecycle!OneActivePerSlot', Lifecycle!RollbacksAreOnRecord',
           SupersededInSlot'
    PROVE  LifecycleIndInv'
<1>1. Lifecycle!ServedIsApproved' /\ DeploymentIsBound'
  BY DEF LifecycleIndInv, Lifecycle!ServedIsApproved, DeploymentIsBound
<1> QED
  BY <1>1 DEF LifecycleIndInv, EvidenceStands, ApprovedByAnother

(* Activation: the draft serves, what served in its slot is superseded     *)
(* (1132-1200).                                                            *)
LEMMA ActivatedInv ==
    ASSUME LifecycleIndInv, NEW d \in Deployments, Lifecycle!activate_model_deployment(d)
    PROVE  /\ LifecycleIndInv'
           /\ Lifecycle!ServingSlotKeepsServing
           /\ Lifecycle!ExpiredNeverStarts
<1>0. /\ Lifecycle!TypeOK
      /\ deployment \in [Deployments -> Lifecycle!ModelDeploymentVersion]
  BY DEF LifecycleIndInv, Lifecycle!TypeOK
<1>1. PICK active : active = Lifecycle!find_active_deployment(deployment[d].slot)
  OBVIOUS
<1>2. /\ active \in Deployments \cup {0}
      /\ active # 0 => /\ deployment[active].state = "ACTIVE"
                       /\ deployment[active].slot = deployment[d].slot
      /\ \A e \in Deployments :
           (deployment[e].state = "ACTIVE" /\ deployment[e].slot = deployment[d].slot)
              => e = active
  BY <1>1, ActiveIsFound
<1>3. /\ deployment[d].state = "DRAFT" /\ calls' \in 0..MaxCalls
      /\ Lifecycle!BindingHolds(d)
      /\ UNCHANGED <<publication, datasetOf, calibration, approval, incidents,
                     snapshots, events, approved>>
  BY <1>0, CommandIsCounted DEF Lifecycle!activate_model_deployment
<1>4. deployment' = [e \in Deployments |->
           CASE e = d -> [deployment[d] EXCEPT !.state = "ACTIVE",
                                               !.supersedes = active]
             [] e = active /\ e # d -> [deployment[e] EXCEPT !.state = "SUPERSEDED"]
             [] OTHER -> deployment[e]]
  BY <1>1 DEF Lifecycle!activate_model_deployment
<1>5. d # active /\ 0 \notin Deployments
  BY <1>2, <1>3, LifecycleAssumption
<1>6. /\ deployment'[d] = [deployment[d] EXCEPT !.state = "ACTIVE",
                                               !.supersedes = active]
      /\ active \in Deployments =>
           deployment'[active] = [deployment[active] EXCEPT !.state = "SUPERSEDED"]
      /\ \A e \in Deployments : e # d /\ e # active => deployment'[e] = deployment[e]
      /\ DOMAIN deployment' = Deployments
      /\ deployment' = [e \in Deployments |-> deployment'[e]]
  BY <1>4, <1>5
<1>7. ASSUME NEW e \in Deployments
      PROVE  /\ deployment'[e] \in Lifecycle!ModelDeploymentVersion
             /\ deployment'[e].artifact = deployment[e].artifact
             /\ deployment'[e].approval = deployment[e].approval
             /\ deployment'[e].use = deployment[e].use
             /\ deployment'[e].slot = deployment[e].slot
             /\ deployment'[e].supersedes = IF e = d THEN active
                                            ELSE deployment[e].supersedes
             /\ deployment'[e].state = IF e = d THEN "ACTIVE"
                                       ELSE IF e = active THEN "SUPERSEDED"
                                       ELSE deployment[e].state
  <2>1. deployment[e] \in Lifecycle!ModelDeploymentVersion
    BY <1>0
  <2>2. CASE e = d
    BY <1>2, <1>6, <2>1, <2>2 DEF Lifecycle!ModelDeploymentVersion
  <2>3. CASE e # d /\ e = active
    BY <1>6, <2>1, <2>3 DEF Lifecycle!ModelDeploymentVersion
  <2>4. CASE e # d /\ e # active
    BY <1>6, <2>1, <2>4
  <2> QED
    BY <2>2, <2>3, <2>4
<1>8. Lifecycle!TypeOK'
  BY <1>0, <1>3, <1>6, <1>7 DEF Lifecycle!TypeOK
<1>9. Lifecycle!OneActivePerSlot'
  BY <1>2, <1>7 DEF LifecycleIndInv, Lifecycle!OneActivePerSlot
<1>10. Lifecycle!RollbacksAreOnRecord'
  BY <1>3, <1>7 DEF LifecycleIndInv, Lifecycle!RollbacksAreOnRecord
<1>11. SupersededInSlot'
  <2> SUFFICES ASSUME NEW e \in Deployments, deployment'[e].supersedes # 0
               PROVE  /\ deployment'[deployment'[e].supersedes].state # "ABSENT"
                      /\ deployment'[deployment'[e].supersedes].slot = deployment'[e].slot
    BY DEF SupersededInSlot
  <2>1. CASE e = d
    BY <1>2, <1>5, <1>7, <2>1
  <2>2. CASE e # d
    <3>1. /\ deployment[e].supersedes \in Deployments
          /\ deployment[deployment[e].supersedes].state # "ABSENT"
          /\ deployment[deployment[e].supersedes].slot = deployment[e].slot
          /\ deployment'[e].supersedes = deployment[e].supersedes
      BY <1>0, <1>7, <2>2 DEF LifecycleIndInv, SupersededInSlot,
         Lifecycle!ModelDeploymentVersion
    <3> QED
      BY <1>7, <3>1
  <2> QED
    BY <2>1, <2>2
<1>12. LifecycleIndInv'
  <2>1. \A e \in Deployments :
            deployment'[e].state = "ABSENT" <=> deployment[e].state = "ABSENT"
    BY <1>2, <1>3, <1>5, <1>7
  <2> QED
    BY <1>3, <1>7, <1>8, <1>9, <1>10, <1>11, <2>1, DeploymentsMove
<1>13. Lifecycle!ServingSlotKeepsServing
  <2> SUFFICES ASSUME NEW a \in Deployments, deployment[a].state = "ACTIVE"
               PROVE  \E e \in Deployments : /\ deployment'[e].state = "ACTIVE"
                                             /\ deployment'[e].slot = deployment[a].slot
    BY DEF Lifecycle!ServingSlotKeepsServing
  <2>1. CASE deployment[a].slot = deployment[d].slot
    BY <1>7, <2>1
  <2>2. CASE deployment[a].slot # deployment[d].slot
    <3>1. a # d /\ a # active
      BY <1>2, <1>5, <2>2
    <3> QED
      BY <1>7, <3>1
  <2> QED
    BY <2>1, <2>2
<1>14. Lifecycle!ExpiredNeverStarts
  BY <1>3, <1>7, BindingIsApproved DEF Lifecycle!ExpiredNeverStarts,
     Lifecycle!BindingHolds
<1> QED
  BY <1>12, <1>13, <1>14

(* Rollback: what it superseded serves again, in the same slot, and an     *)
(* event says so (1202-1300).                                              *)
LEMMA RollbackInv ==
    ASSUME LifecycleIndInv, NEW d \in Deployments, NEW incident \in Deployments \cup {0},
           Lifecycle!rollback_model_deployment(d, incident)
    PROVE  /\ LifecycleIndInv'
           /\ Lifecycle!ServingSlotKeepsServing
           /\ Lifecycle!ExpiredNeverStarts
<1>0. /\ Lifecycle!TypeOK
      /\ deployment \in [Deployments -> Lifecycle!ModelDeploymentVersion]
      /\ \A e \in Deployments : deployment[e] \in Lifecycle!ModelDeploymentVersion
  BY DEF LifecycleIndInv, Lifecycle!TypeOK
<1>1. PICK target : target = deployment[d].supersedes
  OBVIOUS
<1>2. /\ deployment[d].state = "ACTIVE" /\ target # 0
      /\ deployment[target].state = "SUPERSEDED" /\ Lifecycle!BindingHolds(target)
      /\ incident # 0 => incident = d /\ d \in incidents
      /\ deployment' = [deployment EXCEPT ![d].state = "ROLLED_BACK",
                                          ![target].state = "ACTIVE"]
      /\ events' = events \cup {[deployment |-> d, from |-> deployment[d].artifact,
                                 to |-> deployment[target].artifact,
                                 incident |-> incident]}
      /\ calls' \in 0..MaxCalls
      /\ UNCHANGED <<publication, datasetOf, calibration, approval, incidents,
                     snapshots, approved>>
  BY <1>0, <1>1, CommandIsCounted DEF Lifecycle!rollback_model_deployment,
     Lifecycle!MayRestore, Lifecycle!Restored, Lifecycle!IncidentOf,
     Lifecycle!_new_rollback_event
<1>3. /\ target \in Deployments /\ target # d
      /\ deployment[target].slot = deployment[d].slot
  BY <1>0, <1>1, <1>2 DEF LifecycleIndInv, SupersededInSlot,
     Lifecycle!ModelDeploymentVersion
<1>4. /\ deployment'[d] = [deployment[d] EXCEPT !.state = "ROLLED_BACK"]
      /\ deployment'[target] = [deployment[target] EXCEPT !.state = "ACTIVE"]
      /\ \A e \in Deployments : e # d /\ e # target => deployment'[e] = deployment[e]
      /\ deployment' = [e \in Deployments |-> deployment'[e]]
  BY <1>0, <1>2, <1>3
<1>5. ASSUME NEW e \in Deployments
      PROVE  /\ deployment'[e] \in Lifecycle!ModelDeploymentVersion
             /\ deployment'[e].artifact = deployment[e].artifact
             /\ deployment'[e].approval = deployment[e].approval
             /\ deployment'[e].use = deployment[e].use
             /\ deployment'[e].slot = deployment[e].slot
             /\ deployment'[e].supersedes = deployment[e].supersedes
             /\ deployment'[e].state = IF e = d THEN "ROLLED_BACK"
                                       ELSE IF e = target THEN "ACTIVE"
                                       ELSE deployment[e].state
  <2>1. deployment[e] \in Lifecycle!ModelDeploymentVersion
    BY <1>0
  <2>2. CASE e = d
    BY <1>4, <2>1, <2>2 DEF Lifecycle!ModelDeploymentVersion
  <2>3. CASE e # d /\ e = target
    BY <1>4, <2>1, <2>3 DEF Lifecycle!ModelDeploymentVersion
  <2>4. CASE e # d /\ e # target
    BY <1>4, <2>1, <2>4
  <2> QED
    BY <2>2, <2>3, <2>4
<1>6. Lifecycle!TypeOK'
  <2>1. deployment[d].artifact \in Artifacts /\ deployment[target].artifact \in Artifacts
    BY <1>2, <1>3 DEF LifecycleIndInv, DeploymentIsBound
  <2>2. events' \subseteq Lifecycle!RollbackEvent
    BY <1>0, <1>2, <2>1 DEF Lifecycle!TypeOK, Lifecycle!RollbackEvent
  <2> QED
    BY <1>0, <1>2, <1>4, <1>5, <2>2 DEF Lifecycle!TypeOK
<1>7. Lifecycle!OneActivePerSlot'
  BY <1>2, <1>3, <1>5 DEF LifecycleIndInv, Lifecycle!OneActivePerSlot
<1>8. Lifecycle!RollbacksAreOnRecord'
  <2> DEFINE event == [deployment |-> d, from |-> deployment[d].artifact,
                       to |-> deployment[target].artifact, incident |-> incident]
  <2>1. event \in events' /\ event.deployment = d /\ event.incident = incident
        /\ events' = events \cup {event}
    BY <1>2
  <2> HIDE DEF event
  <2>2. ASSUME NEW e \in Deployments, deployment'[e].state = "ROLLED_BACK"
        PROVE  \E x \in events' : x.deployment = e
    <3>1. CASE e = d
      BY <2>1, <3>1
    <3>2. CASE e # d
      <4>1. deployment[e].state = "ROLLED_BACK"
        BY <1>5, <2>2, <3>2
      <4> QED
        BY <2>1, <4>1 DEF LifecycleIndInv, Lifecycle!RollbacksAreOnRecord
    <3> QED
      BY <3>1, <3>2
  <2>3. ASSUME NEW x \in events', x.incident # 0
        PROVE  x.incident = x.deployment /\ x.incident \in incidents'
    BY <1>2, <2>1, <2>3 DEF LifecycleIndInv, Lifecycle!RollbacksAreOnRecord
  <2> QED
    BY <2>2, <2>3 DEF Lifecycle!RollbacksAreOnRecord
<1>9. SupersededInSlot'
  <2> SUFFICES ASSUME NEW e \in Deployments, deployment[e].supersedes # 0
               PROVE  /\ deployment'[deployment[e].supersedes].state # "ABSENT"
                      /\ deployment'[deployment[e].supersedes].slot = deployment[e].slot
    BY <1>5 DEF SupersededInSlot
  <2>1. /\ deployment[e].supersedes \in Deployments
        /\ deployment[deployment[e].supersedes].state # "ABSENT"
        /\ deployment[deployment[e].supersedes].slot = deployment[e].slot
    BY <1>0 DEF LifecycleIndInv, SupersededInSlot, Lifecycle!ModelDeploymentVersion
  <2> QED
    BY <1>5, <2>1
<1>10. LifecycleIndInv'
  <2>1. ASSUME NEW e \in Deployments
        PROVE  deployment'[e].state = "ABSENT" <=> deployment[e].state = "ABSENT"
    <3>1. deployment[d].state = "ACTIVE" /\ deployment[target].state = "SUPERSEDED"
      BY <1>2
    <3>2. deployment'[e].state = IF e = d THEN "ROLLED_BACK"
                                 ELSE IF e = target THEN "ACTIVE"
                                 ELSE deployment[e].state
      BY <1>5
    <3> QED
      BY <3>1, <3>2
  <2> QED
    BY <1>2, <1>5, <1>6, <1>7, <1>8, <1>9, <2>1, DeploymentsMove
<1>11. Lifecycle!ServingSlotKeepsServing
  <2> SUFFICES ASSUME NEW a \in Deployments, deployment[a].state = "ACTIVE"
               PROVE  \E e \in Deployments : /\ deployment'[e].state = "ACTIVE"
                                             /\ deployment'[e].slot = deployment[a].slot
    BY DEF Lifecycle!ServingSlotKeepsServing
  <2>1. CASE a = d
    BY <1>3, <1>5, <2>1
  <2>2. CASE a # d
    BY <1>5, <2>2
  <2> QED
    BY <2>1, <2>2
<1>12. Lifecycle!ExpiredNeverStarts
  BY <1>2, <1>5, BindingIsApproved DEF Lifecycle!ExpiredNeverStarts,
     Lifecycle!BindingHolds
<1> QED
  BY <1>10, <1>11, <1>12

(* Monitoring, incidents and rollback events on their own, and a new       *)
(* external reference (1302-1540).                                         *)
LEMMA MonitoringInv ==
    ASSUME LifecycleIndInv,
           Lifecycle!MonitoringRequests \/ Lifecycle!ReferenceReplaced
    PROVE  LifecycleIndInv'
<1>0. Lifecycle!TypeOK
  BY DEF LifecycleIndInv
<1>1. ASSUME NEW d \in Deployments,
             \/ Lifecycle!create_monitoring_snapshot(d)
             \/ \E snapshot \in Deployments \cup {0} :
                  Lifecycle!create_model_incident(d, snapshot)
      PROVE  LifecycleIndInv'
  <2>1. /\ calls' \in 0..MaxCalls
        /\ incidents \subseteq incidents' /\ incidents' \subseteq Deployments
        /\ snapshots' \subseteq Deployments
        /\ UNCHANGED <<publication, datasetOf, calibration, approval, deployment,
                       events, approved>>
    BY <1>0, <1>1, CommandIsCounted DEF Lifecycle!create_monitoring_snapshot,
       Lifecycle!create_model_incident, Lifecycle!TypeOK
  <2>2. Lifecycle!TypeOK'
    BY <1>0, <2>1 DEF Lifecycle!TypeOK
  <2> QED
    BY <2>1, <2>2, EvidenceGrows
<1>2. ASSUME NEW d \in Deployments, NEW to \in Artifacts \cup {None},
             NEW incident \in Deployments \cup {0},
             Lifecycle!create_rollback_event(d, to, incident)
      PROVE  LifecycleIndInv'
  <2>1. /\ calls' \in 0..MaxCalls
        /\ deployment[d].state # "ABSENT"
        /\ incident # 0 => incident = d /\ d \in incidents
        /\ events' = events \cup {[deployment |-> d, from |-> deployment[d].artifact,
                                   to |-> to, incident |-> incident]}
        /\ UNCHANGED <<publication, datasetOf, calibration, approval, deployment,
                       incidents, snapshots, approved>>
    BY <1>0, <1>2, CommandIsCounted DEF Lifecycle!create_rollback_event,
       Lifecycle!_validate_rollback_references, Lifecycle!IncidentOf,
       Lifecycle!_new_rollback_event
  <2>2. deployment[d].artifact \in Artifacts
    BY <2>1 DEF LifecycleIndInv, DeploymentIsBound
  <2>3. events' \subseteq Lifecycle!RollbackEvent
    BY <1>0, <2>1, <2>2 DEF Lifecycle!TypeOK, Lifecycle!RollbackEvent
  <2>4. Lifecycle!TypeOK'
    BY <1>0, <2>1, <2>3 DEF Lifecycle!TypeOK
  <2>5. Lifecycle!RollbacksAreOnRecord'
    BY <2>1 DEF LifecycleIndInv, Lifecycle!RollbacksAreOnRecord
  <2> QED
    BY <2>1, <2>4, <2>5 DEF LifecycleIndInv, Lifecycle!OneActivePerSlot,
       Lifecycle!ServedIsApproved, EvidenceStands, ApprovedByAnother,
       DeploymentIsBound, SupersededInSlot
<1>3. CASE Lifecycle!ReferenceReplaced
  <2>1. Lifecycle!TypeOK'
    BY <1>0, <1>3 DEF Lifecycle!TypeOK, Lifecycle!ReferenceReplaced
  <2> QED
    BY <1>3, <2>1, EvidenceGrows DEF Lifecycle!ReferenceReplaced
<1> QED
  BY <1>1, <1>2, <1>3 DEF Lifecycle!MonitoringRequests

(* Every step keeps the invariant. *)
LEMMA LifecycleNext ==
    LifecycleIndInv /\ [Lifecycle!Next]_(Lifecycle!lifecycleVars) => LifecycleIndInv'
<1> SUFFICES ASSUME LifecycleIndInv, [Lifecycle!Next]_(Lifecycle!lifecycleVars)
             PROVE  LifecycleIndInv'
  OBVIOUS
<1>1. CASE Lifecycle!DeploymentRequests
  BY <1>1, CreateDeploymentInv, ActivatedInv, RollbackInv
     DEF Lifecycle!DeploymentRequests
<1>2. CASE UNCHANGED Lifecycle!lifecycleVars
  BY <1>2, EvidenceGrows DEF Lifecycle!lifecycleVars, LifecycleIndInv, Lifecycle!TypeOK
<1> QED
  BY <1>1, <1>2, EvidenceInv, ApprovalInv, MonitoringInv DEF Lifecycle!Next

(* The inductive invariant holds in every state that the commands of the   *)
(* model lifecycle reach (model_lifecycle.py:420-1540).                    *)
THEOREM LifecycleInvariance == Lifecycle!Spec => []LifecycleIndInv
  BY LifecycleInit, LifecycleNext, PTL DEF Lifecycle!Spec

(* What the lifecycle promises, for any number of artifacts, approvals,    *)
(* deployments and slots: a slot serves one deployment, on an approval of  *)
(* two people for that artifact and purpose, whose evidence belongs        *)
(* together; every rollback is on record (model_lifecycle.py:866-1300).    *)
THEOREM DeploymentsAreSound ==
    /\ Lifecycle!Spec => []Lifecycle!DeploymentInv
    /\ MCSpec => []DeploymentInv
<1>1. LifecycleIndInv => Lifecycle!EvidenceBelongsTogether
  <2> SUFFICES ASSUME LifecycleIndInv, NEW ap \in Approvals,
                      approval[ap].state # "ABSENT"
               PROVE  /\ publication[approval[ap].artifact] = "PUBLISHED"
                      /\ publication[approval[ap].protocol] = "PUBLISHED"
                      /\ approval[ap].calibration # None =>
                           /\ calibration[approval[ap].calibration].artifact =
                                approval[ap].artifact
                           /\ calibration[approval[ap].calibration].dataset =
                                datasetOf[approval[ap].protocol]
    BY DEF Lifecycle!EvidenceBelongsTogether, Lifecycle!IsPublished
  <2>1. EvidenceStands
    BY DEF LifecycleIndInv
  <2>2. /\ publication[approval[ap].artifact] = "PUBLISHED"
        /\ publication[approval[ap].protocol] = "PUBLISHED"
    BY <2>1 DEF EvidenceStands
  <2>3. ASSUME approval[ap].calibration # None
        PROVE  calibration[approval[ap].calibration] =
                 [artifact |-> approval[ap].artifact,
                  protocol |-> approval[ap].protocol,
                  dataset |-> datasetOf[approval[ap].protocol]]
    BY <2>1, <2>3, Zenon DEF EvidenceStands
  <2> QED
    BY <2>2, <2>3
<1>2. LifecycleIndInv => Lifecycle!DeploymentInv
  BY <1>1 DEF LifecycleIndInv, Lifecycle!DeploymentInv
<1>3. Lifecycle!Spec => []Lifecycle!DeploymentInv
  BY <1>2, LifecycleInvariance, PTL
<1>4. MCInit => Lifecycle!Init
  BY DEF MCInit
<1>5. MCNext => [Lifecycle!Next]_(Lifecycle!lifecycleVars)
  BY Zenon DEF MCNext, Lifecycle!lifecycleVars, lifecycleVars
<1>6. UNCHANGED <<focus, providerVars, lifecycleVars>> => UNCHANGED Lifecycle!lifecycleVars
  BY Zenon DEF Lifecycle!lifecycleVars, lifecycleVars
<1>7. MCSpec => Lifecycle!Spec
  BY <1>4, <1>5, <1>6, PTL DEF MCSpec, Lifecycle!Spec
<1>8. Lifecycle!DeploymentInv => DeploymentInv
  BY DEF DeploymentInv
<1> QED
  BY <1>3, <1>7, <1>8, PTL

(* No command silences a slot that serves, and neither activation nor      *)
(* rollback starts a deployment whose approval ran out                     *)
(* (model_lifecycle.py:1021-1022, 1155-1190, 1236-1284).                   *)
THEOREM SlotsKeepServing == Lifecycle!Spec => SlotKeepsServing
<1> DEFINE Keeps == Lifecycle!ServingSlotKeepsServing /\ Lifecycle!ExpiredNeverStarts
<1>1. ASSUME UNCHANGED deployment
      PROVE  Keeps
  BY <1>1 DEF Lifecycle!ServingSlotKeepsServing, Lifecycle!ExpiredNeverStarts
<1>2. ASSUME LifecycleIndInv, NEW d \in Deployments, Lifecycle!create_model_deployment(d)
      PROVE  Keeps
  <2>1. deployment \in [Deployments -> Lifecycle!ModelDeploymentVersion]
        /\ deployment[d].state = "ABSENT"
    BY <1>2 DEF LifecycleIndInv, Lifecycle!TypeOK, Lifecycle!create_model_deployment
  <2>2. /\ deployment'[d].state = "DRAFT"
        /\ \A e \in Deployments : e # d => deployment'[e] = deployment[e]
    BY <1>2, <2>1 DEF Lifecycle!create_model_deployment
  <2> QED
    BY <2>1, <2>2 DEF Lifecycle!ServingSlotKeepsServing, Lifecycle!ExpiredNeverStarts
<1>3. ASSUME LifecycleIndInv, Lifecycle!Next
      PROVE  Keeps
  <2>1. CASE Lifecycle!DeploymentRequests
    BY <1>2, <1>3, <2>1, ActivatedInv, RollbackInv DEF Lifecycle!DeploymentRequests
  <2>2. ASSUME ~Lifecycle!DeploymentRequests
        PROVE  UNCHANGED deployment
    <3>1. CASE \/ Lifecycle!DatasetRequests \/ Lifecycle!ArtifactRequests
               \/ Lifecycle!ProtocolRequests
      BY <3>1 DEF Lifecycle!DatasetRequests,
         Lifecycle!ArtifactRequests, Lifecycle!ProtocolRequests,
         Lifecycle!create_dataset, Lifecycle!create_feature_schema,
         Lifecycle!_publish, Lifecycle!create_model_artifact,
         Lifecycle!create_evaluation_protocol,
         Lifecycle!create_calibration_artifact
    <3>2. CASE Lifecycle!ApprovalRequests \/ \E ap \in Approvals : Lifecycle!Expire(ap)
      BY <3>2, Zenon DEF Lifecycle!ApprovalRequests, Lifecycle!create_model_approval,
         Lifecycle!decide_model_approval, Lifecycle!Expire
    <3>3. CASE Lifecycle!MonitoringRequests \/ Lifecycle!ReferenceReplaced
      BY <3>3 DEF Lifecycle!MonitoringRequests, Lifecycle!create_monitoring_snapshot,
         Lifecycle!create_model_incident, Lifecycle!create_rollback_event,
         Lifecycle!ReferenceReplaced
    <3> QED
      BY <1>3, <2>2, <3>1, <3>2, <3>3 DEF Lifecycle!Next
  <2> QED
    BY <1>1, <2>1, <2>2
<1>4. LifecycleIndInv /\ [Lifecycle!Next]_(Lifecycle!lifecycleVars) =>
        [Keeps]_(Lifecycle!lifecycleVars)
  BY <1>3
<1> QED
  BY <1>4, LifecycleInvariance, PTL DEF Lifecycle!Spec, SlotKeepsServing,
     Lifecycle!SlotKeepsServing

=============================================================================
