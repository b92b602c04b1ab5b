------------------------------- MODULE MCMarket --------------------------------
(***************************************************************************)
(* The market's governance and the privacy records.  Subjects, sources and *)
(* priors share a clock and the competitors and are otherwise independent, *)
(* as are the commands on privacy records and the reading of them; a       *)
(* behaviour exercises one part, focus says which.                         *)
(***************************************************************************)
EXTENDS MarketGovernance, TLC, FiniteSetsExt

CONSTANTS Records, Keys, Staff, MaxVersion, MaxBirth, WalkTypes, MaxChanges

VARIABLES focus, record, journal, lost, past, birth, walk

(* Record ids are positive, ids and keys are finitely many, and a record   *)
(* can be created.                                                         *)
ASSUME PrivacyAssumption ==
    /\ Records \subseteq Nat \ {0}
    /\ IsFiniteSet(Records) /\ IsFiniteSet(Keys)
    /\ MaxVersion \in Nat \ {0}
    /\ MaxBirth \in Nat

Privacy == INSTANCE PrivacyRecords

(* The lists a reader walks are lists of resource types. *)
ASSUME WalkAssumption == WalkTypes \subseteq Privacy!ResourceTypes

privacyVars == <<record, journal, lost, past, birth, walk>>

MCInit ==
    /\ focus \in {"subjects", "sources", "priors", "dedup", "commands", "reading"}
    /\ Init
    /\ Privacy!Init

(* Bounds: records are of one type within a behaviour; while a reader      *)
(* walks the list they are of few types, one person writes them and no     *)
(* answer arrives; otherwise there are at most two.  All of them together  *)
(* are changed MaxChanges times.                                           *)
OneType ==
    /\ \A r, q \in Records : record'[r].type \in {Privacy!None, record'[q].type}
                             \/ record'[q].type = Privacy!None
    /\ focus = "reading" =>
         /\ \A r \in Records :
              /\ record'[r].type \in WalkTypes \cup {Privacy!None}
              /\ record'[r].by \in {CHOOSE x \in Staff : TRUE, Privacy!None}
         /\ journal' = journal
    /\ focus = "commands" => \A r \in Records : r > 2 => record'[r] = record[r]
    /\ MapThenSumSet(LAMBDA r : record'[r].version, Records) <= MaxChanges

MCNext ==
    /\ \/ /\ focus \in {"subjects", "sources", "priors", "dedup"}
          /\ \/ CompetitorRequests /\ focus # "priors"
             \/ UnknownRequests /\ focus = "subjects"
             \/ DeduplicationRequests /\ focus = "dedup"
             \/ SourceRequests /\ focus = "sources"
             \/ ProfileRequests /\ focus = "sources"
             \/ PriorRequests /\ focus = "priors"
             \/ Tick
          /\ UNCHANGED privacyVars
       \/ /\ focus \in {"commands", "reading"}
          /\ \/ Privacy!CommandRequests
             \/ /\ focus = "reading"
                /\ \/ \E t \in WalkTypes, f \in Privacy!MarketResourceState \cup {Privacy!None} :
                        Privacy!list_first(t, f)
                   \/ Privacy!list_next
             \/ Privacy!Tick /\ focus = "reading"
          /\ OneType
          /\ UNCHANGED marketVars
    /\ UNCHANGED focus

MCSpec == MCInit /\ [][MCNext]_<<focus, marketVars, privacyVars>>

MCSymmetry == Permutations(Sources)

-----------------------------------------------------------------------------
(* The properties of the privacy records, stated in their module.          *)

(* What stands was checked by another, no step of a path is skipped, every *)
(* change has one answer, and a walk returns each record once.             *)
PrivacyInv == Privacy!PrivacyInv

=============================================================================
