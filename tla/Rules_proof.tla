---------------------------- MODULE Rules_proof -----------------------------
(***************************************************************************)
(* What the rules area promises, for any number of resources, clauses,     *)
(* people, threads and overlapping calls.                                  *)
(*                                                                         *)
(* RulePublication: nobody publishes what they wrote, a published group    *)
(* stays available, and without overlaps the unit's pointers name the one  *)
(* CURRENT resource of their group.                                        *)
(*                                                                         *)
(* RuleClauses: every copy of a published clause that a call holds says    *)
(* what the stored clause says, and the clause a call is about to give a   *)
(* successor was stale when it was listed. So two calls may supersede one  *)
(* clause, but none writes a superseded one back, and a resolution, made   *)
(* from one reading of the store, has one value.                           *)
(*                                                                         *)
(* DecisionUnitLifecycle: the last event explains the state as long as     *)
(* the one thread that has read the unit is alone; what the unit went      *)
(* through follows from the transition table, in which approval is the     *)
(* only gate before submission.                                            *)
(***************************************************************************)
EXTENDS MCRules, FiniteSetTheorems, WellFoundedInduction, TLAPS

-----------------------------------------------------------------------------
(* The inductive invariant.                                                *)

RuleKinds == {"project_rules", "unit_rules"}

(* The publication of a resource has begun to change the store. *)
Publishing(r) == call[r].at \in {"stale", "store", "unit", "pointer"}

(* A unit's pointers fit, and the rule set it points to is published. *)
PointsToPublished(u) ==
    /\ \A p \in {"scope", "regime", "rules"} :
         u.at[p] # None => PointerOf(u.at[p]) = p
    /\ u.at["rules"] # None => /\ Kind[u.at["rules"]] \in RuleKinds
                               /\ item[u.at["rules"]].state = "PUBLISHED"

(* What a call knows about the copies it holds, whatever others do. *)
CallInv(r) ==
    LET c == call[r] IN
    /\ c.at \in {"edit", "list"} \/ Publishing(r) => c.item \in Items
    /\ c.at \in {"edit", "list", "stale", "store"} =>
         /\ c.by \in Users
         /\ c.copy.state = "DRAFT"
         /\ c.copy.confirmed_by = None
    /\ c.at = "edit" => Kind[c.item] = "scope"
    /\ c.at \in {"list", "stale", "store"} => c.copy.created_by # c.by
    /\ c.at = "stale" => \A j \in c.todo :
         /\ Kind[j] = Kind[c.item]
         /\ c.listed[j].state = "PUBLISHED"
         /\ c.listed[j].confirmed_by \notin {None, c.listed[j].created_by}
    /\ c.at \in {"unit", "pointer"} /\ Kind[c.item] # "scope" =>
         item[c.item].state = "PUBLISHED"
    /\ c.at = "pointer" => PointsToPublished(c.unit)
    /\ c.at \in {"confirm", "command"} => c.command \in INTAKE_COMMANDS

(* A published group has a CURRENT resource, or a call that is about to    *)
(* store one.                                                              *)
Available ==
    \A k \in Kinds \ {"scope"} :
        (\E i \in Items : Kind[i] = k /\ item[i].state = "PUBLISHED") =>
            \/ Current(k) # {}
            \/ \E r \in Requests : /\ call[r].at \in {"stale", "store"}
                                   /\ Kind[call[r].item] = k

(* What the call in flight relies on as long as no two have overlapped. *)
Alone(r) ==
    LET c == call[r] IN
    /\ c.at \in {"edit", "list", "stale", "store"} => item[c.item].state = "DRAFT"
    /\ c.at = "stale" => Current(Kind[c.item]) = c.todo
    /\ c.at = "store" => Current(Kind[c.item]) = {}
    /\ c.at \in {"unit", "pointer"} => c.item \in Current(Kind[c.item])
    /\ c.at = "pointer" => c.unit = unit

OneCall ==
    \A r \in Requests : InFlight(r) =>
        Alone(r) /\ \A s \in Requests : InFlight(s) => s = r

OnePerKind == \A k \in Kinds : \A i, j \in Current(k) : i = j

(* A pointer that no publication is about to move names a CURRENT one. *)
PointersHold ==
    \A p \in {"scope", "regime", "rules"} :
        \/ \E r \in Requests : Publishing(r) /\ PointerOf(call[r].item) = p
        \/ unit.at[p] = None
        \/ \E k \in Kinds : unit.at[p] \in Current(k)

RulesArePointedTo ==
    \A k \in RuleKinds : Current(k) # {} =>
        \/ unit.at["rules"] # None
        \/ \E r \in Requests : /\ call[r].at \in {"unit", "pointer"}
                               /\ Kind[call[r].item] \in RuleKinds

Sequential ==
    ~crossed => OneCall /\ OnePerKind /\ PointersHold /\ RulesArePointedTo

PublicationIndInv ==
    /\ TypeOK
    /\ PublisherIsNotAuthor
    /\ \A r \in Requests : CallInv(r)
    /\ PointsToPublished(unit)
    /\ Available
    /\ Sequential

-----------------------------------------------------------------------------
(* Facts about the operators. *)

(* A set of naturals that is not empty has a least element. *)
LEMMA LeastElement ==
    ASSUME NEW S, S \subseteq Nat, S # {}
    PROVE  \E m \in S : \A n \in S : m <= n
<1> DEFINE Less == {ss \in Nat \X Nat : ss[1] < ss[2]}
<1>1. IsWellFoundedOn(Less, Nat)
  BY NatLessThanWellFounded DEF OpToRel
<1>2. PICK m \in S : \A n \in S : ~(<<n, m>> \in Less)
  BY <1>1, WFMin, Zenon
<1>3. \A n \in S : ~(n < m)
  BY <1>2
<1> QED
  BY <1>3

(* Nor is a bounded one without a greatest. *)
LEMMA GreatestElement ==
    ASSUME NEW b \in Nat, NEW S, S \subseteq 0..b, S # {}
    PROVE  \E m \in S : \A n \in S : n <= m
<1> DEFINE T == {b - n : n \in S}
<1>1. \A n \in S : b - n \in Nat
  OBVIOUS
<1>2. T \subseteq Nat /\ T # {}
  BY <1>1
<1>3. PICK t \in T : \A n \in T : t <= n
  BY <1>2, LeastElement
<1>4. PICK m \in S : t = b - m
  OBVIOUS
<1>5. \A n \in S : b - m <= b - n
  BY <1>3, <1>4
<1> QED
  BY <1>5

(* The resources are numbered from 1, and None is none of them. *)
LEMMA ItemsFacts ==
    /\ Len(Kind) \in Nat
    /\ Items = 1..Len(Kind)
    /\ Items \subseteq Nat \ {0}
    /\ None \notin Items
    /\ \A i \in Items : Kind[i] \in Kinds
BY PublicationAssumption DEF Items

(* The commands of the rules services are states of the unit. *)
LEMMA CommandsAreStates ==
    /\ "DRAFT" \in DecisionUnitLifecycleState
    /\ INTAKE_COMMANDS \subseteq DecisionUnitLifecycleState
<1>1. {"DRAFT", "MULTI_ROUND_UNSUPPORTED", "PORTFOLIO_REVIEW_REQUIRED",
       "REGIME_AND_SCOPE_PENDING"} \subseteq DOMAIN BRANCHES
  BY DEF BRANCHES
<1>2. "RULES_PENDING_CONFIRMATION" \in BRANCHES["REGIME_AND_SCOPE_PENDING"]
  BY DEF BRANCHES
<1>3. DOMAIN BRANCHES \subseteq DecisionUnitLifecycleState
  BY DEF DecisionUnitLifecycleState
<1>4. \A s \in DOMAIN BRANCHES : BRANCHES[s] \subseteq DecisionUnitLifecycleState
  BY DEF DecisionUnitLifecycleState
<1> QED
  BY <1>1, <1>2, <1>3, <1>4 DEF INTAKE_COMMANDS

(* The constant records have their types. *)
LEMMA ConstantTypes == NoItem \in Item /\ NoUnit \in Unit /\ NoCall \in Call
<1>1. NoItem \in Item
  BY DEF NoItem, Item, Verdicts
<1>2. NoUnit \in Unit
  BY CommandsAreStates DEF NoUnit, Unit
<1>3. NoCall \in Call
  BY <1>1, <1>2 DEF NoCall, Call, Points, Verdicts
<1> QED
  BY <1>1, <1>2, <1>3

(* The group of a publication is of one kind. *)
LEMMA GroupIsKind ==
    ASSUME NEW i \in Items, NEW j \in Items, SameGroup(i, j)
    PROVE  Kind[j] = Kind[i]
BY DEF SameGroup, SameScope, SameRegime, SameRuleSetLevel

(* Another DRAFT or CURRENT resource of its kind is in its group. *)
LEMMA KindIsGroup ==
    ASSUME NEW i \in Items, NEW j \in Items, Kind[j] = Kind[i], i # j
    PROVE  SameGroup(i, j)
BY ItemsFacts DEF SameGroup, SameScope, SameRegime, SameRuleSetLevel, Kinds

(* The initial states satisfy the invariant. *)
LEMMA InitInv == Init => PublicationIndInv
<1> SUFFICES ASSUME Init PROVE PublicationIndInv
  OBVIOUS
<1>1. TypeOK
  BY ConstantTypes DEF Init, TypeOK
<1>2. \A i \in Items : item[i].state = "ABSENT" /\ item[i].confirmed_by = None
  BY DEF Init, NoItem
<1>3. \A r \in Requests : call[r].at = "new"
  BY DEF Init, NoCall
<1>4. \A p \in {"scope", "regime", "rules"} : unit.at[p] = None
  BY DEF Init, NoUnit
<1>5. \A k : Current(k) = {}
  BY <1>2 DEF Current
<1>6. PublisherIsNotAuthor /\ Available
  BY <1>2 DEF PublisherIsNotAuthor, Available
<1>7. \A r \in Requests : CallInv(r)
  BY <1>3 DEF CallInv, Publishing
<1>8. PointsToPublished(unit)
  BY <1>4 DEF PointsToPublished
<1>9. Sequential
  BY <1>3, <1>4, <1>5
     DEF Sequential, OneCall, OnePerKind, PointersHold, RulesArePointedTo, InFlight
<1> QED
  BY <1>1, <1>6, <1>7, <1>8, <1>9 DEF PublicationIndInv

-----------------------------------------------------------------------------
(* What the calls that do not move know stays true while published rule    *)
(* sets and regimes stay published.                                        *)
LEMMA OthersKnow ==
    ASSUME TypeOK, NEW s \in Requests, CallInv(s), call'[s] = call[s],
           \A i \in Items : Kind[i] # "scope" /\ item[i].state = "PUBLISHED" =>
              item'[i].state = "PUBLISHED"
    PROVE  CallInv(s)'
<1>1. call[s] \in Call /\ call[s].unit \in Unit
  BY DEF TypeOK, Call
<1>2. call[s].unit.at["rules"] \in Items \cup {None}
  BY <1>1 DEF Unit
<1>3. PointsToPublished(call[s].unit) =>
        (call[s].unit.at["rules"] # None =>
           /\ Kind[call[s].unit.at["rules"]] \in RuleKinds
           /\ item'[call[s].unit.at["rules"]].state = "PUBLISHED")
  BY <1>2 DEF PointsToPublished, RuleKinds
<1> QED
  BY <1>3 DEF CallInv, Publishing, PointsToPublished

(* The unit's pointer, likewise. *)
LEMMA UnitKnows ==
    ASSUME TypeOK, NEW u \in Unit, PointsToPublished(u),
           \A i \in Items : Kind[i] # "scope" /\ item[i].state = "PUBLISHED" =>
              item'[i].state = "PUBLISHED"
    PROVE  /\ \A p \in {"scope", "regime", "rules"} :
                u.at[p] # None => PointerOf(u.at[p]) = p
           /\ u.at["rules"] # None => /\ Kind[u.at["rules"]] \in RuleKinds
                                      /\ item'[u.at["rules"]].state = "PUBLISHED"
<1>1. u.at["rules"] \in Items \cup {None}
  BY DEF Unit
<1> QED
  BY <1>1 DEF PointsToPublished, RuleKinds

(* A handler reads what it will work on. *)
LEMMA StartInv ==
    ASSUME PublicationIndInv, NEW r \in Requests, NEW begun \in Call, Start(r, begun),
           begun.at \in {"edit", "list", "confirm"},
           begun.at \in {"edit", "list"} =>
              /\ begun.item \in Items /\ begun.by \in Users
              /\ item[begun.item].state = "DRAFT" /\ begun.copy = item[begun.item],
           begun.at = "edit" => Kind[begun.item] = "scope",
           begun.at = "list" => item[begun.item].created_by # begun.by,
           begun.at = "confirm" => begun.command \in INTAKE_COMMANDS
    PROVE  PublicationIndInv'
<1> USE DEF PublicationIndInv
<1>1. /\ call[r].at = "new" /\ call'[r] = begun
      /\ \A s \in Requests : s # r => call'[s] = call[s]
      /\ item' = item /\ unit' = unit /\ constraint' = constraint
      /\ call' \in [Requests -> Call]
  BY DEF Start, TypeOK
<1>2. crossed' = (crossed \/ ~Quiescent)
  BY DEF Start
<1>3. TypeOK'
  BY <1>1, <1>2 DEF TypeOK
<1>4. PublisherIsNotAuthor' /\ PointsToPublished(unit)'
  BY <1>1 DEF PublisherIsNotAuthor, PointsToPublished
<1>5. CallInv(r)'
  <2>1. begun.at \in {"edit", "list"} => begun.copy.confirmed_by = None
    BY DEF PublisherIsNotAuthor
  <2> QED
    BY <1>1, <2>1 DEF CallInv, Publishing
<1>6. \A s \in Requests : CallInv(s)'
  BY <1>1, <1>5, OthersKnow
<1>7. \A k : Current(k)' = Current(k)
  BY <1>1 DEF Current
<1>8. Available'
  BY <1>1, <1>7 DEF Available
<1>9. Sequential'
  <2> SUFFICES ASSUME ~crossed'
               PROVE  OneCall' /\ OnePerKind' /\ PointersHold' /\ RulesArePointedTo'
    BY DEF Sequential
  <2>1. ~crossed /\ \A s \in Requests : ~InFlight(s)
    BY <1>2 DEF Quiescent
  <2>2. \A s \in Requests : InFlight(s)' => s = r
    BY <1>1, <2>1 DEF InFlight
  <2>3. Alone(r)'
    BY <1>1 DEF Alone
  <2>4. OneCall'
    BY <2>2, <2>3 DEF OneCall
  <2>5. OnePerKind' /\ PointersHold' /\ RulesArePointedTo'
    BY <1>1, <1>7, <2>1
       DEF Sequential, OnePerKind, PointersHold, RulesArePointedTo, Publishing, InFlight
  <2> QED
    BY <2>4, <2>5
<1> QED
  BY <1>3, <1>4, <1>6, <1>8, <1>9

(* The three kinds of request. *)
LEMMA StartsInv ==
    ASSUME PublicationIndInv, NEW r \in Requests, NEW u \in Users,
           \/ StartUpdate(r, u)
           \/ \E kinds \in SUBSET Kinds : StartPublish(r, u, kinds)
           \/ StartConfirm(r, u)
    PROVE  PublicationIndInv'
<1>0. TypeOK
  BY DEF PublicationIndInv
<1>1. CASE StartUpdate(r, u)
  <2>1. PICK i \in Items :
          /\ Kind[i] = "scope" /\ item[i].state = "DRAFT"
          /\ Start(r, [NoCall EXCEPT !.at = "edit", !.by = u, !.item = i,
                                     !.copy = item[i]])
    BY <1>1 DEF StartUpdate
  <2> DEFINE c == [NoCall EXCEPT !.at = "edit", !.by = u, !.item = i, !.copy = item[i]]
  <2>2. c \in Call /\ c.at = "edit" /\ c.item = i /\ c.by = u /\ c.copy = item[i]
    BY <1>0, ConstantTypes DEF TypeOK, Call, Points
  <2> HIDE DEF c
  <2>3. Start(r, c)
    BY <2>1 DEF c
  <2> QED
    BY <2>1, <2>2, <2>3, StartInv
<1>2. CASE \E kinds \in SUBSET Kinds : StartPublish(r, u, kinds)
  <2>1. PICK i \in Items :
          /\ item[i].state = "DRAFT" /\ u # item[i].created_by
          /\ Start(r, [NoCall EXCEPT !.at = "list", !.by = u, !.item = i,
                                     !.copy = item[i]])
    BY <1>2 DEF StartPublish
  <2> DEFINE c == [NoCall EXCEPT !.at = "list", !.by = u, !.item = i, !.copy = item[i]]
  <2>2. c \in Call /\ c.at = "list" /\ c.item = i /\ c.by = u /\ c.copy = item[i]
    BY <1>0, ConstantTypes DEF TypeOK, Call, Points
  <2> HIDE DEF c
  <2>3. Start(r, c)
    BY <2>1 DEF c
  <2> QED
    BY <2>1, <2>2, <2>3, StartInv
<1>3. CASE StartConfirm(r, u)
  <2> DEFINE c == [NoCall EXCEPT !.at = "confirm", !.by = u,
                                 !.command = "PORTFOLIO_REVIEW_REQUIRED"]
  <2>1. c \in Call /\ c.at = "confirm" /\ c.command \in INTAKE_COMMANDS
    BY ConstantTypes DEF Call, Points, Verdicts, INTAKE_COMMANDS
  <2>2. Start(r, c)
    BY <1>3 DEF StartConfirm
  <2> HIDE DEF c
  <2> QED
    BY <2>1, <2>2, StartInv
<1> QED
  BY <1>1, <1>2, <1>3

(* A new DRAFT is nobody's copy and no CURRENT resource. *)
LEMMA CreateInv ==
    ASSUME PublicationIndInv, NEW u \in Users, create(u) PROVE PublicationIndInv'
<1> USE DEF PublicationIndInv
<1>1. PICK i \in Items, d \in ScopeDrafts(u) \cup RegimeDrafts(u) \cup RuleSetDrafts(u) :
        /\ item[i].state = "ABSENT"
        /\ item' = [item EXCEPT ![i] = d[2]]
        /\ UNCHANGED <<unit, constraint, call, crossed>>
  BY DEF create
<1>2. d[2] \in Item /\ d[2].state = "DRAFT" /\ d[2].confirmed_by = None
  <2>1. NewDraft(u) \in Item /\ NewDraft(u).state = "DRAFT"
        /\ NewDraft(u).confirmed_by = None
    BY ConstantTypes DEF NewDraft, NoItem, Item
  <2>2. CASE d \in ScopeDrafts(u)
    BY <2>1, <2>2 DEF ScopeDrafts, Item
  <2>3. CASE d \in RegimeDrafts(u) \cup RuleSetDrafts(u)
    BY <2>1, <2>3 DEF RegimeDrafts, RuleSetDrafts
  <2> QED
    BY <2>2, <2>3
<1>3. /\ item'[i] = d[2]
      /\ \A j \in Items : j # i => item'[j] = item[j]
      /\ item' \in [Items -> Item]
  BY <1>1, <1>2 DEF TypeOK
<1>4. TypeOK'
  BY <1>1, <1>3 DEF TypeOK
<1>5. PublisherIsNotAuthor'
  BY <1>2, <1>3 DEF PublisherIsNotAuthor
<1>6. \A s \in Requests : CallInv(s)'
  BY <1>1, <1>3, OthersKnow
<1>7. PointsToPublished(unit)'
  BY <1>1, <1>3, UnitKnows DEF PointsToPublished, TypeOK
<1>8. \A k : Current(k)' = Current(k)
  BY <1>1, <1>2, <1>3 DEF Current
<1>9. Available'
  BY <1>1, <1>2, <1>3, <1>8 DEF Available
<1>10. Sequential'
  <2> SUFFICES ASSUME ~crossed
               PROVE  OneCall' /\ OnePerKind' /\ PointersHold' /\ RulesArePointedTo'
    BY <1>1 DEF Sequential
  <2>1. \A s \in Requests : Alone(s) /\ CallInv(s) => Alone(s)'
    BY <1>1, <1>2, <1>3, <1>8 DEF Alone, CallInv
  <2>2. OneCall'
    BY <1>1, <2>1 DEF Sequential, OneCall, InFlight
  <2>3. OnePerKind' /\ PointersHold' /\ RulesArePointedTo'
    BY <1>1, <1>8
       DEF Sequential, OnePerKind, PointersHold, RulesArePointedTo, Publishing
  <2> QED
    BY <2>2, <2>3
<1> QED
  BY <1>4, <1>5, <1>6, <1>7, <1>9, <1>10

(* Other people's commands change the unit's state, not its pointers. *)
LEMMA SurroundingsInv ==
    ASSUME PublicationIndInv, create_constraint \/ Advance PROVE PublicationIndInv'
<1> USE DEF PublicationIndInv
<1>1. /\ item' = item /\ call' = call /\ unit'.at = unit.at /\ TypeOK'
      /\ \/ crossed' = crossed /\ unit' = unit
         \/ crossed' = (crossed \/ ~Quiescent)
  BY PublicationAssumption DEF create_constraint, Advance, TypeOK, Unit
<1>2. \A k : Current(k)' = Current(k)
  BY <1>1 DEF Current
<1>3. PublisherIsNotAuthor' /\ PointsToPublished(unit)' /\ Available'
  BY <1>1, <1>2 DEF PublisherIsNotAuthor, PointsToPublished, Available
<1>4. \A s \in Requests : CallInv(s)'
  BY <1>1, OthersKnow
<1>5. Sequential'
  <2> SUFFICES ASSUME ~crossed'
               PROVE  OneCall' /\ OnePerKind' /\ PointersHold' /\ RulesArePointedTo'
    BY DEF Sequential
  <2>1. ~crossed /\ (unit' = unit \/ \A s \in Requests : ~InFlight(s))
    <3>1. CASE crossed' = crossed /\ unit' = unit
      BY <3>1
    <3>2. CASE crossed' = (crossed \/ ~Quiescent)
      BY <3>2 DEF Quiescent
    <3> QED
      BY <1>1, <3>1, <3>2
  <2>2. OneCall'
    BY <1>1, <1>2, <2>1 DEF Sequential, OneCall, Alone, InFlight
  <2>3. OnePerKind' /\ PointersHold' /\ RulesArePointedTo'
    BY <1>1, <1>2, <2>1
       DEF Sequential, OnePerKind, PointersHold, RulesArePointedTo, Publishing
  <2> QED
    BY <2>2, <2>3
<1> QED
  BY <1>1, <1>3, <1>4, <1>5

-----------------------------------------------------------------------------
(* A call that ends keeps nothing, one that goes on keeps its locals. *)
LEMMA GotoFacts ==
    ASSUME TypeOK, NEW r \in Requests, NEW point \in Points, Goto(r, point)
    PROVE  /\ call' \in [Requests -> Call]
           /\ \A s \in Requests : s # r => call'[s] = call[s]
           /\ call'[r].at = point
           /\ point \notin {"returned", "raised"} =>
                /\ call'[r].by = call[r].by /\ call'[r].item = call[r].item
                /\ call'[r].copy = call[r].copy /\ call'[r].todo = call[r].todo
                /\ call'[r].listed = call[r].listed /\ call'[r].unit = call[r].unit
                /\ call'[r].command = call[r].command
<1>1. call[r] \in Call /\ NoCall \in Call
  BY ConstantTypes DEF TypeOK
<1>2. CASE point \in {"returned", "raised"}
  <2>1. call' = [call EXCEPT ![r] = [NoCall EXCEPT !.at = point]]
    BY <1>2 DEF Goto
  <2>2. [NoCall EXCEPT !.at = point] \in Call /\ [NoCall EXCEPT !.at = point].at = point
    BY <1>1 DEF Call
  <2> QED
    BY <1>2, <2>1, <2>2 DEF TypeOK
<1>3. CASE point \notin {"returned", "raised"}
  <2>1. call' = [call EXCEPT ![r] = [call[r] EXCEPT !.at = point]]
    BY <1>3 DEF Goto
  <2>2. [call[r] EXCEPT !.at = point] \in Call
    BY <1>1 DEF Call
  <2> QED
    BY <1>1, <2>1, <2>2 DEF TypeOK, Call
<1> QED
  BY <1>2, <1>3

(* update_draft writes a scope's DRAFT back, possibly over one that was    *)
(* published meanwhile: it is nobody's publication any more.               *)
LEMMA UpdateInv ==
    ASSUME PublicationIndInv, NEW r \in Requests, update_draft(r)
    PROVE  PublicationIndInv'
<1> USE DEF PublicationIndInv
<1> DEFINE i == call[r].item
<1>1. /\ call[r].at = "edit" /\ i \in Items /\ Kind[i] = "scope"
      /\ call[r].by \in Users
      /\ call[r].copy \in Item
      /\ call[r].copy.state = "DRAFT" /\ call[r].copy.confirmed_by = None
  BY DEF update_draft, CallInv, TypeOK, Call
<1>2. PICK v \in Verdicts : item' = [item EXCEPT ![i] =
        [call[r].copy EXCEPT !.created_by = call[r].by, !.verdict = v]]
  BY DEF update_draft
<1>3. /\ item' \in [Items -> Item]
      /\ item'[i].state = "DRAFT" /\ item'[i].confirmed_by = None
      /\ \A j \in Items : j # i => item'[j] = item[j]
  <2>1. [call[r].copy EXCEPT !.created_by = call[r].by, !.verdict = v] \in Item
    BY <1>1 DEF Item
  <2> QED
    BY <1>1, <1>2, <2>1 DEF TypeOK, Item
<1>4. /\ call' \in [Requests -> Call] /\ call'[r].at = "returned"
      /\ \A s \in Requests : s # r => call'[s] = call[s]
      /\ unit' = unit /\ constraint' = constraint /\ crossed' = crossed
  BY GotoFacts DEF update_draft, Points
<1> HIDE DEF i
<1>5. TypeOK'
  BY <1>3, <1>4 DEF TypeOK
<1>6. PublisherIsNotAuthor'
  BY <1>3 DEF PublisherIsNotAuthor
<1>7. \A s \in Requests : CallInv(s)'
  <2>1. CallInv(r)'
    BY <1>4 DEF CallInv, Publishing
  <2> QED
    BY <1>1, <1>3, <1>4, <2>1, OthersKnow
<1>8. PointsToPublished(unit)'
  BY <1>1, <1>3, <1>4, UnitKnows DEF PointsToPublished, TypeOK
<1>9. \A k \in Kinds \ {"scope"} : Current(k)' = Current(k)
  BY <1>1, <1>3 DEF Current
<1>10. Available'
  BY <1>1, <1>3, <1>4, <1>9 DEF Available
<1>11. Sequential'
  <2> SUFFICES ASSUME ~crossed
               PROVE  OneCall' /\ OnePerKind' /\ PointersHold' /\ RulesArePointedTo'
    BY <1>4 DEF Sequential
  <2>1. InFlight(r)
    BY <1>1 DEF InFlight
  <2>2. item[i].state = "DRAFT" /\ \A s \in Requests : InFlight(s) => s = r
    BY <1>1, <2>1 DEF Sequential, OneCall, Alone, i
  <2>3. \A k : Current(k)' = Current(k)
    BY <1>3, <2>2 DEF Current
  <2>4. OneCall'
    BY <1>4, <2>2 DEF OneCall, InFlight
  <2>5. OnePerKind' /\ PointersHold' /\ RulesArePointedTo'
    BY <1>1, <1>4, <2>3
       DEF Sequential, OnePerKind, PointersHold, RulesArePointedTo, Publishing
  <2> QED
    BY <2>4, <2>5
<1> QED
  BY <1>5, <1>6, <1>7, <1>8, <1>10, <1>11

(* publish lists the CURRENT resources of its group. *)
LEMMA ListInv ==
    ASSUME PublicationIndInv, NEW r \in Requests, ListCurrent(r)
    PROVE  PublicationIndInv'
<1> USE DEF PublicationIndInv
<1> DEFINE i == call[r].item
           found == {j \in Items : /\ SameGroup(i, j)
                                   /\ item[j].state = "PUBLISHED"
                                   /\ item[j].validity = "CURRENT"}
           lst == [j \in Items |-> IF j \in found THEN item[j] ELSE NoItem]
<1>1. /\ call[r].at = "list" /\ i \in Items /\ call[r] \in Call
      /\ call[r].by \in Users /\ call[r].copy.state = "DRAFT"
      /\ call[r].copy.confirmed_by = None /\ call[r].copy.created_by # call[r].by
  BY DEF ListCurrent, CallInv, TypeOK
<1>2. lst \in [Items -> Item] /\ \A j \in found : lst[j] = item[j]
  BY ConstantTypes DEF TypeOK
<1>3. found \in SUBSET Items /\ \A j \in found : Kind[j] = Kind[i]
  BY <1>1, GroupIsKind
<1>4. \A j \in Current(Kind[i]) : j \in found \/ j = i
  BY <1>1, KindIsGroup DEF Current
<1>5. \A j \in found : /\ item[j].state = "PUBLISHED"
                        /\ item[j].confirmed_by \notin {None, item[j].created_by}
  BY DEF PublisherIsNotAuthor
<1>6. /\ call' = [call EXCEPT ![r] = [call[r] EXCEPT !.at = "stale", !.todo = found,
                                                     !.listed = lst]]
      /\ UNCHANGED <<item, unit, constraint, crossed>>
  BY DEF ListCurrent
<1> HIDE DEF found, lst
<1>7. /\ call'[r].at = "stale" /\ call'[r].todo = found /\ call'[r].listed = lst
      /\ call'[r].item = i /\ call'[r].by = call[r].by /\ call'[r].copy = call[r].copy
      /\ \A s \in Requests : s # r => call'[s] = call[s]
      /\ call' \in [Requests -> Call]
  <2>1. [call[r] EXCEPT !.at = "stale", !.todo = found, !.listed = lst] \in Call
    BY <1>1, <1>2, <1>3 DEF Call, Points
  <2> QED
    BY <1>1, <1>6, <2>1 DEF TypeOK, Call
<1> HIDE DEF i
<1>8. TypeOK'
  BY <1>6, <1>7 DEF TypeOK
<1>9. PublisherIsNotAuthor' /\ PointsToPublished(unit)'
  BY <1>6 DEF PublisherIsNotAuthor, PointsToPublished
<1>10. CallInv(r)'
  BY <1>1, <1>2, <1>3, <1>5, <1>7 DEF CallInv, Publishing
<1>11. \A s \in Requests : CallInv(s)'
  BY <1>6, <1>7, <1>10, OthersKnow
<1>12. \A k : Current(k)' = Current(k)
  BY <1>6 DEF Current
<1>13. Available'
  BY <1>1, <1>6, <1>7, <1>12 DEF Available
<1>14. Sequential'
  <2> SUFFICES ASSUME ~crossed
               PROVE  OneCall' /\ OnePerKind' /\ PointersHold' /\ RulesArePointedTo'
    BY <1>6 DEF Sequential
  <2>1. InFlight(r)
    BY <1>1 DEF InFlight
  <2>2. item[i].state = "DRAFT" /\ \A s \in Requests : InFlight(s) => s = r
    BY <1>1, <2>1 DEF Sequential, OneCall, Alone, i
  <2>3. i \notin Current(Kind[i]) /\ found \subseteq Current(Kind[i])
    BY <1>3, <2>2 DEF Current, found
  <2>4. Alone(r)'
    BY <1>4, <1>6, <1>7, <1>12, <2>2, <2>3 DEF Alone
  <2>5. OneCall'
    BY <1>7, <2>1, <2>2, <2>4 DEF OneCall, InFlight
  <2>6. OnePerKind' /\ PointersHold' /\ RulesArePointedTo'
    BY <1>1, <1>6, <1>7, <1>12
       DEF Sequential, OnePerKind, PointersHold, RulesArePointedTo, Publishing
  <2> QED
    BY <2>5, <2>6
<1> QED
  BY <1>8, <1>9, <1>11, <1>13, <1>14

(* publish marks one listed resource STALE, or has none left to mark. *)
LEMMA StaleInv ==
    ASSUME PublicationIndInv, NEW r \in Requests, StaleOne(r)
    PROVE  PublicationIndInv'
<1> USE DEF PublicationIndInv
<1>0. PICK i \in Items : call[r].item = i
  BY DEF StaleOne, CallInv, Publishing
<1>1. /\ call[r].at = "stale" /\ call[r] \in Call
      /\ call[r].todo \subseteq Items /\ call[r].listed \in [Items -> Item]
      /\ CallInv(r) /\ InFlight(r)
  BY DEF StaleOne, CallInv, TypeOK, Call, Publishing, InFlight
<1>2. UNCHANGED <<unit, constraint, crossed>>
  BY DEF StaleOne
<1>3. CASE call[r].todo = {}
  <2>1. Goto(r, "store") /\ item' = item
    BY <1>3 DEF StaleOne
  <2>2. /\ call' \in [Requests -> Call] /\ call'[r].at = "store"
        /\ \A s \in Requests : s # r => call'[s] = call[s]
        /\ call'[r].by = call[r].by /\ call'[r].item = call[r].item
        /\ call'[r].copy = call[r].copy
    BY <2>1, GotoFacts DEF Points
  <2>3. TypeOK' /\ PublisherIsNotAuthor' /\ PointsToPublished(unit)'
    BY <1>2, <2>1, <2>2 DEF TypeOK, PublisherIsNotAuthor, PointsToPublished
  <2>4. CallInv(r)'
    BY <1>1, <2>2 DEF CallInv, Publishing
  <2>5. \A s \in Requests : CallInv(s)'
    BY <2>1, <2>2, <2>4, OthersKnow
  <2>6. \A k : Current(k)' = Current(k)
    BY <2>1 DEF Current
  <2>7. Available'
    BY <1>1, <2>1, <2>2, <2>6 DEF Available
  <2>8. Sequential'
    <3> SUFFICES ASSUME ~crossed
                 PROVE  OneCall' /\ OnePerKind' /\ PointersHold' /\ RulesArePointedTo'
      BY <1>2 DEF Sequential
    <3>1. Alone(r) /\ \A s \in Requests : InFlight(s) => s = r
      BY <1>1 DEF Sequential, OneCall
    <3>2. Alone(r)'
      BY <1>1, <1>2, <1>3, <2>1, <2>2, <2>6, <3>1 DEF Alone
    <3>3. OneCall'
      BY <2>2, <3>1, <3>2 DEF OneCall, InFlight
    <3>4. OnePerKind' /\ PointersHold' /\ RulesArePointedTo'
      BY <1>1, <1>2, <2>2, <2>6
         DEF Sequential, OnePerKind, PointersHold, RulesArePointedTo, Publishing
    <3> QED
      BY <3>3, <3>4
  <2> QED
    BY <2>3, <2>5, <2>7, <2>8
<1>4. CASE call[r].todo # {}
  <2>1. PICK j \in call[r].todo :
          j = CHOOSE q \in call[r].todo : \A k \in call[r].todo : q <= k
    BY <1>1, <1>4, LeastElement, ItemsFacts
  <2> DEFINE old == call[r].listed[j]
  <2>2. /\ item' = [item EXCEPT ![j] = [old EXCEPT !.validity = "STALE"]]
        /\ call' = [call EXCEPT ![r].todo = @ \ {j}, ![r].listed[j] = NoItem]
    BY <1>4, <2>1 DEF StaleOne
  <2>3. /\ old \in Item /\ Kind[j] = Kind[i] /\ old.state = "PUBLISHED"
        /\ old.confirmed_by \notin {None, old.created_by}
    BY <1>0, <1>1, <2>1 DEF CallInv
  <2> HIDE DEF old
  <2>4. /\ item' \in [Items -> Item]
        /\ item'[j].state = "PUBLISHED" /\ item'[j].validity = "STALE"
        /\ item'[j].confirmed_by \notin {None, item'[j].created_by}
        /\ \A k \in Items : k # j => item'[k] = item[k]
    <3>1. [old EXCEPT !.validity = "STALE"] \in Item
      BY <2>3 DEF Item
    <3> QED
      BY <1>1, <2>1, <2>2, <2>3, <3>1 DEF TypeOK, Item
  <2>5. /\ call' \in [Requests -> Call]
        /\ \A s \in Requests : s # r => call'[s] = call[s]
        /\ call'[r].at = "stale" /\ call'[r].item = i /\ call'[r].by = call[r].by
        /\ call'[r].copy = call[r].copy /\ call'[r].todo = call[r].todo \ {j}
        /\ \A k \in Items : k # j => call'[r].listed[k] = call[r].listed[k]
    <3>1. call' = [call EXCEPT ![r] = [call[r] EXCEPT !.todo = call[r].todo \ {j},
                     !.listed = [call[r].listed EXCEPT ![j] = NoItem]]]
      BY <2>2
    <3>2. [call[r].listed EXCEPT ![j] = NoItem] \in [Items -> Item]
      BY <1>1, <2>1, ConstantTypes
    <3>3. [call[r] EXCEPT !.todo = call[r].todo \ {j},
              !.listed = [call[r].listed EXCEPT ![j] = NoItem]] \in Call
      BY <1>1, <3>2 DEF Call
    <3> QED
      BY <1>0, <1>1, <3>1, <3>3 DEF TypeOK, Call
  <2>6. TypeOK' /\ PublisherIsNotAuthor'
    BY <1>2, <2>4, <2>5 DEF TypeOK, PublisherIsNotAuthor
  <2>7. CallInv(r)'
    BY <1>0, <1>1, <2>5 DEF CallInv, Publishing
  <2>8. \A s \in Requests : CallInv(s)'
    BY <2>4, <2>5, <2>7, OthersKnow
  <2>9. PointsToPublished(unit)'
    BY <1>2, <2>4, UnitKnows DEF PointsToPublished, TypeOK
  <2>10. /\ \A k : k # Kind[i] => Current(k)' = Current(k)
         /\ Current(Kind[i])' = Current(Kind[i]) \ {j}
    BY <1>1, <2>1, <2>3, <2>4 DEF Current
  <2>11. Available'
    <3> SUFFICES ASSUME NEW k \in Kinds \ {"scope"}, k # Kind[i],
                        \E q \in Items : Kind[q] = k /\ item'[q].state = "PUBLISHED"
                 PROVE  \/ Current(k)' # {}
                        \/ \E s \in Requests : /\ call'[s].at \in {"stale", "store"}
                                               /\ Kind[call'[s].item] = k
      BY <2>5 DEF Available
    <3>1. \E q \in Items : Kind[q] = k /\ item[q].state = "PUBLISHED"
      BY <1>1, <2>3, <2>4
    <3>2. \/ Current(k) # {}
          \/ \E s \in Requests : /\ call[s].at \in {"stale", "store"}
                                 /\ Kind[call[s].item] = k
      BY <3>1 DEF Available
    <3> QED
      BY <1>0, <2>5, <2>10, <3>2
  <2>12. Sequential'
    <3> SUFFICES ASSUME ~crossed
                 PROVE  OneCall' /\ OnePerKind' /\ PointersHold' /\ RulesArePointedTo'
      BY <1>2 DEF Sequential
    <3>1. Alone(r) /\ \A s \in Requests : InFlight(s) => s = r
      BY <1>1 DEF Sequential, OneCall
    <3>2. item[i].state = "DRAFT" /\ Current(Kind[i]) = call[r].todo
      BY <1>0, <1>1, <3>1 DEF Alone
    <3>3. Alone(r)'
      <4>1. j # i
        BY <2>1, <3>2 DEF Current
      <4> QED
        BY <1>1, <2>4, <2>5, <2>10, <3>2, <4>1 DEF Alone
    <3>4. OneCall'
      BY <2>5, <3>1, <3>3 DEF OneCall, InFlight
    <3>5. OnePerKind'
      BY <1>1, <2>10, ItemsFacts DEF Sequential, OnePerKind
    <3>6. PointersHold'
      <4> SUFFICES ASSUME NEW p \in {"scope", "regime", "rules"},
                          p # PointerOf(i), unit.at[p] # None
                   PROVE  \E k \in Kinds : unit.at[p] \in Current(k)'
        BY <1>2, <2>5 DEF PointersHold, Publishing
      <4>1. \A s \in Requests : Publishing(s) => call[s].item = i
        BY <1>0, <3>1 DEF Publishing, InFlight
      <4>2. PICK k \in Kinds : unit.at[p] \in Current(k)
        BY <4>1 DEF Sequential, PointersHold
      <4>3. PointerOf(unit.at[p]) = p /\ PointerOf(j) = PointerOf(i)
        BY <2>3 DEF PointsToPublished, PointerOf
      <4> QED
        BY <2>10, <4>2, <4>3
    <3>7. RulesArePointedTo'
      BY <1>1, <1>2, <2>5, <2>10 DEF Sequential, RulesArePointedTo
    <3> QED
      BY <3>4, <3>5, <3>6, <3>7
  <2> QED
    BY <2>6, <2>8, <2>9, <2>11, <2>12
<1> QED
  BY <1>3, <1>4

(* publish stores its resource: confirmed by someone who did not write it, *)
(* and CURRENT.                                                            *)
LEMMA StoreInv ==
    ASSUME PublicationIndInv, NEW r \in Requests, Store(r)
    PROVE  PublicationIndInv'
<1> USE DEF PublicationIndInv
<1>0. PICK i \in Items : call[r].item = i
  BY DEF Store, CallInv, Publishing
<1>1. /\ call[r].at = "store" /\ call[r] \in Call /\ call[r].copy \in Item
      /\ call[r].by \in Users /\ call[r].copy.created_by # call[r].by
      /\ CallInv(r) /\ InFlight(r)
  BY DEF Store, CallInv, TypeOK, Call, InFlight
<1> DEFINE new == [call[r].copy EXCEPT !.state = "PUBLISHED", !.validity = "CURRENT",
                                       !.confirmed_by = call[r].by]
<1>2. /\ new \in Item /\ new.state = "PUBLISHED" /\ new.validity = "CURRENT"
      /\ new.confirmed_by \notin {None, new.created_by}
  BY <1>1, PublicationAssumption DEF Item
<1>3. item' = [item EXCEPT ![i] = new] /\ UNCHANGED <<unit, constraint, crossed>>
  BY <1>0 DEF Store
<1> HIDE DEF new
<1>4. /\ item' \in [Items -> Item] /\ item'[i] = new
      /\ \A j \in Items : j # i => item'[j] = item[j]
  BY <1>2, <1>3 DEF TypeOK
<1>5. /\ call' \in [Requests -> Call]
      /\ \A s \in Requests : s # r => call'[s] = call[s]
      /\ call'[r].at = "unit" /\ call'[r].item = i
  <2>1. call' = [call EXCEPT ![r] = [call[r] EXCEPT !.at = "unit", !.copy = NoItem,
                                       !.command = call[r].copy.verdict]]
    BY DEF Store
  <2>2. [call[r] EXCEPT !.at = "unit", !.copy = NoItem,
                        !.command = call[r].copy.verdict] \in Call
    BY <1>1, ConstantTypes DEF Call, Points, Item
  <2> QED
    BY <1>0, <1>1, <2>1, <2>2 DEF TypeOK, Call
<1>6. TypeOK' /\ PublisherIsNotAuthor'
  BY <1>2, <1>3, <1>4, <1>5 DEF TypeOK, PublisherIsNotAuthor
<1>7. CallInv(r)'
  BY <1>2, <1>4, <1>5 DEF CallInv, Publishing
<1>8. \A s \in Requests : CallInv(s)'
  BY <1>2, <1>4, <1>5, <1>7, OthersKnow
<1>9. PointsToPublished(unit)'
  BY <1>2, <1>3, <1>4, UnitKnows DEF PointsToPublished, TypeOK
<1>10. /\ \A k : k # Kind[i] => Current(k)' = Current(k)
       /\ Current(Kind[i])' = Current(Kind[i]) \cup {i}
  BY <1>2, <1>4 DEF Current
<1>11. Available'
  <2> SUFFICES ASSUME NEW k \in Kinds \ {"scope"}, k # Kind[i],
                      \E q \in Items : Kind[q] = k /\ item'[q].state = "PUBLISHED"
               PROVE  \/ Current(k)' # {}
                      \/ \E s \in Requests : /\ call'[s].at \in {"stale", "store"}
                                             /\ Kind[call'[s].item] = k
    BY <1>10 DEF Available
  <2>1. \E q \in Items : Kind[q] = k /\ item[q].state = "PUBLISHED"
    BY <1>4
  <2>2. \/ Current(k) # {}
        \/ \E s \in Requests : /\ call[s].at \in {"stale", "store"}
                               /\ Kind[call[s].item] = k
    BY <2>1 DEF Available
  <2> QED
    BY <1>0, <1>5, <1>10, <2>2
<1>12. Sequential'
  <2> SUFFICES ASSUME ~crossed
               PROVE  OneCall' /\ OnePerKind' /\ PointersHold' /\ RulesArePointedTo'
    BY <1>3 DEF Sequential
  <2>1. Alone(r) /\ \A s \in Requests : InFlight(s) => s = r
    BY <1>1 DEF Sequential, OneCall
  <2>2. Current(Kind[i]) = {}
    BY <1>0, <1>1, <2>1 DEF Alone
  <2>3. Alone(r)'
    BY <1>5, <1>10 DEF Alone
  <2>4. OneCall'
    BY <1>5, <2>1, <2>3 DEF OneCall, InFlight
  <2>5. OnePerKind'
    BY <1>10, <2>2, ItemsFacts DEF Sequential, OnePerKind
  <2>6. PointersHold'
    <3> SUFFICES ASSUME NEW p \in {"scope", "regime", "rules"},
                        p # PointerOf(i), unit.at[p] # None
                 PROVE  \E k \in Kinds : unit.at[p] \in Current(k)'
      BY <1>3, <1>5 DEF PointersHold, Publishing
    <3>1. \A s \in Requests : Publishing(s) => call[s].item = i
      BY <1>0, <2>1 DEF Publishing, InFlight
    <3>2. PICK k \in Kinds : unit.at[p] \in Current(k)
      BY <3>1 DEF Sequential, PointersHold
    <3> QED
      BY <1>10, <3>2
  <2>7. RulesArePointedTo'
    <3>1. \A k \in RuleKinds : Current(k) # {} => unit.at["rules"] # None
      BY <1>1, <2>1 DEF Sequential, RulesArePointedTo, InFlight
    <3> QED
      BY <1>3, <1>5, <1>10, <3>1 DEF RulesArePointedTo
  <2> QED
    BY <2>4, <2>5, <2>6, <2>7
<1> QED
  BY <1>6, <1>8, <1>9, <1>11, <1>12

(* The publisher reads the unit ... *)
LEMMA ReadUnitInv ==
    ASSUME PublicationIndInv, NEW r \in Requests, ReadUnit(r)
    PROVE  PublicationIndInv'
<1> USE DEF PublicationIndInv
<1>0. PICK i \in Items : call[r].item = i
  BY DEF ReadUnit, CallInv, Publishing
<1>1. /\ call[r].at = "unit" /\ call[r] \in Call /\ CallInv(r) /\ InFlight(r)
      /\ UNCHANGED <<item, unit, constraint, crossed>>
  BY DEF ReadUnit, TypeOK, InFlight
<1>2. /\ call' \in [Requests -> Call]
      /\ \A s \in Requests : s # r => call'[s] = call[s]
      /\ call'[r].at = "pointer" /\ call'[r].item = i /\ call'[r].unit = unit
  <2>1. call' = [call EXCEPT ![r] = [call[r] EXCEPT !.at = "pointer", !.unit = unit]]
    BY DEF ReadUnit
  <2>2. [call[r] EXCEPT !.at = "pointer", !.unit = unit] \in Call
    BY <1>1 DEF Call, Points, TypeOK
  <2> QED
    BY <1>0, <1>1, <2>1, <2>2 DEF TypeOK, Call
<1>3. TypeOK' /\ PublisherIsNotAuthor' /\ PointsToPublished(unit)'
  BY <1>1, <1>2 DEF TypeOK, PublisherIsNotAuthor, PointsToPublished
<1>4. CallInv(r)'
  BY <1>0, <1>1, <1>2 DEF CallInv, Publishing, PointsToPublished
<1>5. \A s \in Requests : CallInv(s)'
  BY <1>1, <1>2, <1>4, OthersKnow
<1>6. \A k : Current(k)' = Current(k)
  BY <1>1 DEF Current
<1>7. Available'
  BY <1>1, <1>2, <1>6 DEF Available
<1>8. Sequential'
  <2> SUFFICES ASSUME ~crossed
               PROVE  OneCall' /\ OnePerKind' /\ PointersHold' /\ RulesArePointedTo'
    BY <1>1 DEF Sequential
  <2>1. Alone(r) /\ \A s \in Requests : InFlight(s) => s = r
    BY <1>1 DEF Sequential, OneCall
  <2>2. Alone(r)'
    BY <1>0, <1>1, <1>2, <1>6, <2>1 DEF Alone
  <2>3. OneCall'
    BY <1>2, <2>1, <2>2 DEF OneCall, InFlight
  <2>4. OnePerKind' /\ PointersHold' /\ RulesArePointedTo'
    BY <1>0, <1>1, <1>2, <1>6
       DEF Sequential, OnePerKind, PointersHold, RulesArePointedTo, Publishing
  <2> QED
    BY <2>3, <2>4
<1> QED
  BY <1>3, <1>5, <1>7, <1>8

(* ... and writes it back with its pointer moved. *)
LEMMA SavePointerInv ==
    ASSUME PublicationIndInv, NEW r \in Requests, SavePointer(r)
    PROVE  PublicationIndInv'
<1> USE DEF PublicationIndInv
<1>0. PICK i \in Items : call[r].item = i
  BY DEF SavePointer, CallInv, Publishing
<1> DEFINE p == PointerOf(i)
<1>1. /\ call[r].at = "pointer" /\ call[r] \in Call /\ call[r].unit \in Unit
      /\ CallInv(r) /\ InFlight(r)
      /\ UNCHANGED <<item, constraint, crossed>>
  BY DEF SavePointer, TypeOK, InFlight, Call
<1>2. p \in {"scope", "regime", "rules"}
  BY DEF PointerOf
<1>3. unit' = [call[r].unit EXCEPT !.at[p] = i]
  BY <1>0 DEF SavePointer
<1>4. /\ unit' \in Unit /\ unit'.at[p] = i /\ unit'.state = call[r].unit.state
      /\ \A q \in {"scope", "regime", "rules"} : q # p =>
            unit'.at[q] = call[r].unit.at[q]
  BY <1>1, <1>2, <1>3 DEF Unit
<1>5. /\ call' \in [Requests -> Call]
      /\ \A s \in Requests : s # r => call'[s] = call[s]
      /\ call'[r].at \in {"returned", "command"}
      /\ call'[r].at = "command" => call'[r].command \in INTAKE_COMMANDS
  <2>1. CASE call[r].command = None
    BY <2>1, GotoFacts DEF SavePointer, Points
  <2>2. CASE call[r].command # None
    <3> DEFINE c == [NoCall EXCEPT !.at = "command", !.command = call[r].command]
    <3>1. call' = [call EXCEPT ![r] = c]
      BY <2>2 DEF SavePointer
    <3>2. call[r].command \in INTAKE_COMMANDS
      BY <1>1, <2>2 DEF Call, Verdicts
    <3>3. c \in Call /\ c.at = "command" /\ c.command = call[r].command
      BY <3>2, ConstantTypes DEF Call, Points, Verdicts
    <3> HIDE DEF c
    <3> QED
      BY <3>1, <3>2, <3>3 DEF TypeOK
  <2> QED
    BY <2>1, <2>2
<1>6. TypeOK' /\ PublisherIsNotAuthor'
  BY <1>1, <1>4, <1>5 DEF TypeOK, PublisherIsNotAuthor
<1>7. PointsToPublished(unit)'
  <2>1. PointsToPublished(call[r].unit)
    BY <1>1 DEF CallInv
  <2>2. p = "rules" => Kind[i] \in RuleKinds /\ item[i].state = "PUBLISHED"
    BY <1>0, <1>1, ItemsFacts DEF CallInv, PointerOf, RuleKinds, Kinds
  <2> QED
    BY <1>1, <1>2, <1>4, <2>1, <2>2 DEF PointsToPublished
<1>8. CallInv(r)'
  BY <1>5 DEF CallInv, Publishing
<1>9. \A s \in Requests : CallInv(s)'
  BY <1>1, <1>5, <1>8, OthersKnow
<1>10. \A k : Current(k)' = Current(k)
  BY <1>1 DEF Current
<1>11. Available'
  BY <1>1, <1>5, <1>10 DEF Available
<1>12. Sequential'
  <2> SUFFICES ASSUME ~crossed
               PROVE  OneCall' /\ OnePerKind' /\ PointersHold' /\ RulesArePointedTo'
    BY <1>1 DEF Sequential
  <2>1. Alone(r) /\ \A s \in Requests : InFlight(s) => s = r
    BY <1>1 DEF Sequential, OneCall
  <2>2. call[r].unit = unit /\ i \in Current(Kind[i])
    BY <1>0, <1>1, <2>1 DEF Alone
  <2>3. OneCall'
    <3>1. Alone(r)'
      BY <1>5 DEF Alone
    <3> QED
      BY <1>5, <2>1, <3>1 DEF OneCall, InFlight
  <2>4. OnePerKind'
    BY <1>10 DEF Sequential, OnePerKind
  <2>5. PointersHold'
    <3>1. \A s \in Requests : Publishing(s) => call[s].item = i
      BY <1>0, <2>1 DEF Publishing, InFlight
    <3>2. ASSUME NEW q \in {"scope", "regime", "rules"}, unit'.at[q] # None
          PROVE  \E k \in Kinds : unit'.at[q] \in Current(k)
      <4>1. CASE q = p
        BY <1>4, <2>2, <4>1, ItemsFacts
      <4>2. CASE q # p
        BY <1>4, <2>2, <3>1, <3>2, <4>2 DEF Sequential, PointersHold
      <4> QED
        BY <4>1, <4>2
    <3> QED
      BY <1>10, <3>2 DEF PointersHold
  <2>6. RulesArePointedTo'
    <3>1. p = "rules" \/ Kind[i] \notin RuleKinds
      BY DEF PointerOf, RuleKinds
    <3>2. CASE p = "rules"
      BY <1>4, <3>2, ItemsFacts DEF RulesArePointedTo
    <3>3. CASE p # "rules"
      <4>1. \A k \in RuleKinds : Current(k) # {} => unit.at["rules"] # None
        BY <1>0, <1>1, <2>1, <3>1, <3>3 DEF Sequential, RulesArePointedTo, InFlight
      <4> QED
        BY <1>4, <1>10, <2>2, <3>3, <4>1 DEF RulesArePointedTo
    <3> QED
      BY <3>2, <3>3
  <2> QED
    BY <2>3, <2>4, <2>5, <2>6
<1> QED
  BY <1>6, <1>7, <1>9, <1>11, <1>12

(* Confirming a constraint and the command that follows move no pointer.  *)
LEMMA CommandInv ==
    ASSUME PublicationIndInv, NEW r \in Requests, confirm(r) \/ Submit(r)
    PROVE  PublicationIndInv'
<1> USE DEF PublicationIndInv
<1>1. /\ call[r].at \in {"confirm", "command"} /\ call[r].command \in INTAKE_COMMANDS
      /\ InFlight(r) /\ item' = item /\ crossed' = crossed
  BY DEF confirm, Submit, CallInv, InFlight
<1>2. /\ unit' \in Unit /\ unit'.at = unit.at
      /\ constraint' \in {"ABSENT", "UNCONFIRMED", "CONFIRMED"}
  BY <1>1, CommandsAreStates DEF confirm, Submit, TypeOK, Unit
<1>3. /\ call' \in [Requests -> Call]
      /\ \A s \in Requests : s # r => call'[s] = call[s]
      /\ call'[r].at \in {"command", "returned", "raised"}
      /\ call'[r].at = "command" => call'[r].command = call[r].command
  <2>1. PICK point \in {"command", "returned", "raised"} : Goto(r, point)
    BY DEF confirm, Submit
  <2> QED
    BY <2>1, GotoFacts DEF Points
<1>4. TypeOK' /\ PublisherIsNotAuthor' /\ PointsToPublished(unit)'
  BY <1>1, <1>2, <1>3 DEF TypeOK, PublisherIsNotAuthor, PointsToPublished
<1>5. CallInv(r)'
  BY <1>1, <1>3 DEF CallInv, Publishing
<1>6. \A s \in Requests : CallInv(s)'
  BY <1>1, <1>3, <1>5, OthersKnow
<1>7. \A k : Current(k)' = Current(k)
  BY <1>1 DEF Current
<1>8. Available'
  BY <1>1, <1>3, <1>7 DEF Available
<1>9. Sequential'
  <2> SUFFICES ASSUME ~crossed
               PROVE  OneCall' /\ OnePerKind' /\ PointersHold' /\ RulesArePointedTo'
    BY <1>1 DEF Sequential
  <2>1. Alone(r)' /\ \A s \in Requests : InFlight(s) => s = r
    BY <1>1, <1>3 DEF Sequential, OneCall, Alone
  <2>2. OneCall'
    BY <1>3, <2>1 DEF OneCall, InFlight
  <2>3. OnePerKind' /\ PointersHold' /\ RulesArePointedTo'
    BY <1>1, <1>2, <1>3, <1>7
       DEF Sequential, OnePerKind, PointersHold, RulesArePointedTo, Publishing
  <2> QED
    BY <2>2, <2>3
<1> QED
  BY <1>4, <1>6, <1>8, <1>9

(* Every step keeps the invariant. *)
LEMMA NextInv == PublicationIndInv /\ [Next]_vars => PublicationIndInv'
<1> SUFFICES ASSUME PublicationIndInv, [Next]_vars PROVE PublicationIndInv'
  OBVIOUS
<1>1. CASE UNCHANGED vars
  <2>1. \A k : Current(k)' = Current(k)
    BY <1>1 DEF vars, Current
  <2> QED
    BY <1>1, <2>1, SMTT(20)
       DEF vars, PublicationIndInv, TypeOK, PublisherIsNotAuthor, CallInv, Publishing,
           PointsToPublished, Available, Sequential, OneCall, InFlight, Alone,
           OnePerKind, PointersHold, RulesArePointedTo
<1>2. CASE \E u \in Users : create(u)
  BY <1>2, CreateInv
<1>3. CASE create_constraint \/ Advance
  BY <1>3, SurroundingsInv
<1>4. ASSUME NEW u \in Users, NEW r \in Requests,
             ScopeRequests(r, u) \/ RuleSetRequests(r, u) \/ StartConfirm(r, u)
      PROVE  PublicationIndInv'
  <2>1. {"scope"} \in SUBSET Kinds /\ Kinds \ {"scope"} \in SUBSET Kinds
    BY DEF Kinds
  <2> QED
    BY <1>4, <2>1, StartsInv DEF ScopeRequests, RuleSetRequests
<1>5. CASE \E r \in Requests : Handler(r)
  BY <1>5, UpdateInv, ListInv, StaleInv, StoreInv, ReadUnitInv, SavePointerInv,
     CommandInv DEF Handler
<1> QED
  BY <1>1, <1>2, <1>3, <1>4, <1>5 DEF Next, CrossLotRequests

-----------------------------------------------------------------------------
(* The inductive invariant holds of every behaviour of the publications. *)
THEOREM Invariance == Spec => []PublicationIndInv
BY InitInv, NextInv, PTL DEF Spec

(* However publish, update_draft and the staling of other resources        *)
(* overlap, a published resource was confirmed by someone who did not      *)
(* write its latest version (services.py:315-320, 472-475, 557-560).       *)
THEOREM FourEyes == Spec => []PublisherIsNotAuthor
<1>1. PublicationIndInv => PublisherIsNotAuthor
  BY DEF PublicationIndInv
<1> QED
  BY <1>1, Invariance, PTL

(* The rule set that current_supported_rule_set chooses exists as soon as  *)
(* some rule set is CURRENT.                                               *)
LEMMA ChosenRuleSet ==
    ASSUME Current("project_rules") \cup Current("unit_rules") # {}
    PROVE  current_supported_rule_set # None
<1> DEFINE found == Current("project_rules") \cup Current("unit_rules")
<1>1. found \subseteq Items
  BY DEF Current
<1>2. Len(Kind) \in Nat /\ found \subseteq 0..Len(Kind)
  BY <1>1, ItemsFacts
<1>3. \E i \in found : \A j \in found : j <= i
  BY <1>2, GreatestElement
<1>4. (CHOOSE i \in found : \A j \in found : j <= i) \in found
  BY <1>3
<1> QED
  BY <1>1, <1>4, ItemsFacts DEF current_supported_rule_set

(* A set with no two elements has at most one. *)
LEMMA AtMostOne ==
    ASSUME NEW S, \A x, y \in S : x = y PROVE Cardinality(S) <= 1
<1>1. CASE S = {}
  BY <1>1, FS_EmptySet
<1>2. CASE S # {}
  <2>1. PICK x \in S : S = {x}
    BY <1>2
  <2> QED
    BY <2>1, FS_Singleton
<1> QED
  BY <1>1, <1>2

(* Once publications have ended, a group that was ever published has a     *)
(* CURRENT resource, so the precheck finds its rule set; and without       *)
(* overlaps the unit's pointers name the one CURRENT resource of a group,  *)
(* also after a refused command (services.py:121-176, 323-371, 561-575).   *)
THEOREM PublicationIsConsistent == Spec => []PublicationInv
<1>1. ASSUME PublicationIndInv PROVE PublishedStaysAvailable
  <2> SUFFICES ASSUME Quiescent
               PROVE  /\ \A k \in {"regime", "project_rules", "unit_rules"} :
                           (\E i \in Items : Kind[i] = k /\ item[i].state = "PUBLISHED")
                              => Current(k) # {}
                      /\ unit.at["rules"] # None => current_supported_rule_set # None
    BY DEF PublishedStaysAvailable
  <2>1. \A r \in Requests : call[r].at \notin {"stale", "store"}
    BY DEF Quiescent, InFlight
  <2>2. \A k \in {"regime", "project_rules", "unit_rules"} :
          (\E i \in Items : Kind[i] = k /\ item[i].state = "PUBLISHED")
             => Current(k) # {}
    BY <1>1, <2>1 DEF PublicationIndInv, Available, Kinds
  <2>3. ASSUME unit.at["rules"] # None PROVE current_supported_rule_set # None
    <3>1. /\ unit.at["rules"] \in Items
          /\ Kind[unit.at["rules"]] \in {"project_rules", "unit_rules"}
          /\ item[unit.at["rules"]].state = "PUBLISHED"
      BY <1>1, <2>3 DEF PublicationIndInv, PointsToPublished, TypeOK, Unit, RuleKinds
    <3>2. Current(Kind[unit.at["rules"]]) # {}
      BY <2>2, <3>1
    <3> QED
      BY <3>1, <3>2, ChosenRuleSet
  <2> QED
    BY <2>2, <2>3
<1>2. ASSUME PublicationIndInv PROVE PointersAreCurrent
  <2> SUFFICES ASSUME ~crossed, Quiescent
               PROVE  /\ \A k \in Kinds : Cardinality(Current(k)) <= 1
                      /\ \A p \in {"scope", "regime", "rules"} : unit.at[p] # None =>
                           \E k \in Kinds : unit.at[p] \in Current(k)
                      /\ Current("project_rules") \cup Current("unit_rules") # {} =>
                           unit.at["rules"] # None
    BY DEF PointersAreCurrent
  <2>1. OnePerKind /\ PointersHold /\ RulesArePointedTo
    BY <1>2 DEF PublicationIndInv, Sequential
  <2>2. \A r \in Requests : ~Publishing(r)
    BY DEF Quiescent, InFlight, Publishing
  <2>3. \A k \in Kinds : Cardinality(Current(k)) <= 1
    BY <2>1, AtMostOne DEF OnePerKind
  <2>4. \A p \in {"scope", "regime", "rules"} : unit.at[p] # None =>
          \E k \in Kinds : unit.at[p] \in Current(k)
    BY <2>1, <2>2 DEF PointersHold
  <2>5. Current("project_rules") \cup Current("unit_rules") # {} =>
          unit.at["rules"] # None
    BY <2>1, <2>2 DEF RulesArePointedTo, RuleKinds, Publishing
  <2> QED
    BY <2>3, <2>4, <2>5
<1>3. PublicationIndInv => PublicationInv
  BY <1>1, <1>2 DEF PublicationIndInv, PublicationInv
<1> QED
  BY <1>3, Invariance, PTL

(* A step of the rules services takes a unit out of a terminal state along *)
(* the table: the copy that publish writes back is the unit it read, and   *)
(* submit_after_intake asks the table.                                     *)
LEMMA LeftByTable ==
    PublicationIndInv /\ [Next]_vars => [TerminalIsLeftByTable]_vars
<1>1. ASSUME PublicationIndInv, Next, ~crossed, unit.state \in TERMINAL_STATES
      PROVE  unit'.state \in allowed_targets(unit.state) \cup {unit.state}
  <2>1. CASE \E u \in Users : create(u) \/ \E r \in Requests :
               ScopeRequests(r, u) \/ RuleSetRequests(r, u) \/ CrossLotRequests(r, u)
    BY <2>1 DEF create, ScopeRequests, RuleSetRequests, CrossLotRequests,
                StartUpdate, StartPublish, StartConfirm, Start, create_constraint
  <2>2. CASE Advance
    <3>1. unit \in Unit
      BY <1>1 DEF PublicationIndInv, TypeOK
    <3>2. PICK s \in allowed_targets(unit.state) : unit' = [unit EXCEPT !.state = s]
      BY <2>2 DEF Advance
    <3> QED
      BY <3>1, <3>2 DEF Unit
  <2>3. ASSUME NEW r \in Requests, SavePointer(r) PROVE unit'.state = unit.state
    <3>1. call[r].at = "pointer" /\ call[r].unit \in Unit
      BY <1>1, <2>3 DEF SavePointer, PublicationIndInv, TypeOK, Call
    <3>2. call[r].unit = unit
      BY <1>1, <3>1 DEF PublicationIndInv, Sequential, OneCall, Alone, InFlight
    <3> QED
      BY <2>3, <3>1, <3>2 DEF SavePointer, Unit
  <2>4. ASSUME NEW r \in Requests, Submit(r)
        PROVE  unit'.state \in allowed_targets(unit.state) \cup {unit.state}
    <3>1. unit \in Unit
      BY <1>1 DEF PublicationIndInv, TypeOK
    <3>2. unit.state \notin {"DRAFT", "DOCUMENTS_PARSING"}
      BY <1>1 DEF TERMINAL_STATES
    <3>3. CASE Accepts(unit.state, call[r].command)
      BY <2>4, <3>1, <3>2, <3>3 DEF Submit, Accepts, Unit
    <3>4. CASE ~Accepts(unit.state, call[r].command)
      BY <2>4, <3>4 DEF Submit
    <3> QED
      BY <3>3, <3>4
  <2>5. ASSUME NEW r \in Requests,
               \/ update_draft(r) \/ ListCurrent(r) \/ StaleOne(r) \/ Store(r)
               \/ ReadUnit(r) \/ confirm(r)
        PROVE  unit' = unit
    BY <2>5 DEF update_draft, ListCurrent, StaleOne, Store, ReadUnit, confirm
  <2> QED
    BY <1>1, <2>1, <2>2, <2>3, <2>4, <2>5 DEF Next, Handler
<1> QED
  BY <1>1 DEF TerminalIsLeftByTable

(* Without overlaps a unit leaves a terminal state along the transition    *)
(* table only (lifecycle.py:69-81, services.py:331-371).                   *)
THEOREM TerminalStates == Spec => [][TerminalIsLeftByTable]_vars
BY LeftByTable, Invariance, PTL DEF Spec

-----------------------------------------------------------------------------
(* The clauses of a coverage key and the compliance review.                *)

(* What is superseded was published, and a draft supersedes nothing. *)
SuccessorsFollowPublished ==
    \A c \in Clauses :
        /\ clause[c].supersedes # Nothing => clause[clause[c].supersedes].state = "PUBLISHED"
        /\ clause[c].state = "DRAFT" => clause[c].supersedes = Nothing

(* What a call k knows of the clause it read, whatever others did since: a *)
(* draft is still a draft, and a published clause still says what it said. *)
Knows(k) ==
    /\ k.at = "edit" => /\ k.clause \in Clauses
                        /\ clause[k.clause].state = "DRAFT"
                        /\ k.copy.state = "DRAFT"
                        /\ k.copy.supersedes = Nothing
    /\ k.at \in {"stale", "successor"} =>
         /\ k.clause \in Clauses
         /\ clause[k.clause].state = "PUBLISHED"
         /\ k.copy.state = "PUBLISHED"
         /\ k.copy.expr = clause[k.clause].expr
         /\ k.copy.supersedes = clause[k.clause].supersedes
    /\ k.at = "successor" => clause[k.clause].validity = "STALE"

(* Without overlaps the one call in flight moves the review along an edge  *)
(* of the state it is in.                                                  *)
ReviewIsSequential ==
    ~overlap =>
        /\ \A q, r \in Callers :
             ClauseBook!InFlight(q) /\ ClauseBook!InFlight(r) => q = r
        /\ \A r \in Callers : task[r].at = "transition" =>
             task[r].target \in ClauseBook!COMPLIANCE_EDGES[review]

ClausesIndInv ==
    /\ ClauseBook!TypeOK
    /\ ClauseBook!SupersededIsOut
    /\ SuccessorsFollowPublished
    /\ \A r \in Callers : Knows(task[r])
    /\ ReviewIsSequential

(* The constant records have their types. *)
LEMMA ClauseTypes ==
    /\ ClauseBook!AnyClause \in ClauseBook!Clause
    /\ ClauseBook!NoTask \in ClauseBook!Task
<1>1. (CHOOSE s \in Sets : TRUE) \in Sets /\ (CHOOSE e \in Exprs : TRUE) \in Exprs
  BY ClausesAssumption, Zenon
<1>2. ClauseBook!AnyClause \in ClauseBook!Clause
  BY <1>1 DEF ClauseBook!AnyClause, ClauseBook!Clause
<1> QED
  BY <1>2 DEF ClauseBook!NoTask, ClauseBook!Task, ClauseBook!Points,
              ClauseBook!ReviewStates

(* The edges of a review lead to states of it. *)
LEMMA EdgesAreStates ==
    ASSUME NEW s \in ClauseBook!ReviewStates
    PROVE  ClauseBook!COMPLIANCE_EDGES[s] \subseteq ClauseBook!ReviewStates
BY DEF ClauseBook!ReviewStates, ClauseBook!COMPLIANCE_EDGES

(* The loaded clauses are published and supersede nothing. *)
LEMMA ClausesInit == ClauseBook!Init => ClausesIndInv
<1> SUFFICES ASSUME ClauseBook!Init PROVE ClausesIndInv
  OBVIOUS
<1>1. /\ task = [r \in Callers |-> ClauseBook!NoTask] /\ overlap = FALSE
      /\ ruleSet \in [Sets -> {rs \in ClauseBook!RuleSet : rs.validity = "CURRENT"}]
      /\ review \in {"OPEN", "BLOCKING"}
  BY Zenon DEF ClauseBook!Init
<1>2. PICK set \in [Loaded -> Sets], expr \in [Loaded -> Exprs] :
        clause = [c \in Clauses |->
             IF c \in Loaded
             THEN [ClauseBook!AnyClause EXCEPT !.state = "PUBLISHED", !.set = set[c],
                                               !.expr = expr[c]]
             ELSE ClauseBook!AnyClause]
  BY Zenon DEF ClauseBook!Init
<1>3. ASSUME NEW c \in Clauses
      PROVE  /\ clause[c] \in ClauseBook!Clause
             /\ clause[c].supersedes = Nothing
  <2>1. CASE c \in Loaded
    <3>1. clause[c] = [ClauseBook!AnyClause EXCEPT !.state = "PUBLISHED",
                         !.set = set[c], !.expr = expr[c]]
      BY <1>2, <2>1, Zenon
    <3>2. set[c] \in Sets /\ expr[c] \in Exprs
      BY <2>1
    <3>3. ClauseBook!AnyClause.supersedes = Nothing
      BY DEF ClauseBook!AnyClause
    <3> QED
      BY <3>1, <3>2, <3>3, ClauseTypes DEF ClauseBook!Clause
  <2>2. CASE c \notin Loaded
    <3>1. clause[c] = ClauseBook!AnyClause
      BY <1>2, <2>2, Zenon
    <3> QED
      BY <3>1, ClauseTypes DEF ClauseBook!AnyClause
  <2> QED
    BY <2>1, <2>2
<1>4. clause \in [Clauses -> ClauseBook!Clause]
  <2>1. clause = [c \in Clauses |-> clause[c]]
    BY <1>2, Zenon
  <2> QED
    BY <1>3, <2>1
<1>5. /\ ruleSet \in [Sets -> ClauseBook!RuleSet]
      /\ review \in ClauseBook!ReviewStates
  BY <1>1 DEF ClauseBook!ReviewStates
<1>6. ClauseBook!TypeOK
  BY <1>1, <1>4, <1>5, ClauseTypes DEF ClauseBook!TypeOK
<1>7. ClauseBook!SupersededIsOut /\ SuccessorsFollowPublished
  BY <1>3, ClausesAssumption DEF ClauseBook!SupersededIsOut, SuccessorsFollowPublished
<1>8. \A r \in Callers : task[r].at = "new"
  BY <1>1 DEF ClauseBook!NoTask
<1> QED
  BY <1>6, <1>7, <1>8 DEF ClausesIndInv, Knows, ReviewIsSequential, ClauseBook!InFlight

(* A call reads the clause, or the review, it is about. *)
LEMMA TaskStarts ==
    ASSUME ClausesIndInv, NEW r \in Callers, NEW k \in ClauseBook!Task,
           ClauseBook!Start(r, k), Knows(k),
           k.at = "transition" => k.target \in ClauseBook!COMPLIANCE_EDGES[review]
    PROVE  ClausesIndInv'
<1> USE DEF ClausesIndInv
<1>1. /\ task[r].at = "new" /\ task'[r] = k
      /\ \A q \in Callers : q # r => task'[q] = task[q]
      /\ ruleSet' = ruleSet /\ clause' = clause /\ review' = review
      /\ task' \in [Callers -> ClauseBook!Task]
  BY DEF ClauseBook!Start, ClauseBook!TypeOK
<1>2. overlap' = (overlap \/ \E q \in Callers : ClauseBook!InFlight(q))
  BY DEF ClauseBook!Start
<1>3. ClauseBook!TypeOK'
  BY <1>1, <1>2 DEF ClauseBook!TypeOK
<1>4. ClauseBook!SupersededIsOut' /\ SuccessorsFollowPublished'
  BY <1>1 DEF ClauseBook!SupersededIsOut, SuccessorsFollowPublished
<1>5. \A q \in Callers : Knows(task[q])'
  BY <1>1 DEF Knows
<1>6. ReviewIsSequential'
  BY <1>1, <1>2 DEF ReviewIsSequential, ClauseBook!InFlight
<1> QED
  BY <1>3, <1>4, <1>5, <1>6

(* What a write may do to the clauses: a draft stays a draft, and of a     *)
(* published clause only the validity changes, once.                       *)
Fixed(c) ==
    /\ clause[c].state = "DRAFT" => clause'[c].state = "DRAFT"
    /\ clause[c].state = "PUBLISHED" =>
         /\ clause'[c].state = "PUBLISHED"
         /\ clause'[c].expr = clause[c].expr
         /\ clause'[c].supersedes = clause[c].supersedes
         /\ clause[c].validity = "STALE" => clause'[c].validity = "STALE"

(* A write of one clause by a call that returns, or goes on to write the   *)
(* successor.                                                              *)
LEMMA ClauseWritten ==
    ASSUME ClausesIndInv, NEW r \in Callers, NEW c \in Clauses,
           NEW written \in ClauseBook!Clause,
           clause' = [clause EXCEPT ![c] = written],
           Fixed(c),
           written.state = "DRAFT" => written.supersedes = Nothing,
           written.supersedes # Nothing =>
              /\ clause'[written.supersedes].state = "PUBLISHED"
              /\ clause'[written.supersedes].validity = "STALE",
           NEW k \in ClauseBook!Task, task' = [task EXCEPT ![r] = k],
           Knows(k)', k.at \in {"returned", "successor"},
           k.at = "successor" => ClauseBook!InFlight(r),
           UNCHANGED <<ruleSet, review, overlap>>
    PROVE  ClausesIndInv'
<1> USE DEF ClausesIndInv
<1>1. /\ clause' \in [Clauses -> ClauseBook!Clause]
      /\ clause'[c] = written
      /\ \A d \in Clauses : d # c => clause'[d] = clause[d]
  BY DEF ClauseBook!TypeOK
<1>2. /\ task' \in [Callers -> ClauseBook!Task]
      /\ task'[r] = k
      /\ \A q \in Callers : q # r => task'[q] = task[q]
  BY DEF ClauseBook!TypeOK
<1>3. ClauseBook!TypeOK'
  BY <1>1, <1>2 DEF ClauseBook!TypeOK
<1>4. \A d \in Clauses : Fixed(d)
  BY <1>1 DEF Fixed
<1>5. \A d \in Clauses : clause[d] \in ClauseBook!Clause
  BY DEF ClauseBook!TypeOK
<1>6. SuccessorsFollowPublished'
  BY <1>1, <1>4, <1>5, ClausesAssumption
     DEF SuccessorsFollowPublished, Fixed, ClauseBook!Clause
<1>7. ClauseBook!SupersededIsOut'
  <2> SUFFICES ASSUME NEW d \in Clauses, NEW e \in Clauses,
                      clause'[d].state = "PUBLISHED", clause'[d].supersedes = e
               PROVE  clause'[e].validity = "STALE"
    BY DEF ClauseBook!SupersededIsOut
  <2>1. e # Nothing
    BY ClausesAssumption
  <2>2. CASE d = c
    BY <1>1, <2>1, <2>2
  <2>3. CASE d # c
    <3>1. clause[e].state = "PUBLISHED" /\ clause[e].validity = "STALE"
      BY <1>1, <2>1, <2>3 DEF ClauseBook!SupersededIsOut, SuccessorsFollowPublished
    <3> QED
      BY <1>4, <3>1 DEF Fixed
  <2> QED
    BY <2>2, <2>3
<1>8. \A q \in Callers : Knows(task[q])'
  <2> SUFFICES ASSUME NEW q \in Callers, q # r PROVE Knows(task[q])'
    BY <1>2
  <2>1. Knows(task[q]) /\ task'[q] = task[q]
    BY <1>2
  <2> QED
    BY <1>4, <2>1 DEF Knows, Fixed
<1>9. ReviewIsSequential'
  BY <1>2 DEF ReviewIsSequential, ClauseBook!InFlight
<1> QED
  BY <1>3, <1>6, <1>7, <1>8, <1>9

(* Every step of the rules services keeps the invariant. *)
LEMMA ClausesNext == ClausesIndInv /\ [ClauseBook!Next]_(ClauseBook!vars) => ClausesIndInv'
<1> SUFFICES ASSUME ClausesIndInv, [ClauseBook!Next]_(ClauseBook!vars)
             PROVE  ClausesIndInv'
  OBVIOUS
<1> USE DEF ClausesIndInv
<1> DEFINE returned == [ClauseBook!NoTask EXCEPT !.at = "returned"]
<1>0. /\ returned \in ClauseBook!Task /\ returned.at = "returned"
      /\ Knows(returned)'
  BY ClauseTypes DEF ClauseBook!Task, ClauseBook!Points, Knows
<1> HIDE DEF returned
<1>1. ASSUME NEW r \in Callers, ClauseBook!create(r) PROVE ClausesIndInv'
  <2>1. PICK c \in Clauses, s \in Sets, e \in Exprs, p \in {1, 2} :
          /\ ClauseBook!IsNext(c)
          /\ clause' = [clause EXCEPT ![c] =
               [ClauseBook!AnyClause EXCEPT !.state = "DRAFT", !.set = s, !.expr = e,
                                            !.priority = p]]
    BY <1>1, Zenon DEF ClauseBook!create
  <2> DEFINE written == [ClauseBook!AnyClause EXCEPT !.state = "DRAFT", !.set = s,
                                          !.expr = e, !.priority = p]
  <2>2. /\ written \in ClauseBook!Clause
        /\ written.state = "DRAFT" /\ written.supersedes = Nothing
    BY ClauseTypes DEF ClauseBook!Clause, ClauseBook!AnyClause
  <2>3. clause' = [clause EXCEPT ![c] = written]
    BY <2>1, Zenon
  <2> HIDE DEF written
  <2>4. clause[c].state = "ABSENT"
    BY <2>1 DEF ClauseBook!IsNext
  <2>5. Fixed(c)
    BY <2>4 DEF Fixed
  <2>6. task' = [task EXCEPT ![r] = returned]
    BY <1>1, Zenon DEF ClauseBook!create, ClauseBook!Return, returned
  <2>7. UNCHANGED <<ruleSet, review, overlap>>
    BY <1>1, Zenon DEF ClauseBook!create
  <2> QED
    BY <1>0, <2>2, <2>3, <2>5, <2>6, <2>7, ClauseWritten
<1>2. ASSUME NEW r \in Callers, ClauseBook!StartUpdate(r) PROVE ClausesIndInv'
  <2>1. PICK c \in Clauses :
          /\ clause[c].state = "DRAFT"
          /\ ClauseBook!Start(r, [ClauseBook!NoTask EXCEPT !.at = "edit", !.clause = c,
                                                           !.copy = clause[c]])
    BY <1>2, Zenon DEF ClauseBook!StartUpdate
  <2>2. PICK k : k = [ClauseBook!NoTask EXCEPT !.at = "edit", !.clause = c,
                                               !.copy = clause[c]]
    OBVIOUS
  <2>3. clause[c] \in ClauseBook!Clause
    BY DEF ClauseBook!TypeOK
  <2>4. /\ k \in ClauseBook!Task
        /\ k.at = "edit" /\ k.clause = c /\ k.copy = clause[c]
    BY <2>2, <2>3, ClauseTypes DEF ClauseBook!Task, ClauseBook!Points
  <2>5. Knows(k)
    BY <2>1, <2>4 DEF Knows, SuccessorsFollowPublished
  <2>6. ClauseBook!Start(r, k)
    BY <2>1, <2>2, Zenon
  <2> QED
    BY <2>4, <2>5, <2>6, TaskStarts
<1>3. ASSUME NEW r \in Callers, ClauseBook!update_draft(r) PROVE ClausesIndInv'
  <2>1. PICK e \in Exprs : clause' = [clause EXCEPT ![task[r].clause] =
          [task[r].copy EXCEPT !.expr = e]]
    BY <1>3, Zenon DEF ClauseBook!update_draft
  <2>2. /\ task[r] \in ClauseBook!Task /\ Knows(task[r]) /\ task[r].at = "edit"
    BY <1>3 DEF ClauseBook!TypeOK, ClauseBook!update_draft
  <2>3. PICK c \in Clauses : c = task[r].clause
    BY <2>2 DEF Knows
  <2>4. PICK written : written = [task[r].copy EXCEPT !.expr = e]
    OBVIOUS
  <2>5. task[r].copy \in ClauseBook!Clause
    BY <2>2 DEF ClauseBook!Task
  <2>6. /\ written \in ClauseBook!Clause
        /\ written.state = "DRAFT" /\ written.supersedes = Nothing
    BY <2>2, <2>4, <2>5 DEF Knows, ClauseBook!Clause
  <2>7. clause' = [clause EXCEPT ![c] = written]
    BY <2>1, <2>3, <2>4, Zenon
  <2>8. clause \in [Clauses -> ClauseBook!Clause]
    BY DEF ClauseBook!TypeOK
  <2>9. Fixed(c)
    BY <2>2, <2>3, <2>6, <2>7, <2>8 DEF Fixed, Knows
  <2>10. task' = [task EXCEPT ![r] = returned]
    BY <1>3, Zenon DEF ClauseBook!update_draft, ClauseBook!Return, returned
  <2>11. UNCHANGED <<ruleSet, review, overlap>>
    BY <1>3, Zenon DEF ClauseBook!update_draft
  <2> QED
    BY <1>0, <2>6, <2>7, <2>9, <2>10, <2>11, ClauseWritten
<1>4. ASSUME NEW r \in Callers, ClauseBook!StartSupersede(r) PROVE ClausesIndInv'
  <2>1. PICK c \in Clauses :
          /\ clause[c].state = "PUBLISHED"
          /\ ClauseBook!Start(r, [ClauseBook!NoTask EXCEPT !.at = "stale", !.clause = c,
                                                           !.copy = clause[c]])
    BY <1>4, Zenon DEF ClauseBook!StartSupersede
  <2>2. PICK k : k = [ClauseBook!NoTask EXCEPT !.at = "stale", !.clause = c,
                                               !.copy = clause[c]]
    OBVIOUS
  <2>3. clause[c] \in ClauseBook!Clause
    BY DEF ClauseBook!TypeOK
  <2>4. /\ k \in ClauseBook!Task
        /\ k.at = "stale" /\ k.clause = c /\ k.copy = clause[c]
    BY <2>2, <2>3, ClauseTypes DEF ClauseBook!Task, ClauseBook!Points
  <2>5. Knows(k)
    BY <2>1, <2>4 DEF Knows
  <2>6. ClauseBook!Start(r, k)
    BY <2>1, <2>2, Zenon
  <2> QED
    BY <2>4, <2>5, <2>6, TaskStarts
<1>5. ASSUME NEW r \in Callers, ClauseBook!StaleOld(r) PROVE ClausesIndInv'
  <2>1. /\ task[r].at = "stale"
        /\ clause' = [clause EXCEPT ![task[r].clause] =
             [task[r].copy EXCEPT !.validity = "STALE"]]
        /\ task' = [task EXCEPT ![r].at = "successor"]
        /\ UNCHANGED <<ruleSet, review, overlap>>
    BY <1>5, Zenon DEF ClauseBook!StaleOld
  <2>2. task[r] \in ClauseBook!Task /\ Knows(task[r])
    BY DEF ClauseBook!TypeOK
  <2>3. PICK c \in Clauses : c = task[r].clause
    BY <2>1, <2>2 DEF Knows
  <2>4. PICK written : written = [task[r].copy EXCEPT !.validity = "STALE"]
    OBVIOUS
  <2>5. task[r].copy \in ClauseBook!Clause
    BY <2>2 DEF ClauseBook!Task
  <2>6. /\ written \in ClauseBook!Clause
        /\ written.state = task[r].copy.state /\ written.expr = task[r].copy.expr
        /\ written.supersedes = task[r].copy.supersedes /\ written.validity = "STALE"
    BY <2>4, <2>5 DEF ClauseBook!Clause
  <2>7. /\ clause[c].state = "PUBLISHED" /\ written.state = "PUBLISHED"
        /\ written.expr = clause[c].expr /\ written.supersedes = clause[c].supersedes
    BY <2>1, <2>2, <2>3, <2>6 DEF Knows
  <2>8. clause' = [clause EXCEPT ![c] = written]
    BY <2>1, <2>3, <2>4, Zenon
  <2>9. clause \in [Clauses -> ClauseBook!Clause]
    BY DEF ClauseBook!TypeOK
  <2>10. clause'[c] = written
    BY <2>8, <2>9
  <2>11. Fixed(c)
    BY <2>6, <2>7, <2>10 DEF Fixed
  <2>12. written.supersedes # Nothing =>
           /\ clause'[written.supersedes].state = "PUBLISHED"
           /\ clause'[written.supersedes].validity = "STALE"
    BY <2>6, <2>7, <2>8, <2>9, <2>10
       DEF SuccessorsFollowPublished, ClauseBook!SupersededIsOut, ClauseBook!Clause
  <2>13. PICK k : k = [task[r] EXCEPT !.at = "successor"]
    OBVIOUS
  <2>14. /\ k \in ClauseBook!Task /\ k.at = "successor" /\ k.clause = c
         /\ k.copy = task[r].copy
    BY <2>2, <2>3, <2>13 DEF ClauseBook!Task, ClauseBook!Points
  <2>15. task' = [task EXCEPT ![r] = k]
    BY <2>1, <2>13 DEF ClauseBook!TypeOK
  <2>16. Knows(k)'
    BY <2>6, <2>7, <2>10, <2>14 DEF Knows
  <2>17. ClauseBook!InFlight(r)
    BY <2>1 DEF ClauseBook!InFlight
  <2> QED
    BY <2>1, <2>6, <2>7, <2>8, <2>11, <2>12, <2>14, <2>15, <2>16, <2>17, ClauseWritten
<1>6. ASSUME NEW r \in Callers, ClauseBook!supersede(r) PROVE ClausesIndInv'
  <2>1. PICK c \in Clauses, e \in Exprs :
          /\ ClauseBook!IsNext(c)
          /\ clause' = [clause EXCEPT ![c] =
               [task[r].copy EXCEPT !.expr = e, !.validity = "CURRENT",
                                    !.supersedes = task[r].clause]]
    BY <1>6, Zenon DEF ClauseBook!supersede
  <2>2. /\ task[r] \in ClauseBook!Task /\ Knows(task[r]) /\ task[r].at = "successor"
    BY <1>6 DEF ClauseBook!TypeOK, ClauseBook!supersede
  <2>3. PICK old \in Clauses : old = task[r].clause
    BY <2>2 DEF Knows
  <2>4. PICK written : written = [task[r].copy EXCEPT !.expr = e, !.validity = "CURRENT",
                                                      !.supersedes = task[r].clause]
    OBVIOUS
  <2>5. task[r].copy \in ClauseBook!Clause
    BY <2>2 DEF ClauseBook!Task
  <2>6. /\ written \in ClauseBook!Clause
        /\ written.state = task[r].copy.state
        /\ written.supersedes = old
    BY <2>3, <2>4, <2>5 DEF ClauseBook!Clause
  <2>7. written.state = "PUBLISHED"
    BY <2>2, <2>6 DEF Knows
  <2>8. clause[old].state = "PUBLISHED" /\ clause[old].validity = "STALE"
    BY <2>2, <2>3 DEF Knows
  <2>9. clause[c].state = "ABSENT"
    BY <2>1 DEF ClauseBook!IsNext
  <2>10. clause' = [clause EXCEPT ![c] = written]
    BY <2>1, <2>4, Zenon
  <2>11. Fixed(c) /\ clause'[old] = clause[old]
    BY <2>8, <2>9, <2>10 DEF Fixed, ClauseBook!TypeOK
  <2>12. task' = [task EXCEPT ![r] = returned]
    BY <1>6, Zenon DEF ClauseBook!supersede, ClauseBook!Return, returned
  <2>13. UNCHANGED <<ruleSet, review, overlap>>
    BY <1>6, Zenon DEF ClauseBook!supersede
  <2> QED
    BY <1>0, <2>6, <2>7, <2>8, <2>10, <2>11, <2>12, <2>13, ClauseWritten
<1>7. ASSUME NEW r \in Callers, ClauseBook!StartTransition(r) PROVE ClausesIndInv'
  <2>1. PICK target \in ClauseBook!COMPLIANCE_EDGES[review] :
          ClauseBook!Start(r, [ClauseBook!NoTask EXCEPT !.at = "transition",
                                                        !.target = target])
    BY <1>7, Zenon DEF ClauseBook!StartTransition
  <2>2. PICK k : k = [ClauseBook!NoTask EXCEPT !.at = "transition", !.target = target]
    OBVIOUS
  <2>3. target \in ClauseBook!ReviewStates
    BY <2>1, EdgesAreStates DEF ClauseBook!TypeOK
  <2>4. k \in ClauseBook!Task /\ k.at = "transition" /\ k.target = target
    BY <2>2, <2>3, ClauseTypes DEF ClauseBook!Task, ClauseBook!Points
  <2>5. Knows(k)
    BY <2>4 DEF Knows
  <2>6. ClauseBook!Start(r, k)
    BY <2>1, <2>2, Zenon
  <2> QED
    BY <2>1, <2>4, <2>5, <2>6, TaskStarts
<1>8. ASSUME NEW r \in Callers, ClauseBook!transition(r) PROVE ClausesIndInv'
  <2>1. /\ task[r].at = "transition" /\ review' = task[r].target
        /\ UNCHANGED <<ruleSet, clause, overlap>>
    BY <1>8 DEF ClauseBook!transition
  <2>2. task' = [task EXCEPT ![r] = returned]
    BY <1>8, Zenon DEF ClauseBook!transition, ClauseBook!Return, returned
  <2>3. /\ task' \in [Callers -> ClauseBook!Task] /\ task'[r] = returned
        /\ \A q \in Callers : q # r => task'[q] = task[q]
    BY <1>0, <2>2 DEF ClauseBook!TypeOK
  <2>4. task[r].target \in ClauseBook!ReviewStates
    BY DEF ClauseBook!TypeOK, ClauseBook!Task
  <2>5. ClauseBook!TypeOK'
    BY <2>1, <2>3, <2>4 DEF ClauseBook!TypeOK
  <2>6. ClauseBook!SupersededIsOut' /\ SuccessorsFollowPublished'
    BY <2>1 DEF ClauseBook!SupersededIsOut, SuccessorsFollowPublished
  <2>7. \A q \in Callers : Knows(task[q])'
    BY <1>0, <2>1, <2>3 DEF Knows
  <2>8. ReviewIsSequential'
    BY <1>0, <2>1, <2>3 DEF ReviewIsSequential, ClauseBook!InFlight
  <2> QED
    BY <2>5, <2>6, <2>7, <2>8
<1>9. ASSUME NEW s \in Sets, ClauseBook!ChangeSet(s) PROVE ClausesIndInv'
  <2>1. UNCHANGED <<clause, review, task, overlap>>
    BY <1>9, Zenon DEF ClauseBook!ChangeSet
  <2>2. ruleSet' \in [Sets -> ClauseBook!RuleSet]
    <3>1. ruleSet \in [Sets -> ClauseBook!RuleSet] /\ ruleSet[s] \in ClauseBook!RuleSet
      BY DEF ClauseBook!TypeOK
    <3>2. CASE ruleSet' = [ruleSet EXCEPT ![s].state = "PUBLISHED"]
      BY <3>1, <3>2 DEF ClauseBook!RuleSet
    <3>3. CASE ruleSet' = [ruleSet EXCEPT ![s].validity = "STALE"]
      BY <3>1, <3>3 DEF ClauseBook!RuleSet
    <3>4. CASE ruleSet' = [ruleSet EXCEPT ![s].inForce = FALSE]
      BY <3>1, <3>4 DEF ClauseBook!RuleSet
    <3> QED
      BY <1>9, <3>2, <3>3, <3>4, Zenon DEF ClauseBook!ChangeSet
  <2>3. ClauseBook!TypeOK'
    BY <2>1, <2>2 DEF ClauseBook!TypeOK
  <2> QED
    BY <2>1, <2>3 DEF ClauseBook!SupersededIsOut, SuccessorsFollowPublished, Knows,
                      ReviewIsSequential, ClauseBook!InFlight
<1>10. CASE UNCHANGED ClauseBook!vars
  BY <1>10 DEF ClauseBook!vars, ClauseBook!TypeOK, ClauseBook!SupersededIsOut,
               SuccessorsFollowPublished, Knows, ReviewIsSequential, ClauseBook!InFlight
<1> QED
  BY <1>1, <1>2, <1>3, <1>4, <1>5, <1>6, <1>7, <1>8, <1>9, <1>10
     DEF ClauseBook!Next, ClauseBook!ClauseRequests, ClauseBook!ReviewRequests

(* What is proved of the clauses rests on this invariant, for any number   *)
(* of clauses, rule sets and overlapping calls.                            *)
THEOREM ClausesInvariance == ClauseBook!Spec => []ClausesIndInv
BY ClausesInit, ClausesNext, PTL DEF ClauseBook!Spec

(* A finite set has no element, one, or two that differ. *)
LEMMA NoneOneOrMany ==
    ASSUME NEW S, IsFiniteSet(S)
    PROVE  /\ ClauseBook!Cardinality(S) <= 1 <=> \A x, y \in S : x = y
           /\ ClauseBook!Cardinality(S) > 1 <=> \E x, y \in S : x # y
           /\ ClauseBook!Cardinality(S) = 1 <=> S # {} /\ \A x, y \in S : x = y
<1>1. PICK n : n = Cardinality(S) /\ n = ClauseBook!Cardinality(S)
  BY DEF ClauseBook!Cardinality, Cardinality
<1>2. n \in Nat /\ (n = 0 <=> S = {})
  BY <1>1, FS_CardinalityType, FS_EmptySet
<1>3. n = 1 <=> \E x : S = {x}
  BY <1>1, FS_Singleton
<1>4. (\E x : S = {x}) <=> S # {} /\ \A x, y \in S : x = y
  <2>1. ASSUME NEW x, S = {x} PROVE S # {} /\ \A y, z \in S : y = z
    BY <2>1
  <2>2. ASSUME S # {}, \A y, z \in S : y = z PROVE \E x : S = {x}
    <3>1. PICK x : x \in S
      BY <2>2
    <3>2. S = {x}
      BY <2>2, <3>1
    <3> QED
      BY <3>2, Zenon
  <2> QED
    BY <2>1, <2>2
<1>5. n <= 1 <=> n = 0 \/ n = 1
  BY <1>2
<1>6. n > 1 <=> ~(n <= 1)
  BY <1>2
<1>7. n <= 1 <=> \A x, y \in S : x = y
  BY <1>2, <1>3, <1>4, <1>5, Zenon
<1> QED
  BY <1>1, <1>3, <1>4, <1>6, <1>7, Zenon

(* What finitely many clauses say is finite. *)
LEMMA ExpressionsAreFinite ==
    ASSUME NEW cs, cs \subseteq Clauses
    PROVE  IsFiniteSet(ClauseBook!expressions(cs))
<1>1. IsFiniteSet(cs)
  BY ClausesAssumption, FS_Subset
<1>2. PICK f : f = [c \in cs |-> clause[c].expr]
  BY Zenon
<1>3. f \in Surjection(cs, ClauseBook!expressions(cs))
  BY <1>2 DEF Surjection, ClauseBook!expressions
<1> QED
  BY <1>1, <1>3, FS_Surjection, Zenon

(* Among clauses that are not none, one is first. *)
LEMMA WinnerIsOne ==
    ASSUME ClauseBook!TypeOK, NEW cs, cs \subseteq Clauses, cs # {}
    PROVE  ClauseBook!winner(cs) \in cs
<1> DEFINE priorities == {clause[c].priority : c \in cs}
<1>1. \A c \in cs : clause[c].priority \in {1, 2}
  BY DEF ClauseBook!TypeOK, ClauseBook!Clause
<1>2. priorities \subseteq Nat /\ priorities # {}
  BY <1>1
<1>3. PICK p \in priorities : \A n \in priorities : p <= n
  BY <1>2, LeastElement
<1> DEFINE firsts == {c \in cs : clause[c].priority = p}
<1>4. firsts \subseteq Nat /\ firsts # {}
  BY ClausesAssumption
<1>5. PICK f \in firsts : \A c \in firsts : f <= c
  BY <1>4, LeastElement
<1>6. \A d \in cs : \/ clause[f].priority < clause[d].priority
                    \/ clause[f].priority = clause[d].priority /\ f <= d
  BY <1>1, <1>3, <1>5
<1>7. \E c \in cs : \A d \in cs : \/ clause[c].priority < clause[d].priority
                                  \/ clause[c].priority = clause[d].priority /\ c <= d
  BY <1>5, <1>6
<1> QED
  BY <1>7, Zenon DEF ClauseBook!winner

(* resolve_inherited_clauses settles a key exactly when there is something *)
(* to settle and nothing to argue about (resolution.py:53-155).            *)
LEMMA ResolutionIsUnanimous == ClauseBook!TypeOK => ClauseBook!ResolvedIsUnanimous
<1> SUFFICES ASSUME ClauseBook!TypeOK PROVE ClauseBook!ResolvedIsUnanimous
  OBVIOUS
<1>1. ASSUME NEW formal \in BOOLEAN, NEW P, NEW U, NEW res,
             P = ClauseBook!Grouped("PROJECT", formal),
             U = ClauseBook!Grouped("DECISION_UNIT", formal),
             res = ClauseBook!resolve_inherited_clauses(formal)
      PROVE  /\ res.status = "RESOLVED" <=>
                  ClauseBook!Cardinality(ClauseBook!expressions(P \cup U)) = 1
             /\ res.status = "RESOLVED" => res.winning \in IF U # {} THEN U ELSE P \cup U
             /\ res.status = "CONFLICT" =>
                  /\ res.among \subseteq P \cup U
                  /\ ClauseBook!Cardinality(ClauseBook!expressions(res.among)) > 1
  <2>1. P \subseteq Clauses /\ U \subseteq Clauses
    BY <1>1 DEF ClauseBook!Grouped
  <2>2. PICK EP, EU : EP = ClauseBook!expressions(P) /\ EU = ClauseBook!expressions(U)
    OBVIOUS
  <2>3. /\ ClauseBook!expressions(P \cup U) = EP \cup EU
        /\ EP = {} <=> P = {}
        /\ EU = {} <=> U = {}
        /\ \A c \in P : clause[c].expr \in EP
        /\ \A c \in U : clause[c].expr \in EU
    BY <2>2 DEF ClauseBook!expressions
  <2>4. IsFiniteSet(EP) /\ IsFiniteSet(EU) /\ IsFiniteSet(EP \cup EU)
    BY <2>1, <2>2, ExpressionsAreFinite, FS_Union
  <2>5. PICK np, nu : np = ClauseBook!Cardinality(EP) /\ nu = ClauseBook!Cardinality(EU)
    OBVIOUS
  <2>6. /\ np <= 1 <=> \A x, y \in EP : x = y
        /\ np > 1 <=> \E x, y \in EP : x # y
        /\ np = 1 <=> EP # {} /\ \A x, y \in EP : x = y
    BY <2>4, <2>5, NoneOneOrMany
  <2>7. /\ nu <= 1 <=> \A x, y \in EU : x = y
        /\ nu > 1 <=> \E x, y \in EU : x # y
        /\ nu = 1 <=> EU # {} /\ \A x, y \in EU : x = y
    BY <2>4, <2>5, NoneOneOrMany
  <2>8. ClauseBook!Cardinality(EP \cup EU) = 1 <=>
          EP \cup EU # {} /\ \A x, y \in EP \cup EU : x = y
    BY <2>4, NoneOneOrMany
  <2>9. PICK wp, wu : wp = ClauseBook!winner(P) /\ wu = ClauseBook!winner(U)
    OBVIOUS
  <2>10. (P # {} => wp \in P) /\ (U # {} => wu \in U)
    BY <2>1, <2>9, WinnerIsOne
  <2>11. res = CASE P \cup U = {} -> ClauseBook!NoResolution
                 [] np > 1 -> ClauseBook!Conflict(P)
                 [] np <= 1 /\ nu > 1 -> ClauseBook!Conflict(U)
                 [] P # {} /\ U # {} /\ np = 1 /\ nu = 1
                    /\ clause[wp].expr # clause[wu].expr -> ClauseBook!Conflict({wp, wu})
                 [] OTHER -> ClauseBook!Resolved(
                               ClauseBook!winner(IF U # {} THEN U ELSE P))
    BY <1>1, <2>2, <2>5, <2>9, Zenon DEF ClauseBook!resolve_inherited_clauses
  <2>12. ClauseBook!winner(IF U # {} THEN U ELSE P) = IF U # {} THEN wu ELSE wp
    BY <2>9, Zenon
  <2>13. CASE P \cup U = {}
    <3>1. res = ClauseBook!NoResolution
      BY <2>3, <2>6, <2>7, <2>11, <2>13
    <3> QED
      BY <2>3, <2>8, <2>13, <3>1 DEF ClauseBook!NoResolution
  <2>14. CASE np > 1
    <3>1. res = ClauseBook!Conflict(P)
      BY <2>3, <2>6, <2>7, <2>11, <2>14
    <3> QED
      BY <2>2, <2>3, <2>5, <2>6, <2>8, <2>14, <3>1 DEF ClauseBook!Conflict
  <2>15. CASE np <= 1 /\ nu > 1
    <3>1. res = ClauseBook!Conflict(U)
      BY <2>3, <2>6, <2>7, <2>11, <2>15
    <3> QED
      BY <2>2, <2>3, <2>5, <2>7, <2>8, <2>15, <3>1 DEF ClauseBook!Conflict
  <2>16. CASE P # {} /\ U # {} /\ np = 1 /\ nu = 1 /\ clause[wp].expr # clause[wu].expr
    <3>1. res = ClauseBook!Conflict({wp, wu})
      BY <2>3, <2>6, <2>7, <2>11, <2>16
    <3>2. clause[wp].expr \in EP /\ clause[wu].expr \in EU
      BY <2>3, <2>10, <2>16
    <3>3. /\ clause[wp].expr \in ClauseBook!expressions({wp, wu})
          /\ clause[wu].expr \in ClauseBook!expressions({wp, wu})
      BY DEF ClauseBook!expressions
    <3>4. IsFiniteSet(ClauseBook!expressions({wp, wu}))
      BY <2>1, <2>10, <2>16, ExpressionsAreFinite
    <3>5. ClauseBook!Cardinality(ClauseBook!expressions({wp, wu})) > 1
      BY <2>16, <3>3, <3>4, NoneOneOrMany
    <3>6. ClauseBook!Cardinality(EP \cup EU) # 1
      BY <2>8, <2>16, <3>2
    <3> QED
      BY <2>3, <2>10, <2>16, <3>1, <3>5, <3>6 DEF ClauseBook!Conflict
  <2>17. CASE /\ P \cup U # {} /\ np <= 1 /\ nu <= 1
              /\ ~(P # {} /\ U # {} /\ clause[wp].expr # clause[wu].expr)
    <3>1. res = ClauseBook!Resolved(IF U # {} THEN wu ELSE wp)
      BY <2>3, <2>6, <2>7, <2>11, <2>12, <2>17
    <3>2. \A x, y \in EP \cup EU : x = y
      BY <2>3, <2>6, <2>7, <2>10, <2>17
    <3>3. EP \cup EU # {}
      BY <2>3, <2>17
    <3> QED
      BY <2>3, <2>8, <2>10, <2>17, <3>1, <3>2, <3>3 DEF ClauseBook!Resolved
  <2> QED
    BY <2>3, <2>6, <2>7, <2>13, <2>14, <2>15, <2>16, <2>17
<1> QED
  BY <1>1, Zenon DEF ClauseBook!ResolvedIsUnanimous

(* A key is resolved exactly when every clause that counts says the same,  *)
(* and a clause that has a successor never counts again, however supersede *)
(* calls and edits of drafts overlap (resolution.py:53-155,                *)
(* services.py:748-846).                                                   *)
THEOREM ClausesAreSound ==
    /\ ClauseBook!Spec => []ClauseBook!ClausesInv
    /\ MCSpec => []ClausesInv
<1>1. ClausesIndInv => ClauseBook!ClausesInv
  BY ResolutionIsUnanimous DEF ClausesIndInv, ClauseBook!ClausesInv
<1>2. ClauseBook!Spec => []ClauseBook!ClausesInv
  BY <1>1, ClausesInvariance, PTL
<1>3. MCInit => ClauseBook!Init
  BY DEF MCInit
<1>4. MCNext => [ClauseBook!Next]_(ClauseBook!vars)
  BY Zenon DEF MCNext, ClauseBook!vars, clauseVars
<1>5. UNCHANGED <<focus, vars, clauseVars, lifecycleVars>> => UNCHANGED ClauseBook!vars
  BY Zenon DEF ClauseBook!vars, clauseVars
<1>6. MCSpec => ClauseBook!Spec
  BY <1>3, <1>4, <1>5, PTL DEF MCSpec, ClauseBook!Spec
<1>7. ClauseBook!ClausesInv => ClausesInv
  BY DEF ClausesInv
<1> QED
  BY <1>2, <1>6, <1>7, PTL

(* A step of the clause service leaves the text of published clauses       *)
(* alone, and one that did not overlap another takes no BLOCKING review to *)
(* CLOSED and no CLOSED one out of it.                                     *)
LEMMA ClauseStep ==
    ClausesIndInv /\ [ClauseBook!Next]_(ClauseBook!vars) =>
        ClauseBook!PublishedTextIsFixed /\ ClauseBook!BlockingIsNotClosed
<1> SUFFICES ASSUME ClausesIndInv, [ClauseBook!Next]_(ClauseBook!vars)
             PROVE  ClauseBook!PublishedTextIsFixed /\ ClauseBook!BlockingIsNotClosed
  OBVIOUS
<1> USE DEF ClausesIndInv
<1>1. clause \in [Clauses -> ClauseBook!Clause]
  BY DEF ClauseBook!TypeOK
<1>2. clause' = clause => ClauseBook!PublishedTextIsFixed
  BY DEF ClauseBook!PublishedTextIsFixed
<1>3. ASSUME NEW r \in Callers, ClauseBook!create(r) \/ ClauseBook!supersede(r)
      PROVE  ClauseBook!PublishedTextIsFixed
  <2>1. PICK c \in Clauses :
          clause[c].state = "ABSENT" /\ \E new : clause' = [clause EXCEPT ![c] = new]
    BY <1>3, Zenon DEF ClauseBook!create, ClauseBook!supersede, ClauseBook!IsNext
  <2> QED
    BY <1>1, <2>1 DEF ClauseBook!PublishedTextIsFixed
<1>4. ASSUME NEW r \in Callers, ClauseBook!update_draft(r)
      PROVE  ClauseBook!PublishedTextIsFixed
  <2>1. PICK new : clause' = [clause EXCEPT ![task[r].clause] = new]
    BY <1>4, Zenon DEF ClauseBook!update_draft
  <2>2. clause[task[r].clause].state = "DRAFT"
    BY <1>4 DEF Knows, ClauseBook!update_draft
  <2> QED
    BY <1>1, <2>1, <2>2 DEF ClauseBook!PublishedTextIsFixed
<1>5. ASSUME NEW r \in Callers, ClauseBook!StaleOld(r)
      PROVE  ClauseBook!PublishedTextIsFixed
  <2>1. PICK new : /\ new = [task[r].copy EXCEPT !.validity = "STALE"]
                   /\ clause' = [clause EXCEPT ![task[r].clause] = new]
    BY <1>5, Zenon DEF ClauseBook!StaleOld
  <2>2. task[r].copy \in ClauseBook!Clause /\ task[r].at = "stale" /\ Knows(task[r])
    BY <1>5 DEF ClauseBook!TypeOK, ClauseBook!Task, ClauseBook!StaleOld
  <2>3. new.expr = task[r].copy.expr /\ new.state = task[r].copy.state
    BY <2>1, <2>2 DEF ClauseBook!Clause
  <2> QED
    BY <1>1, <2>1, <2>2, <2>3 DEF ClauseBook!PublishedTextIsFixed, Knows
<1>6. review' = review => ClauseBook!BlockingIsNotClosed
  BY DEF ClauseBook!BlockingIsNotClosed
<1>7. ASSUME NEW r \in Callers, ClauseBook!transition(r)
      PROVE  ClauseBook!BlockingIsNotClosed
  <2> SUFFICES ASSUME ~overlap
               PROVE  /\ review = "BLOCKING" => review' # "CLOSED"
                      /\ review = "CLOSED" => review' = "CLOSED"
    BY DEF ClauseBook!BlockingIsNotClosed
  <2>1. review' \in ClauseBook!COMPLIANCE_EDGES[review]
    BY <1>7 DEF ClauseBook!transition, ReviewIsSequential
  <2> QED
    BY <2>1 DEF ClauseBook!COMPLIANCE_EDGES
<1>8. ASSUME NEW r \in Callers, ClauseBook!ClauseRequests(r)
      PROVE  /\ ClauseBook!PublishedTextIsFixed
             /\ ClauseBook!BlockingIsNotClosed
  <2>1. CASE \/ ClauseBook!create(r) \/ ClauseBook!supersede(r)
             \/ ClauseBook!update_draft(r) \/ ClauseBook!StaleOld(r)
    <3>1. review' = review
      BY <2>1, Zenon DEF ClauseBook!create, ClauseBook!supersede,
                         ClauseBook!update_draft, ClauseBook!StaleOld
    <3> QED
      BY <1>3, <1>4, <1>5, <1>6, <2>1, <3>1
  <2>2. CASE ClauseBook!StartUpdate(r) \/ ClauseBook!StartSupersede(r)
    <3>1. review' = review /\ clause' = clause
      BY <2>2, Zenon DEF ClauseBook!StartUpdate, ClauseBook!StartSupersede,
                         ClauseBook!Start
    <3> QED
      BY <1>2, <1>6, <3>1
  <2> QED
    BY <1>8, <2>1, <2>2 DEF ClauseBook!ClauseRequests
<1>9. ASSUME NEW r \in Callers, ClauseBook!ReviewRequests(r)
      PROVE  /\ ClauseBook!PublishedTextIsFixed
             /\ ClauseBook!BlockingIsNotClosed
  <2>1. clause' = clause
    BY <1>9, Zenon DEF ClauseBook!ReviewRequests, ClauseBook!StartTransition,
                       ClauseBook!Start, ClauseBook!transition
  <2>2. CASE ClauseBook!StartTransition(r)
    <3>1. review' = review
      BY <2>2, Zenon DEF ClauseBook!StartTransition, ClauseBook!Start
    <3> QED
      BY <1>2, <1>6, <2>1, <3>1
  <2> QED
    BY <1>2, <1>7, <1>9, <2>1, <2>2 DEF ClauseBook!ReviewRequests
<1>10. CASE (\E s \in Sets : ClauseBook!ChangeSet(s)) \/ UNCHANGED ClauseBook!vars
  <2>1. clause' = clause /\ review' = review
    BY <1>10, Zenon DEF ClauseBook!ChangeSet, ClauseBook!vars
  <2> QED
    BY <1>2, <1>6, <2>1
<1> QED
  BY <1>8, <1>9, <1>10, Zenon DEF ClauseBook!Next

(* Side by side, the rules services keep both invariants. *)
LEMMA RulesTogether == MCSpec => [](PublicationIndInv /\ ClausesIndInv)
<1>1. MCInit => PublicationIndInv /\ ClausesIndInv
  BY InitInv, ClausesInit DEF MCInit
<1>2. MCNext => [Next]_vars /\ [ClauseBook!Next]_(ClauseBook!vars)
  BY Zenon DEF MCNext, ClauseBook!vars, clauseVars
<1>3. UNCHANGED <<focus, vars, clauseVars, lifecycleVars>> =>
        UNCHANGED vars /\ UNCHANGED ClauseBook!vars
  BY Zenon DEF ClauseBook!vars, clauseVars
<1>4. /\ PublicationIndInv /\ ClausesIndInv
      /\ [MCNext]_<<focus, vars, clauseVars, lifecycleVars>>
      => PublicationIndInv' /\ ClausesIndInv'
  BY <1>2, <1>3, NextInv, ClausesNext
<1> QED
  BY <1>1, <1>4, PTL DEF MCSpec

(* No step of the rules services undoes a decision: without overlaps a     *)
(* unit leaves a terminal state along the table only and a BLOCKING review *)
(* is not closed directly; and whatever overlaps, the text of a published  *)
(* clause is fixed (lifecycle.py:69-81, services.py:47-70, 331-371,        *)
(* 748-753).                                                               *)
THEOREM DecisionsAreNotUndone == MCSpec => NothingIsUndone
<1> DEFINE A == /\ TerminalIsLeftByTable
                /\ ClauseBook!PublishedTextIsFixed
                /\ ClauseBook!BlockingIsNotClosed
<1>1. MCNext => [Next]_vars /\ [ClauseBook!Next]_(ClauseBook!vars)
  BY Zenon DEF MCNext, ClauseBook!vars, clauseVars
<1>2. PublicationIndInv /\ [Next]_vars => TerminalIsLeftByTable
  <2>1. UNCHANGED vars => TerminalIsLeftByTable
    BY DEF vars, TerminalIsLeftByTable
  <2> QED
    BY <2>1, LeftByTable
<1>3. /\ PublicationIndInv /\ ClausesIndInv
      /\ [MCNext]_<<focus, vars, clauseVars, lifecycleVars>>
      => [A]_<<vars, clauseVars>>
  <2>1. PublicationIndInv /\ ClausesIndInv /\ MCNext => A
    BY <1>1, <1>2, ClauseStep
  <2>2. UNCHANGED <<focus, vars, clauseVars, lifecycleVars>> =>
          UNCHANGED <<vars, clauseVars>>
    OBVIOUS
  <2> QED
    BY <2>1, <2>2
<1> QED
  BY <1>3, RulesTogether, PTL DEF MCSpec, NothingIsUndone

-----------------------------------------------------------------------------
(* The lifecycle of the unit.                                              *)

(* The states a unit is in only after it was put up for approval, unless a *)
(* REOPENED event took it there.                                           *)
NeedsApproval ==
    Lifecycle!SUBMITTED \cup
      {"APPROVAL_PENDING", "APPROVED_CONDITIONAL", "CONDITION_CLOSURE"}

DecidedStates == {"AWARDED", "LOST", "DISQUALIFIED", "CLOSED", "ARCHIVED"}

(* What a thread doing k relies on as long as no two calls overlapped. *)
Fits(k) ==
    /\ k.at \in {"chosen", "append"} =>
         /\ k.from = last
         /\ k.to \in IF k.reopened THEN Lifecycle!reopen_targets(last)
                                   ELSE Lifecycle!allowed_targets(last)
    /\ k.at = "patch" => k.from = last
    /\ k.at = "write" => k.to = last
    /\ k.at # "write" => state = last

AskedBefore == last \in NeedsApproval /\ "resumed" \notin marks => "asked" \in marks

DecidedStays == "decided" \in marks => last \in DecidedStates

EventsAreOrdered ==
    ~raced =>
        /\ \A t, u \in Threads : Lifecycle!Busy(t) /\ Lifecycle!Busy(u) => t = u
        /\ \A t \in Threads : Lifecycle!Busy(t) => Fits(thread[t])
        /\ Lifecycle!Idle => state = last
        /\ ~forged
        /\ AskedBefore
        /\ DecidedStays

LifecycleIndInv ==
    /\ Lifecycle!TypeOK
    /\ \A t \in Threads : thread[t].at = "read" => thread[t].todo # <<>>
    /\ EventsAreOrdered

(* Commands lead to states of the table. *)
LEMMA TargetsAreStates ==
    ASSUME NEW s
    PROVE  /\ Lifecycle!allowed_targets(s) \subseteq Lifecycle!DecisionUnitLifecycleState
           /\ Lifecycle!reopen_targets(s) \subseteq Lifecycle!DecisionUnitLifecycleState
<1>1. Lifecycle!TERMINAL_STATES \subseteq Lifecycle!DecisionUnitLifecycleState
  BY DEF Lifecycle!DecisionUnitLifecycleState
<1>2. "REWORK" \in Lifecycle!DecisionUnitLifecycleState
  BY DEF Lifecycle!DecisionUnitLifecycleState, Lifecycle!BRANCHES
<1>3. s \in DOMAIN Lifecycle!BRANCHES =>
        Lifecycle!BRANCHES[s] \subseteq Lifecycle!DecisionUnitLifecycleState
  BY DEF Lifecycle!DecisionUnitLifecycleState
<1>4. Len(Lifecycle!SPINE) = 22
  BY DEF Lifecycle!SPINE
<1>5. Lifecycle!spine_successor(s) \subseteq Lifecycle!DecisionUnitLifecycleState
  BY <1>4 DEF Lifecycle!spine_successor, Lifecycle!DecisionUnitLifecycleState
<1>6. Lifecycle!EARLY_EXIT \cup {"CLOSED", "ARCHIVED"} \subseteq Lifecycle!TERMINAL_STATES
  BY DEF Lifecycle!EARLY_EXIT, Lifecycle!TERMINAL_STATES
<1>7. Lifecycle!allowed_targets(s) \subseteq Lifecycle!DecisionUnitLifecycleState
  BY <1>1, <1>2, <1>3, <1>5, <1>6 DEF Lifecycle!allowed_targets
<1> QED
  BY <1>7 DEF Lifecycle!reopen_targets

(* Every command of a list is a state. *)
LEMMA TodoFacts ==
    ASSUME NEW todo \in Lifecycle!Todo, todo # <<>>
    PROVE  Tail(todo) \in Lifecycle!Todo
<1>1. ASSUME NEW c \in Lifecycle!INTAKE_COMMANDS, todo = <<c>>
      PROVE  Tail(todo) \in Lifecycle!Todo
  BY <1>1 DEF Lifecycle!Todo
<1>2. ASSUME NEW c \in Lifecycle!INTAKE_COMMANDS,
             todo = <<"REGIME_AND_SCOPE_PENDING", c>>
      PROVE  Tail(todo) \in Lifecycle!Todo
  <2>1. Tail(todo) = <<c>>
    BY <1>2
  <2> QED
    BY <2>1 DEF Lifecycle!Todo
<1> QED
  BY <1>1, <1>2 DEF Lifecycle!Todo

(* The spine is walked one state at a time. *)
LEMMA SpineStep ==
    ASSUME NEW s, NEW u \in Lifecycle!spine_successor(s)
    PROVE  \E i \in 1..21 : s = Lifecycle!SPINE[i] /\ u = Lifecycle!SPINE[i + 1]
<1>1. Len(Lifecycle!SPINE) = 22
  BY DEF Lifecycle!SPINE
<1> QED
  BY <1>1 DEF Lifecycle!spine_successor

(* The only way into the states after the approval is the approval itself  *)
(* (lifecycle.py:83-259).                                                  *)
LEMMA ApprovalIsTheGate ==
    ASSUME NEW s, s \notin NeedsApproval,
           NEW u \in Lifecycle!allowed_targets(s), u \in NeedsApproval
    PROVE  u = "APPROVAL_PENDING"
<1>1. CASE u \in Lifecycle!spine_successor(s)
  <2>1. PICK i \in 1..21 : s = Lifecycle!SPINE[i] /\ u = Lifecycle!SPINE[i + 1]
    BY <1>1, SpineStep
  <2>2. i \in {1, 2, 3, 4, 5, 6, 7, 8, 9, 10, 11, 12, 13, 14, 15, 16, 17, 18, 19, 20, 21}
    OBVIOUS
  <2> QED
    BY <2>1, <2>2 DEF Lifecycle!SPINE, NeedsApproval, Lifecycle!SUBMITTED
<1>2. CASE s \in DOMAIN Lifecycle!BRANCHES /\ u \in Lifecycle!BRANCHES[s]
  BY <1>2 DEF Lifecycle!BRANCHES, NeedsApproval, Lifecycle!SUBMITTED
<1>3. CASE u \in Lifecycle!EARLY_EXIT \cup {"REWORK", "CLOSED", "ARCHIVED"}
  BY <1>3 DEF Lifecycle!EARLY_EXIT, NeedsApproval, Lifecycle!SUBMITTED
<1> QED
  BY <1>1, <1>2, <1>3 DEF Lifecycle!allowed_targets

(* No command leads out of the decided states (lifecycle.py:300-321). *)
LEMMA DecidedIsKept ==
    ASSUME NEW s \in DecidedStates, NEW u \in Lifecycle!allowed_targets(s)
    PROVE  u \in DecidedStates
<1>1. s \in Lifecycle!TERMINAL_STATES /\ s \notin DOMAIN Lifecycle!BRANCHES
  BY DEF DecidedStates, Lifecycle!TERMINAL_STATES, Lifecycle!BRANCHES
<1>2. u \notin Lifecycle!spine_successor(s)
  <2> SUFFICES ASSUME u \in Lifecycle!spine_successor(s) PROVE FALSE
    OBVIOUS
  <2>1. PICK i \in 1..21 : s = Lifecycle!SPINE[i]
    BY SpineStep
  <2>2. i \in {1, 2, 3, 4, 5, 6, 7, 8, 9, 10, 11, 12, 13, 14, 15, 16, 17, 18, 19, 20, 21}
    OBVIOUS
  <2> QED
    BY <2>1, <2>2 DEF Lifecycle!SPINE, DecidedStates
<1>3. u \in {"CLOSED", "ARCHIVED"}
  BY <1>1, <1>2 DEF Lifecycle!allowed_targets
<1> QED
  BY <1>3 DEF DecidedStates

(* Cancelled, closed and archived: three commands end any unit.            *)
LEMMA EveryStateIsArchivable ==
    Lifecycle!DecisionUnitLifecycleState \subseteq Lifecycle!Archivable
<1>1. {"CLOSED", "ARCHIVED"} \cup Lifecycle!CLOSABLE
        \subseteq Lifecycle!DecisionUnitLifecycleState
  BY DEF Lifecycle!DecisionUnitLifecycleState, Lifecycle!CLOSABLE,
         Lifecycle!TERMINAL_STATES, Lifecycle!BRANCHES
<1>2. {"ARCHIVED", "CLOSED"} \subseteq Lifecycle!OneStepFrom({"ARCHIVED"})
  <2>1. "ARCHIVED" \in Lifecycle!allowed_targets("CLOSED")
    BY DEF Lifecycle!allowed_targets
  <2> QED
    BY <1>1, <2>1 DEF Lifecycle!OneStepFrom
<1>3. PICK S : S = Lifecycle!OneStepFrom({"ARCHIVED"})
  OBVIOUS
<1>4. {"ARCHIVED", "CLOSED"} \cup Lifecycle!CLOSABLE \subseteq Lifecycle!OneStepFrom(S)
  <2>1. \A s \in Lifecycle!CLOSABLE : "CLOSED" \in Lifecycle!allowed_targets(s)
    BY DEF Lifecycle!allowed_targets
  <2> QED
    BY <1>1, <1>2, <1>3, <2>1 DEF Lifecycle!OneStepFrom
<1>5. PICK T : T = Lifecycle!OneStepFrom(S)
  OBVIOUS
<1>6. \A s : s \notin Lifecycle!TERMINAL_STATES =>
               "CANCELLED" \in Lifecycle!allowed_targets(s)
  BY DEF Lifecycle!allowed_targets, Lifecycle!EARLY_EXIT
<1>7. Lifecycle!TERMINAL_STATES \subseteq {"ARCHIVED", "CLOSED"} \cup Lifecycle!CLOSABLE
  BY DEF Lifecycle!TERMINAL_STATES, Lifecycle!CLOSABLE
<1>8. "CANCELLED" \in Lifecycle!CLOSABLE
  BY DEF Lifecycle!CLOSABLE
<1>9. Lifecycle!DecisionUnitLifecycleState \subseteq Lifecycle!OneStepFrom(T)
  BY <1>4, <1>5, <1>6, <1>7, <1>8 DEF Lifecycle!OneStepFrom
<1> QED
  BY <1>3, <1>5, <1>9 DEF Lifecycle!Archivable

(* The thread that does nothing. *)
LEMMA FreeIsCall ==
    /\ Lifecycle!Free \in Lifecycle!Call
    /\ Lifecycle!Free.at = "free" /\ Lifecycle!Free.todo = <<>>
    /\ "DRAFT" \in Lifecycle!DecisionUnitLifecycleState
<1>1. "DRAFT" \in Lifecycle!DecisionUnitLifecycleState
  BY DEF Lifecycle!DecisionUnitLifecycleState, Lifecycle!BRANCHES
<1> QED
  BY <1>1 DEF Lifecycle!Free, Lifecycle!Call, Lifecycle!Points, Lifecycle!Todo

(* A unit begins as a draft, with no event and no call. *)
LEMMA LifecycleInit == Lifecycle!Init => LifecycleIndInv
<1> SUFFICES ASSUME Lifecycle!Init PROVE LifecycleIndInv
  OBVIOUS
<1>1. /\ state = "DRAFT" /\ last = "DRAFT" /\ marks = {}
      /\ raced = FALSE /\ forged = FALSE
      /\ thread = [t \in Threads |-> Lifecycle!Free]
  BY DEF Lifecycle!Init
<1>2. \A t \in Threads : thread[t].at = "free"
  BY <1>1, FreeIsCall
<1>3. Lifecycle!TypeOK
  BY <1>1, FreeIsCall DEF Lifecycle!TypeOK
<1>4. AskedBefore /\ DecidedStays
  BY <1>1 DEF AskedBefore, DecidedStays, NeedsApproval, Lifecycle!SUBMITTED
<1> QED
  BY <1>1, <1>2, <1>3, <1>4
     DEF LifecycleIndInv, EventsAreOrdered, Lifecycle!Busy, Lifecycle!Idle

(* A thread goes on to k.  Either calls have overlapped, or it is the only *)
(* one and leaves behind what the next step relies on.                     *)
LEMMA ThreadMoves ==
    ASSUME LifecycleIndInv, NEW t \in Threads, NEW k \in Lifecycle!Call,
           thread' \in [Threads -> Lifecycle!Call], thread'[t] = k,
           \A u \in Threads \ {t} : /\ thread'[u].at = thread[u].at
                                    /\ thread'[u].todo = thread[u].todo,
           k.at = "read" => k.todo # <<>>,
           state' \in Lifecycle!DecisionUnitLifecycleState,
           last' \in Lifecycle!DecisionUnitLifecycleState,
           marks' \in SUBSET Lifecycle!Milestones,
           raced' \in BOOLEAN, forged' \in BOOLEAN,
           ~raced' => /\ \A u \in Threads \ {t} : thread[u].at = "free"
                      /\ Fits(k)' /\ ~forged' /\ AskedBefore' /\ DecidedStays'
                      /\ k.at = "free" => state' = last'
    PROVE  LifecycleIndInv'
<1>1. Lifecycle!TypeOK'
  BY DEF Lifecycle!TypeOK
<1>2. \A u \in Threads : thread'[u].at = "read" => thread'[u].todo # <<>>
  BY DEF LifecycleIndInv
<1>3. ASSUME ~raced'
      PROVE  /\ \A u \in Threads : Lifecycle!Busy(u)' => u = t
             /\ Lifecycle!Idle' => state' = last'
  BY <1>3 DEF Lifecycle!Busy, Lifecycle!Idle
<1>4. EventsAreOrdered'
  BY <1>3 DEF EventsAreOrdered
<1> QED
  BY <1>1, <1>2, <1>4 DEF LifecycleIndInv

(* While calls do not overlap, a thread that is busy is the only one. *)
LEMMA OnlyThread ==
    ASSUME LifecycleIndInv, NEW t \in Threads, thread[t].at # "free", ~raced
    PROVE  /\ \A u \in Threads \ {t} : thread[u].at = "free"
           /\ Fits(thread[t]) /\ ~forged /\ AskedBefore /\ DecidedStays
BY DEF LifecycleIndInv, EventsAreOrdered, Lifecycle!Busy

(* A call begins: the unit was read, and a command resolved against it. *)
LEMMA CallBegins ==
    ASSUME LifecycleIndInv, NEW t \in Threads, NEW k \in Lifecycle!Call,
           Lifecycle!Begin(t, k), UNCHANGED <<state, last, marks, forged>>,
           k.at # "free", k.at # "write", k.at = "read" => k.todo # <<>>,
           k.at \in {"chosen", "append"} =>
             /\ k.from = state
             /\ k.to \in IF k.reopened THEN Lifecycle!reopen_targets(state)
                                       ELSE Lifecycle!allowed_targets(state),
           k.at = "patch" => k.from = state
    PROVE  LifecycleIndInv'
<1>1. /\ thread' \in [Threads -> Lifecycle!Call] /\ thread'[t] = k
      /\ \A u \in Threads \ {t} : thread'[u] = thread[u]
      /\ thread[t].at = "free"
  BY DEF Lifecycle!Begin, LifecycleIndInv, Lifecycle!TypeOK
<1>2. raced' = (raced \/ \E u \in Threads : Lifecycle!Busy(u))
  BY DEF Lifecycle!Begin
<1>3. /\ raced' \in BOOLEAN /\ forged' \in BOOLEAN
      /\ state' \in Lifecycle!DecisionUnitLifecycleState
      /\ last' \in Lifecycle!DecisionUnitLifecycleState
      /\ marks' \in SUBSET Lifecycle!Milestones
  BY <1>2 DEF LifecycleIndInv, Lifecycle!TypeOK
<1>4. ASSUME ~raced'
      PROVE  /\ \A u \in Threads \ {t} : thread[u].at = "free"
             /\ Fits(k)' /\ ~forged' /\ AskedBefore' /\ DecidedStays'
  <2>1. ~raced /\ \A u \in Threads : thread[u].at = "free"
    BY <1>2, <1>4 DEF Lifecycle!Busy
  <2>2. state = last /\ ~forged /\ AskedBefore /\ DecidedStays
    BY <2>1 DEF LifecycleIndInv, EventsAreOrdered, Lifecycle!Idle, Lifecycle!Busy
  <2>3. Fits(k)'
    BY <2>2 DEF Fits
  <2> QED
    BY <2>1, <2>2, <2>3 DEF AskedBefore, DecidedStays
<1> QED
  BY <1>1, <1>3, <1>4, ThreadMoves

(* What an event does to the milestones is what the table says of its      *)
(* target.                                                                 *)
LEMMA EventIsMarked ==
    ASSUME LifecycleIndInv, NEW to, NEW reopened \in BOOLEAN,
           to \in IF reopened THEN Lifecycle!reopen_targets(last)
                              ELSE Lifecycle!allowed_targets(last),
           last' = to, marks' = Lifecycle!Mark(to, reopened),
           AskedBefore, DecidedStays
    PROVE  AskedBefore' /\ DecidedStays'
<1>1. ASSUME to \in NeedsApproval, "resumed" \notin marks' PROVE "asked" \in marks'
  <2>1. ~reopened /\ "resumed" \notin marks
    BY <1>1 DEF Lifecycle!Mark
  <2>2. to # "REWORK"
    BY <1>1 DEF NeedsApproval, Lifecycle!SUBMITTED
  <2>3. CASE to = "APPROVAL_PENDING"
    BY <2>3 DEF Lifecycle!Mark
  <2>4. CASE to # "APPROVAL_PENDING"
    <3>1. last \in NeedsApproval
      BY <1>1, <2>1, <2>4, ApprovalIsTheGate
    <3>2. "asked" \in marks
      BY <2>1, <3>1 DEF AskedBefore
    <3> QED
      BY <2>1, <2>2, <3>2 DEF Lifecycle!Mark
  <2> QED
    BY <2>3, <2>4
<1>2. ASSUME "decided" \in marks' PROVE to \in DecidedStates
  <2>1. CASE to \in {"AWARDED", "LOST", "DISQUALIFIED"}
    BY <2>1 DEF DecidedStates
  <2>2. CASE to \notin {"AWARDED", "LOST", "DISQUALIFIED"}
    <3>1. "decided" \in marks /\ ~reopened
      BY <1>2, <2>2 DEF Lifecycle!Mark
    <3>2. last \in DecidedStates /\ to \in Lifecycle!allowed_targets(last)
      BY <3>1 DEF DecidedStays
    <3> QED
      BY <3>2, DecidedIsKept
  <2> QED
    BY <2>1, <2>2
<1> QED
  BY <1>1, <1>2 DEF AskedBefore, DecidedStays

(* Every step of the lifecycle services keeps the invariant. *)
LEMMA LifecycleNext ==
    LifecycleIndInv /\ [Lifecycle!Next]_(Lifecycle!vars) => LifecycleIndInv'
<1> SUFFICES ASSUME LifecycleIndInv, [Lifecycle!Next]_(Lifecycle!vars)
             PROVE  LifecycleIndInv'
  OBVIOUS
<1>0. /\ state \in Lifecycle!DecisionUnitLifecycleState
      /\ last \in Lifecycle!DecisionUnitLifecycleState
      /\ thread \in [Threads -> Lifecycle!Call]
      /\ marks \in SUBSET Lifecycle!Milestones
      /\ raced \in BOOLEAN /\ forged \in BOOLEAN
  BY DEF LifecycleIndInv, Lifecycle!TypeOK
<1>1. ASSUME NEW t \in Threads, Lifecycle!submit(t) PROVE LifecycleIndInv'
  <2>1. PICK to \in Lifecycle!allowed_targets(state) :
          Lifecycle!Begin(t, [Lifecycle!Free EXCEPT !.at = "chosen", !.from = state,
                                                    !.to = to])
    BY <1>1, Zenon DEF Lifecycle!submit
  <2>2. PICK k : k = [Lifecycle!Free EXCEPT !.at = "chosen", !.from = state, !.to = to]
    OBVIOUS
  <2>3. to \in Lifecycle!DecisionUnitLifecycleState
    BY TargetsAreStates
  <2>4. /\ k \in Lifecycle!Call /\ k.at = "chosen" /\ k.from = state /\ k.to = to
        /\ k.reopened = FALSE
    BY <1>0, <2>2, <2>3, FreeIsCall DEF Lifecycle!Call, Lifecycle!Points, Lifecycle!Free
  <2>5. Lifecycle!Begin(t, k)
    BY <2>1, <2>2, Zenon
  <2>6. UNCHANGED <<state, last, marks, forged>>
    BY <1>1, Zenon DEF Lifecycle!submit
  <2> QED
    BY <2>4, <2>5, <2>6, CallBegins
<1>2. ASSUME NEW t \in Threads, Lifecycle!reopen(t) PROVE LifecycleIndInv'
  <2>1. PICK to \in Lifecycle!reopen_targets(state) :
          Lifecycle!Begin(t, [Lifecycle!Free EXCEPT !.at = "chosen", !.from = state,
                                                    !.to = to, !.reopened = TRUE])
    BY <1>2, Zenon DEF Lifecycle!reopen
  <2>2. PICK k : k = [Lifecycle!Free EXCEPT !.at = "chosen", !.from = state, !.to = to,
                                            !.reopened = TRUE]
    OBVIOUS
  <2>3. to \in Lifecycle!DecisionUnitLifecycleState
    BY TargetsAreStates
  <2>4. /\ k \in Lifecycle!Call /\ k.at = "chosen" /\ k.from = state /\ k.to = to
        /\ k.reopened = TRUE
    BY <1>0, <2>2, <2>3, FreeIsCall DEF Lifecycle!Call, Lifecycle!Points
  <2>5. Lifecycle!Begin(t, k)
    BY <2>1, <2>2, Zenon
  <2>6. UNCHANGED <<state, last, marks, forged>>
    BY <1>2, Zenon DEF Lifecycle!reopen
  <2> QED
    BY <2>4, <2>5, <2>6, CallBegins
<1>3. ASSUME NEW t \in Threads, Lifecycle!submit_after_intake(t) PROVE LifecycleIndInv'
  <2>1. PICK command \in Lifecycle!INTAKE_COMMANDS \ {state} :
          Lifecycle!Begin(t, [Lifecycle!Free EXCEPT !.at = "read", !.todo =
             IF state \in {"DRAFT", "DOCUMENTS_PARSING"}
             THEN <<"REGIME_AND_SCOPE_PENDING", command>> ELSE <<command>>])
    BY <1>3, Zenon DEF Lifecycle!submit_after_intake
  <2>2. PICK todo : todo = IF state \in {"DRAFT", "DOCUMENTS_PARSING"}
                           THEN <<"REGIME_AND_SCOPE_PENDING", command>> ELSE <<command>>
    BY Zenon
  <2>3. todo \in Lifecycle!Todo /\ todo # <<>>
    BY <2>2 DEF Lifecycle!Todo
  <2>4. PICK k : k = [Lifecycle!Free EXCEPT !.at = "read", !.todo = todo]
    OBVIOUS
  <2>5. k \in Lifecycle!Call /\ k.at = "read" /\ k.todo = todo
    BY <2>3, <2>4, FreeIsCall DEF Lifecycle!Call, Lifecycle!Points
  <2>6. Lifecycle!Begin(t, k)
    BY <2>1, <2>2, <2>4, Zenon
  <2>7. UNCHANGED <<state, last, marks, forged>>
    BY <1>3, Zenon DEF Lifecycle!submit_after_intake
  <2> QED
    BY <2>3, <2>5, <2>6, <2>7, CallBegins
<1>4. ASSUME NEW t \in Threads, Lifecycle!StartPatch(t) PROVE LifecycleIndInv'
  <2>1. PICK k : k = [Lifecycle!Free EXCEPT !.at = "patch", !.from = state]
    OBVIOUS
  <2>2. k \in Lifecycle!Call /\ k.at = "patch" /\ k.from = state
    BY <1>0, <2>1, FreeIsCall DEF Lifecycle!Call, Lifecycle!Points
  <2>3. Lifecycle!Begin(t, k) /\ UNCHANGED <<state, last, marks, forged>>
    BY <1>4, <2>1, Zenon DEF Lifecycle!StartPatch
  <2> QED
    BY <2>2, <2>3, CallBegins
<1>5. ASSUME NEW t \in Threads, Lifecycle!SubmitNext(t) PROVE LifecycleIndInv'
  <2>1. /\ thread[t].at = "read"
        /\ thread' = [thread EXCEPT ![t] =
             IF Head(thread[t].todo) \in Lifecycle!allowed_targets(state)
             THEN [Lifecycle!Free EXCEPT !.at = "chosen", !.from = state,
                     !.to = Head(thread[t].todo), !.todo = Tail(thread[t].todo)]
             ELSE Lifecycle!Free]
        /\ UNCHANGED <<state, last, marks, raced, forged>>
    BY <1>5, Zenon DEF Lifecycle!SubmitNext
  <2>2. /\ thread[t] \in Lifecycle!Call /\ thread[t].todo \in Lifecycle!Todo
        /\ thread[t].todo # <<>>
    BY <1>0, <2>1 DEF LifecycleIndInv, Lifecycle!Call
  <2>3. Tail(thread[t].todo) \in Lifecycle!Todo
    BY <2>2, TodoFacts
  <2>4. PICK to : to = Head(thread[t].todo)
    OBVIOUS
  <2>5. PICK k : k = IF to \in Lifecycle!allowed_targets(state)
                     THEN [Lifecycle!Free EXCEPT !.at = "chosen", !.from = state,
                             !.to = to, !.todo = Tail(thread[t].todo)]
                     ELSE Lifecycle!Free
    BY Zenon
  <2>6. k \in Lifecycle!Call /\ k.at \in {"free", "chosen"}
    <3>1. CASE to \in Lifecycle!allowed_targets(state)
      <4>1. to \in Lifecycle!DecisionUnitLifecycleState
        BY <3>1, TargetsAreStates
      <4> QED
        BY <1>0, <2>3, <2>5, <3>1, <4>1, FreeIsCall DEF Lifecycle!Call, Lifecycle!Points
    <3>2. CASE to \notin Lifecycle!allowed_targets(state)
      BY <2>5, <3>2, FreeIsCall
    <3> QED
      BY <3>1, <3>2
  <2>7. k.at = "chosen" => /\ k.from = state /\ k.reopened = FALSE
                           /\ k.to \in Lifecycle!allowed_targets(state)
    BY <2>5, FreeIsCall DEF Lifecycle!Free
  <2>8. thread' = [thread EXCEPT ![t] = k]
    BY <2>1, <2>4, <2>5, Zenon
  <2>9. /\ thread' \in [Threads -> Lifecycle!Call] /\ thread'[t] = k
        /\ \A u \in Threads \ {t} : thread'[u] = thread[u]
    BY <1>0, <2>6, <2>8
  <2>10. ASSUME ~raced'
         PROVE  /\ \A u \in Threads \ {t} : thread[u].at = "free"
                /\ Fits(k)' /\ ~forged' /\ AskedBefore' /\ DecidedStays'
                /\ state' = last'
    <3>1. /\ \A u \in Threads \ {t} : thread[u].at = "free"
          /\ Fits(thread[t]) /\ ~forged /\ AskedBefore /\ DecidedStays
      BY <2>1, <2>10, OnlyThread
    <3>2. state = last
      BY <2>1, <3>1 DEF Fits
    <3>3. Fits(k)'
      BY <2>1, <2>6, <2>7, <3>2 DEF Fits
    <3> QED
      BY <2>1, <3>1, <3>2, <3>3 DEF AskedBefore, DecidedStays
  <2> QED
    BY <1>0, <2>1, <2>6, <2>9, <2>10, ThreadMoves
<1>6. ASSUME NEW t \in Threads, Lifecycle!Number(t) PROVE LifecycleIndInv'
  <2>1. /\ thread[t].at = "chosen"
        /\ thread' = [thread EXCEPT ![t].at = "append", ![t].fresh = TRUE]
        /\ UNCHANGED <<state, last, marks, raced, forged>>
    BY <1>6 DEF Lifecycle!Number
  <2>2. PICK k : k = [thread[t] EXCEPT !.at = "append", !.fresh = TRUE]
    OBVIOUS
  <2>3. /\ k \in Lifecycle!Call /\ k.at = "append" /\ k.from = thread[t].from
        /\ k.to = thread[t].to /\ k.reopened = thread[t].reopened
    BY <1>0, <2>2 DEF Lifecycle!Call, Lifecycle!Points
  <2>4. /\ thread' \in [Threads -> Lifecycle!Call] /\ thread'[t] = k
        /\ \A u \in Threads \ {t} : thread'[u] = thread[u]
    BY <1>0, <2>1, <2>2, <2>3
  <2>5. ASSUME ~raced'
        PROVE  /\ \A u \in Threads \ {t} : thread[u].at = "free"
               /\ Fits(k)' /\ ~forged' /\ AskedBefore' /\ DecidedStays'
    <3>1. /\ \A u \in Threads \ {t} : thread[u].at = "free"
          /\ Fits(thread[t]) /\ ~forged /\ AskedBefore /\ DecidedStays
      BY <2>1, <2>5, OnlyThread
    <3>2. Fits(k)'
      BY <2>1, <2>3, <3>1 DEF Fits
    <3> QED
      BY <2>1, <3>1, <3>2 DEF AskedBefore, DecidedStays
  <2> QED
    BY <1>0, <2>1, <2>3, <2>4, <2>5, ThreadMoves
<1>7. ASSUME NEW t \in Threads, Lifecycle!AppendEvent(t) PROVE LifecycleIndInv'
  <2>1. thread[t].at = "append" /\ UNCHANGED <<state, raced>>
    BY <1>7, Zenon DEF Lifecycle!AppendEvent
  <2>2. thread[t] \in Lifecycle!Call
    BY <1>0
  <2>3. CASE UniqueSequence /\ ~thread[t].fresh
    <3>1. /\ thread' = [thread EXCEPT ![t] = Lifecycle!Free]
          /\ UNCHANGED <<last, marks, forged>>
      BY <1>7, <2>3, Zenon DEF Lifecycle!AppendEvent
    <3>2. /\ thread' \in [Threads -> Lifecycle!Call] /\ thread'[t] = Lifecycle!Free
          /\ \A u \in Threads \ {t} : thread'[u] = thread[u]
      BY <1>0, <3>1, FreeIsCall
    <3>3. ASSUME ~raced'
          PROVE  /\ \A u \in Threads \ {t} : thread[u].at = "free"
                 /\ Fits(Lifecycle!Free)' /\ ~forged' /\ AskedBefore' /\ DecidedStays'
                 /\ state' = last'
      <4>1. /\ \A u \in Threads \ {t} : thread[u].at = "free"
            /\ Fits(thread[t]) /\ ~forged /\ AskedBefore /\ DecidedStays
        BY <2>1, <3>3, OnlyThread
      <4>2. state = last
        BY <2>1, <4>1 DEF Fits
      <4>3. Fits(Lifecycle!Free)'
        BY <2>1, <3>1, <4>2 DEF Fits, Lifecycle!Free
      <4> QED
        BY <2>1, <3>1, <4>1, <4>2, <4>3 DEF AskedBefore, DecidedStays
    <3> QED
      BY <1>0, <2>1, <3>1, <3>2, <3>3, FreeIsCall, ThreadMoves
  <2>4. CASE ~(UniqueSequence /\ ~thread[t].fresh)
    <3>1. /\ thread' = [u \in Threads |->
               IF u = t THEN [thread[t] EXCEPT !.at = "write"]
                        ELSE [thread[u] EXCEPT !.fresh = FALSE]]
          /\ last' = thread[t].to
          /\ marks' = Lifecycle!Mark(thread[t].to, thread[t].reopened)
          /\ forged' = (forged \/ thread[t].from # last)
      BY <1>7, <2>4, Zenon DEF Lifecycle!AppendEvent
    <3>2. PICK k : k = [thread[t] EXCEPT !.at = "write"]
      OBVIOUS
    <3>3. k \in Lifecycle!Call /\ k.at = "write" /\ k.to = thread[t].to
      BY <2>2, <3>2 DEF Lifecycle!Call, Lifecycle!Points
    <3>4. thread'[t] = k
      BY <3>1, <3>2, Zenon
    <3>5. ASSUME NEW u \in Threads \ {t}
          PROVE  /\ thread'[u] \in Lifecycle!Call
                 /\ thread'[u].at = thread[u].at /\ thread'[u].todo = thread[u].todo
      <4>1. thread'[u] = [thread[u] EXCEPT !.fresh = FALSE] /\ thread[u] \in Lifecycle!Call
        BY <1>0, <3>1, Zenon
      <4> QED
        BY <4>1 DEF Lifecycle!Call
    <3>6. thread' \in [Threads -> Lifecycle!Call]
      <4>1. thread' = [u \in Threads |-> thread'[u]]
        BY <3>1, Zenon
      <4> QED
        BY <3>3, <3>4, <3>5, <4>1
    <3>7. /\ last' \in Lifecycle!DecisionUnitLifecycleState
          /\ thread[t].reopened \in BOOLEAN
      BY <2>2, <3>1 DEF Lifecycle!Call
    <3>8. marks' \in SUBSET Lifecycle!Milestones
      BY <1>0, <3>1 DEF Lifecycle!Mark, Lifecycle!Milestones
    <3>9. forged' \in BOOLEAN
      BY <3>1
    <3>10. ASSUME ~raced'
           PROVE  /\ \A u \in Threads \ {t} : thread[u].at = "free"
                  /\ Fits(k)' /\ ~forged' /\ AskedBefore' /\ DecidedStays'
      <4>1. /\ \A u \in Threads \ {t} : thread[u].at = "free"
            /\ Fits(thread[t]) /\ ~forged /\ AskedBefore /\ DecidedStays
        BY <2>1, <3>10, OnlyThread
      <4>2. /\ thread[t].from = last
            /\ thread[t].to \in IF thread[t].reopened
                                THEN Lifecycle!reopen_targets(last)
                                ELSE Lifecycle!allowed_targets(last)
        BY <2>1, <4>1 DEF Fits
      <4>3. AskedBefore' /\ DecidedStays'
        BY <3>1, <3>7, <4>1, <4>2, EventIsMarked
      <4>4. Fits(k)'
        BY <3>1, <3>3 DEF Fits
      <4> QED
        BY <3>1, <4>1, <4>2, <4>3, <4>4
    <3> QED
      BY <1>0, <2>1, <3>3, <3>4, <3>5, <3>6, <3>7, <3>8, <3>9, <3>10, ThreadMoves
  <2> QED
    BY <2>3, <2>4
<1>8. ASSUME NEW t \in Threads, Lifecycle!Write(t) PROVE LifecycleIndInv'
  <2>1. /\ thread[t].at = "write" /\ state' = thread[t].to
        /\ thread' = [thread EXCEPT ![t] =
             IF thread[t].todo = <<>> THEN Lifecycle!Free
             ELSE [Lifecycle!Free EXCEPT !.at = "read", !.todo = thread[t].todo]]
        /\ UNCHANGED <<last, marks, raced, forged>>
    BY <1>8, Zenon DEF Lifecycle!Write
  <2>2. /\ thread[t].to \in Lifecycle!DecisionUnitLifecycleState
        /\ thread[t].todo \in Lifecycle!Todo
    BY <1>0 DEF Lifecycle!Call
  <2>3. PICK k : k = IF thread[t].todo = <<>> THEN Lifecycle!Free
                     ELSE [Lifecycle!Free EXCEPT !.at = "read", !.todo = thread[t].todo]
    BY Zenon
  <2>4. /\ k \in Lifecycle!Call /\ k.at \in {"free", "read"}
        /\ k.at = "read" => k.todo # <<>>
    <3>1. CASE thread[t].todo = <<>>
      BY <2>3, <3>1, FreeIsCall
    <3>2. CASE thread[t].todo # <<>>
      BY <2>2, <2>3, <3>2, FreeIsCall DEF Lifecycle!Call, Lifecycle!Points
    <3> QED
      BY <3>1, <3>2
  <2>5. thread' = [thread EXCEPT ![t] = k]
    BY <2>1, <2>3, Zenon
  <2>6. /\ thread' \in [Threads -> Lifecycle!Call] /\ thread'[t] = k
        /\ \A u \in Threads \ {t} : thread'[u] = thread[u]
    BY <1>0, <2>4, <2>5
  <2>7. ASSUME ~raced'
        PROVE  /\ \A u \in Threads \ {t} : thread[u].at = "free"
               /\ Fits(k)' /\ ~forged' /\ AskedBefore' /\ DecidedStays'
               /\ state' = last'
    <3>1. /\ \A u \in Threads \ {t} : thread[u].at = "free"
          /\ Fits(thread[t]) /\ ~forged /\ AskedBefore /\ DecidedStays
      BY <2>1, <2>7, OnlyThread
    <3>2. state' = last'
      BY <2>1, <3>1 DEF Fits
    <3>3. Fits(k)'
      BY <2>4, <3>2 DEF Fits
    <3> QED
      BY <2>1, <3>1, <3>2, <3>3 DEF AskedBefore, DecidedStays
  <2> QED
    BY <1>0, <2>1, <2>2, <2>4, <2>6, <2>7, ThreadMoves
<1>9. ASSUME NEW t \in Threads, Lifecycle!update_draft(t) PROVE LifecycleIndInv'
  <2>1. /\ thread[t].at = "patch" /\ state' = thread[t].from
        /\ thread' = [thread EXCEPT ![t] = Lifecycle!Free]
        /\ UNCHANGED <<last, marks, raced, forged>>
    BY <1>9 DEF Lifecycle!update_draft
  <2>2. thread[t].from \in Lifecycle!DecisionUnitLifecycleState
    BY <1>0 DEF Lifecycle!Call
  <2>3. /\ thread' \in [Threads -> Lifecycle!Call] /\ thread'[t] = Lifecycle!Free
        /\ \A u \in Threads \ {t} : thread'[u] = thread[u]
    BY <1>0, <2>1, FreeIsCall
  <2>4. ASSUME ~raced'
        PROVE  /\ \A u \in Threads \ {t} : thread[u].at = "free"
               /\ Fits(Lifecycle!Free)' /\ ~forged' /\ AskedBefore' /\ DecidedStays'
               /\ state' = last'
    <3>1. /\ \A u \in Threads \ {t} : thread[u].at = "free"
          /\ Fits(thread[t]) /\ ~forged /\ AskedBefore /\ DecidedStays
      BY <2>1, <2>4, OnlyThread
    <3>2. state' = last'
      BY <2>1, <3>1 DEF Fits
    <3>3. Fits(Lifecycle!Free)'
      BY <3>2 DEF Fits, Lifecycle!Free
    <3> QED
      BY <2>1, <3>1, <3>2, <3>3 DEF AskedBefore, DecidedStays
  <2> QED
    BY <1>0, <2>1, <2>2, <2>3, <2>4, FreeIsCall, ThreadMoves
<1>10. CASE UNCHANGED Lifecycle!vars
  BY <1>10 DEF Lifecycle!vars, LifecycleIndInv, Lifecycle!TypeOK, EventsAreOrdered,
               Lifecycle!Busy, Lifecycle!Idle, Fits, AskedBefore, DecidedStays
<1> QED
  BY <1>1, <1>2, <1>3, <1>4, <1>5, <1>6, <1>7, <1>8, <1>9, <1>10 DEF Lifecycle!Next

(* What is proved of the unit's lifecycle rests on this invariant, for any *)
(* number of threads and with either repository.                           *)
THEOREM LifecycleInvariance == Lifecycle!Spec => []LifecycleIndInv
BY LifecycleInit, LifecycleNext, PTL DEF Lifecycle!Spec

(* Without overlaps the events form a chain that ends in the unit's state, *)
(* what is submitted was put up for approval and what is decided stays     *)
(* decided; and from every state three commands archive the unit           *)
(* (lifecycle.py:69-321, services.py:518-539).                             *)
THEOREM LifecycleIsSound ==
    /\ Lifecycle!Spec => []Lifecycle!LifecycleInv
    /\ MCSpec => []LifecycleInv
<1>1. LifecycleIndInv => Lifecycle!LifecycleInv
  <2> SUFFICES ASSUME LifecycleIndInv PROVE Lifecycle!LifecycleInv
    OBVIOUS
  <2>1. Lifecycle!TypeOK /\ EventsAreOrdered
    BY DEF LifecycleIndInv
  <2>2. Lifecycle!EventsExplainState
    BY <2>1 DEF EventsAreOrdered, Lifecycle!EventsExplainState
  <2>3. Lifecycle!ApprovalBeforeSubmission
    BY <2>1 DEF EventsAreOrdered, AskedBefore, NeedsApproval,
                Lifecycle!ApprovalBeforeSubmission
  <2>4. Lifecycle!OutcomeIsFinal
    BY <2>1 DEF EventsAreOrdered, DecidedStays, DecidedStates, Lifecycle!OutcomeIsFinal
  <2>5. Lifecycle!NoDeadEnds
    BY <2>1, EveryStateIsArchivable DEF Lifecycle!TypeOK, Lifecycle!NoDeadEnds
  <2> QED
    BY <2>1, <2>2, <2>3, <2>4, <2>5 DEF Lifecycle!LifecycleInv
<1>2. Lifecycle!Spec => []Lifecycle!LifecycleInv
  BY <1>1, LifecycleInvariance, PTL
<1>3. MCInit => Lifecycle!Init
  BY DEF MCInit
<1>4. MCNext => [Lifecycle!Next]_(Lifecycle!vars)
  BY Zenon DEF MCNext, Lifecycle!vars, lifecycleVars
<1>5. UNCHANGED <<focus, vars, clauseVars, lifecycleVars>> => UNCHANGED Lifecycle!vars
  BY Zenon DEF Lifecycle!vars, lifecycleVars
<1>6. MCSpec => Lifecycle!Spec
  BY <1>3, <1>4, <1>5, PTL DEF MCSpec, Lifecycle!Spec
<1>7. Lifecycle!LifecycleInv => LifecycleInv
  BY DEF LifecycleInv
<1> QED
  BY <1>2, <1>6, <1>7, PTL

=============================================================================
