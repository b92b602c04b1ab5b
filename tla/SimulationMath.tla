----------------------------- MODULE SimulationMath ----------------------------
(***************************************************************************)
(* The pure functions of the simulation (modules/simulation/domain): the   *)
(* ranking and selection of candidates, coverage, merging, and the static  *)
(* validation of a candidate.  A behaviour picks an input, a question, and *)
(* answers it.  Decimal amounts are integers in a fixed unit.              *)
(***************************************************************************)
EXTENDS Integers, Sequences, FiniteSets

CONSTANTS
    MaxCandidates,  \* bound on the candidates of a run
    MaxAmount,      \* bound on costs and margins
    Names           \* parameter names of a candidate, the two below included

VARIABLES question, answer

mathVars == <<question, answer>>

AwardMode == {"SINGLE", "MULTI", "NONE"}

ObjectiveKind == {"COST_MIN", "MARGIN_MAX", "COVERAGE_MAX", "RISK_MIN"}

-----------------------------------------------------------------------------
(* Ranking and selection.                                                  *)

(* A candidate; its id decides ties. *)
SimulationCandidate == [id : 1..MaxCandidates, cost : 1..MaxAmount,
                        margin : 1..MaxAmount]

(* Four times the score of the code. *)
Score(c, objective) ==
    CASE objective = "COST_MIN" -> -4 * c.cost
      [] objective = "MARGIN_MAX" -> 4 * c.margin
      [] objective = "COVERAGE_MAX" -> 4 * c.margin - c.cost
      [] objective = "RISK_MIN" -> 4 * c.margin - 2 * c.cost

(* The sort key: the score, and the id where scores tie. *)
Better(c, d, objective) ==
    \/ Score(c, objective) > Score(d, objective)
    \/ Score(c, objective) = Score(d, objective) /\ c.id < d.id

(* The element of a finite set with k - 1 others ahead of it.              *)
Kth(S, ahead, k) == CHOOSE i \in S : Cardinality({j \in S : <<j, i>> \in ahead}) = k - 1

rank_candidates(candidates, objective) ==
    LET places == DOMAIN candidates
        ahead == {p \in places \X places :
                    Better(candidates[p[1]], candidates[p[2]], objective)}
    IN  [k \in 1..Len(candidates) |-> candidates[Kth(places, ahead, k)]]

(* At most so many are selected; NONE takes every one that clears. *)
AwardLimit(mode, n) == CASE mode = "SINGLE" -> 1
                         [] mode = "MULTI" -> 4
                         [] mode = "NONE" -> n

(* The items at some places of a list, in the order of the list. *)
ItemsAt(list, places) ==
    LET ahead == {p \in places \X places : p[1] < p[2]}
    IN  [k \in 1..Cardinality(places) |-> list[Kth(places, ahead, k)]]

(* Mutant: the limit is taken before the threshold. *)
select_limit_first(ranked, threshold, mode) ==
    ItemsAt(ranked, {i \in DOMAIN ranked : /\ ranked[i].margin >= threshold
                                           /\ i <= AwardLimit(mode, Len(ranked))})

(* The loop passes over what does not clear and ends at the limit. *)
select_objective_candidates(ranked, threshold, mode) ==
    LET clear == {i \in DOMAIN ranked : ranked[i].margin >= threshold}
    IN  ItemsAt(ranked, {i \in clear : Cardinality({j \in clear : j < i})
                                         < AwardLimit(mode, Len(ranked))})

-----------------------------------------------------------------------------
(* Coverage, merging, static validation.                                   *)

(* Whether the coverage of counted of total scenarios is undefined; the    *)
(* threshold is in tenths, and an empty set is refused before.             *)
coverage_undefined(total, counted, threshold) ==
    counted <= 0 \/ counted * 10 < threshold * total

chain_blocked(ids, tau_b, tau_m) ==
    \E i \in 1..(Len(ids) - 1) : ids[i + 1] # ids[i] /\ tau_b + tau_m > 10

(* Tenths again.  A request that is refused stores nothing. *)
merge_assessments(ids, linkage, tau_b, tau_m) ==
    CASE \/ linkage # "complete"
         \/ Len(ids) \notin 1..4
         \/ tau_b \notin 0..10
         \/ tau_m \notin 0..10
         \/ \E i, j \in DOMAIN ids : i # j /\ ids[i] = ids[j] -> "refused"
      [] OTHER -> IF chain_blocked(ids, tau_b, tau_m)
                  THEN "blocked" ELSE "accepted"

(* Whether a candidate passes. *)
validate_candidate(c, ctx) ==
    /\ ctx.mandatory \subseteq c.params
    /\ c.params \subseteq ctx.axes
    /\ c.params \cap ctx.rules \cap {"FORBIDDEN", "REVOKED"} = {}
    /\ ctx.revoked \cap c.params = {}
    /\ c.cost <= ctx.budget /\ c.margin >= ctx.floor

StaticValidationContext ==
    [mandatory : {{}, {"bid"}}, axes : SUBSET Names,
     rules : SUBSET {"FORBIDDEN", "REVOKED"}, revoked : SUBSET Names,
     budget : 1..2, floor : 1..2]

-----------------------------------------------------------------------------
(* Questions and answers.                                                  *)

Candidates(n) ==
    {[i \in 1..n |-> [id |-> i, cost |-> cost[i], margin |-> margin[i]]] :
        cost, margin \in [1..n -> 1..MaxAmount]}

SelectionQuestion(q) ==
    \E n \in 0..MaxCandidates, objective \in ObjectiveKind, mode \in AwardMode,
       threshold \in 1..(MaxAmount + 1) : \E c \in Candidates(n) :
        q = [kind |-> "select", candidates |-> c, objective |-> objective,
             mode |-> mode, threshold |-> threshold]

CoverageQuestion(q) ==
    \E total \in 1..4, counted \in 0..4, threshold \in 0..10 :
        /\ counted <= total
        /\ q = [kind |-> "coverage", total |-> total, counted |-> counted,
                threshold |-> threshold]

MergeQuestion(q) ==
    \E n \in 0..5, linkage \in {"complete", "single"}, tau_b, tau_m \in {-1, 0, 4, 6, 10, 11} :
        \E ids \in [1..n -> 1..2] \cup {[i \in 1..n |-> i]} :
            q = [kind |-> "merge", ids |-> ids, linkage |-> linkage,
                 tau_b |-> tau_b, tau_m |-> tau_m]

ValidationQuestion(q) ==
    \E params \in SUBSET Names, cost, margin \in 1..2,
       ctx \in StaticValidationContext :
        q = [kind |-> "validate", ctx |-> ctx, candidate |->
              [params |-> params, cost |-> cost, margin |-> margin]]

Unanswered == [kind |-> "none", value |-> <<>>]

Init ==
    /\ answer = Unanswered
    /\ \/ SelectionQuestion(question)
       \/ CoverageQuestion(question)
       \/ MergeQuestion(question)
       \/ ValidationQuestion(question)

Select ==
    /\ question.kind = "select"
    /\ answer' = [kind |-> "select", value |->
         select_objective_candidates(
             rank_candidates(question.candidates, question.objective),
             question.threshold, question.mode)]

Cover ==
    /\ question.kind = "coverage"
    /\ answer' = [kind |-> "coverage", value |->
         coverage_undefined(question.total, question.counted, question.threshold)]

Merge ==
    /\ question.kind = "merge"
    /\ answer' = [kind |-> "merge", value |->
         merge_assessments(question.ids, question.linkage, question.tau_b,
                           question.tau_m)]

Validate ==
    /\ question.kind = "validate"
    /\ answer' = [kind |-> "validate", value |->
         validate_candidate(question.candidate, question.ctx)]

Next ==
    /\ answer = Unanswered
    /\ Select \/ Cover \/ Merge \/ Validate
    /\ UNCHANGED question

Spec == Init /\ [][Next]_mathVars

-----------------------------------------------------------------------------
(* Properties.                                                             *)

(* The selection is the best there is: it takes only candidates that clear *)
(* the threshold, as many of them as the mode lets it, none that is worse  *)
(* than one left out, and the same ones however the input is ordered       *)
(* (domain/optimization.py:96-165).                                        *)
SelectionIsBest ==
    answer.kind = "select" =>
        LET s == answer.value
            all == question.candidates
            In(c) == \E i \in DOMAIN s : s[i] = c
            clear == {i \in DOMAIN all : all[i].margin >= question.threshold}
            limit == AwardLimit(question.mode, Len(all))
        IN  /\ \A i \in DOMAIN s : s[i].margin >= question.threshold
            /\ Len(s) = IF Cardinality(clear) <= limit
                        THEN Cardinality(clear) ELSE limit
            /\ \A i \in clear, j \in DOMAIN s : ~In(all[i]) =>
                 Score(all[i], question.objective) <= Score(s[j], question.objective)
            /\ s = select_objective_candidates(
                     rank_candidates([i \in DOMAIN all |-> all[Len(all) + 1 - i]],
                                     question.objective),
                     question.threshold, question.mode)

(* Coverage is undefined with no scenario counted, even at a threshold of  *)
(* zero, is defined with all of them counted, and one more counted         *)
(* scenario never makes it undefined (domain/probability.py:84-107).       *)
CoverageEdges ==
    answer.kind = "coverage" =>
        /\ question.counted = 0 => answer.value
        /\ question.counted = question.total => ~answer.value
        /\ ~answer.value =>
             ~coverage_undefined(question.total, question.counted + 1,
                                 question.threshold)

(* An accepted merge joins at most four different candidates, and if it    *)
(* joins two the thresholds together stay within one; the order of the     *)
(* candidates never matters (domain/merge.py:48-116).                      *)
MergeNeverChains ==
    answer.kind = "merge" =>
        LET n == Len(question.ids)
        IN  /\ answer.value = "accepted" =>
                 /\ Cardinality({question.ids[i] : i \in 1..n}) = n
                 /\ n \in 1..4
                 /\ n > 1 => question.tau_b + question.tau_m <= 10
            /\ answer.value =
                 merge_assessments([i \in 1..n |-> question.ids[n + 1 - i]],
                     question.linkage, question.tau_b, question.tau_m)

(* A candidate that passes still passes with fewer rules, revocations and  *)
(* mandatory fields, more axes and a larger budget: no check rewards a     *)
(* tighter context                                                         *)
(* (domain/static_validation.py:54-77).                                    *)
StaticIsMonotone ==
    (answer.kind = "validate" /\ answer.value) =>
        \A ctx \in StaticValidationContext :
            (/\ ctx.mandatory \subseteq question.ctx.mandatory
             /\ question.ctx.axes \subseteq ctx.axes
             /\ ctx.rules \subseteq question.ctx.rules
             /\ ctx.revoked \subseteq question.ctx.revoked
             /\ ctx.budget >= question.ctx.budget
             /\ ctx.floor <= question.ctx.floor)
              => validate_candidate(question.candidate, ctx)

(* Every answer of the pure functions meets its reference                  *)
(* (domain/optimization.py:96-165, domain/probability.py:84-107).          *)
MathInv ==
    /\ SelectionIsBest
    /\ CoverageEdges
    /\ MergeNeverChains
    /\ StaticIsMonotone

=============================================================================
