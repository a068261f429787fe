------------------------------ MODULE Routing ------------------------------
(***************************************************************************)
(* Who owns a case when it opens (app/services/coordination/routing.py):   *)
(* the loop over the rows of table routing_rules, which an unordered query *)
(* returns in any order.                                                   *)
(***************************************************************************)
EXTENDS Integers, Sequences

CONSTANT None  \* SQL NULL: a filter that is a wildcard, an alert without provider

\* _SEVERITY_ORDER.
Severity == [info |-> 0, low |-> 1, medium |-> 2, high |-> 3, critical |-> 4]

Admits(filter, value) == filter = None \/ filter = value

\* The row's filters let an alert pass.
Matches(rule, alert) ==
  /\ Admits(rule.provider, alert.provider)
  /\ Admits(rule.area, alert.area)
  /\ Admits(rule.type, alert.type)
  /\ Severity[rule.minimum] <= Severity[alert.severity]

\* Mutant: priority is compared first.
BeatsByPriority(rule, best) == rule.priority < best.priority

Specificity(rule) ==
  (IF rule.provider # None THEN 2 ELSE 0) + (IF rule.area # None THEN 1 ELSE 0)

\* The key (specificity, -priority) of the row is greater.
Beats(rule, best) ==
  \/ Specificity(rule) > Specificity(best)
  \/ Specificity(rule) = Specificity(best) /\ rule.priority < best.priority

\* One turn of the loop.
Consider(best, rule, alert) ==
  IF Matches(rule, alert) /\ (best = None \/ Beats(rule, best)) THEN rule ELSE best

\* The first row no other beats.
BestRule(rows, alert) ==
  LET best[i \in 0..Len(rows)] ==
        IF i = 0 THEN None ELSE Consider(best[i - 1], rows[i], alert)
  IN best[Len(rows)]

\* resolve_routing: the best rule's role, and a fallback if none matches.
TargetRole(rows, alert) ==
  LET best == BestRule(rows, alert)
  IN IF best = None THEN "field_officer" ELSE best.role

-----------------------------------------------------------------------------
(* The precedence the module states: provider and area, then provider, then *)
(* area, then neither; within one, the lowest priority.                     *)

Level(rules, provider, area) ==
  {r \in rules : (r.provider # None) = provider /\ (r.area # None) = area}

Leading(rules) == {r \in rules : \A q \in rules : r.priority <= q.priority}

\* The rules that may decide about an alert: more than one only on a tie.
ByPrecedence(rules, alert) ==
  LET matching == {r \in rules : Matches(r, alert)}
      levels == <<Level(matching, TRUE, TRUE), Level(matching, TRUE, FALSE),
                  Level(matching, FALSE, TRUE), Level(matching, FALSE, FALSE)>>
  IN UNION {Leading(levels[i]) : i \in {j \in 1..4 : \A k \in 1..(j - 1) : levels[k] = {}}}

OwnersByPrecedence(rules, alert) ==
  LET deciding == ByPrecedence(rules, alert) IN
  IF deciding = {} THEN {"field_officer"} ELSE {r.role : r \in deciding}
=============================================================================
