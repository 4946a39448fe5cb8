---------------------------- MODULE MCRecurrence ----------------------------
(***************************************************************************)
(* Instances of Recurrence for TLC: a rule that ends, one that ends before *)
(* it starts, and a transfer scheduled once, without a rule.               *)
(***************************************************************************)
EXTENDS Recurrence

CONSTANTS ends, early, once

Overlapping == {ends, early}
FirstOf(X) == [x \in X |-> IF x = early THEN 2 ELSE 1]
EndsOf(X) ==
  [x \in X |-> CASE x = ends -> 2 [] x = early -> 1 [] OTHER -> Horizon]

OverlappingFirst == FirstOf(Overlapping)
OverlappingEnds == EndsOf(Overlapping)
OnceTemplates == {once}
OnceFirst == FirstOf(OnceTemplates)
OnceEnds == EndsOf(OnceTemplates)

=============================================================================
