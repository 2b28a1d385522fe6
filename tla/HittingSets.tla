----------------------------- MODULE HittingSets -----------------------------
(***************************************************************************)
(* What the synthesis wants of a solution of its clauses, sets of literals *)
(* none of which is negated: a set that hits every clause, and no smaller  *)
(* one does. Constraints uses it for the result of the solver, Solver has  *)
(* the algorithm that computes one.                                        *)
(***************************************************************************)

Hits(L, clauses) == \A c \in clauses : c \cap L # {}

Solutions(clauses) ==
  {L \in SUBSET UNION clauses : Hits(L, clauses) /\ \A l \in L : ~ Hits(L \ {l}, clauses)}
=============================================================================
