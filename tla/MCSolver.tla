------------------------------ MODULE MCSolver ------------------------------
(***************************************************************************)
(* Problems for the solver: what Constraints may add for three literals,   *)
(* and clauses with negation as a DIMACS file may have them.               *)
(***************************************************************************)
EXTENDS Solver

(* All problems of three clauses over three literals, none negated.        *)
Positives == [1 .. 3 -> SUBSET (1 .. 3) \ {{}}]

(* The eight clauses over three literals: conflicts at every level; and   *)
(* the same without the last, which has a model.                          *)
Unsatisfiable == <<{1, 2, 3}, {1, 2, -3}, {1, -2, 3}, {1, -2, -3},
                   {-1, 2, 3}, {-1, 2, -3}, {-1, -2, 3}, {-1, -2, -3}>>
Satisfiable == SubSeq(Unsatisfiable, 1, 7)

(* Long learnt clauses, some of which are made shorter.                    *)
Long == <<{1, 2}, {-2, 3, 5}, {-2, -3, 4}, {-4, -3, 5, 1}, {1, -5, -4}>>

(* Long learnt clauses that are no reason any more when more are learnt.   *)
Many == <<{-5, -3, 1}, {-2, -1, 5}, {-4, -3, -1, 5}, {-2, 1, 3}, {2, 3, 4}, {2, -4}, {-3, 4}>>

(* Facts, tautologies, clauses that are empty, satisfied or contradictory  *)
(* when they are added, or found to be so by the first propagation.        *)
Facts == {<<{4}, {1, -1}, {-4, 2, 3}, {4, 1}, {-2, 1}, {-3, 1}, {-1, 2, -3}>>,
          <<{1}, {-1}, {2, 3}>>,
          <<{1, 2}, {}, {3}>>,
          <<{1}, {-2}, {3, 2, -1}, {-3, -1}, {-3, 4, 5}>>,
          <<{1, 2, 3}, {-1, 4}, {-2, 4}, {-3, 4}, {-4, 5, 2}, {-5}>>}

Problems == Positives \cup {Unsatisfiable, Satisfiable, Long, Many} \cup Facts
=============================================================================
