------------------------------- MODULE Solver -------------------------------
(***************************************************************************)
(* The SAT solver: conflict-driven clause learning with two watched        *)
(* literals in a clause, binary clauses kept only in the watch lists, and  *)
(* restarts. Constraints gives it clauses without negation, the solver's   *)
(* own main any clauses; nobody passes assumptions, so root_level is 0.    *)
(*                                                                         *)
(* Left open, because no property depends on it: which literal is decided, *)
(* in which order a watch list is visited, what the activities and the     *)
(* counters of propagations decide about upkeep of the database.           *)
(***************************************************************************)
EXTENDS Integers, Sequences, FiniteSets, HittingSets

CONSTANTS
  NVars,      (* bound: variables                                          *)
  Address,    (* bound: where clauses can be allocated                     *)
  Formulas,   (* problems: sequences of clauses, sets of literals          *)
  MaxUpkeep   (* bound: restarts and reductions of the learnt clauses      *)

Var == 1 .. NVars
Lit == Var \cup {- x : x \in Var}
var(p) == IF p > 0 THEN p ELSE - p

ASSUME SolverAssumption ==
  /\ NVars \in Nat /\ MaxUpkeep \in Nat
  /\ Formulas \subseteq Seq(SUBSET Lit)

VARIABLES
  input,                  (* clauses still to be added                     *)
  problem,                (* those added                                   *)
  at,                     (* where newClause, solve and search are         *)
  ok,                     (* FALSE: the clauses are contradictory          *)
  nVars,                  (* variables made                                *)
  clause,                 (* the clauses allocated                         *)
  watches,                (* what to visit when a literal becomes true     *)
  assigns, level, reason, (* the value of a variable, and why it has it    *)
  trail, trail_lim,       (* the true literals in order; where levels begin*)
  qhead, todo,            (* literals propagated; rest of the list at hand *)
  order,                  (* variables in the heap of the decision order   *)
  simpDB_assigns,         (* literals looked at by simplifyDB              *)
  seen, look, index,      (* analyze: variables seen, literals to look at, *)
  out_learnt, asserting,  (* the clause made, and its literal for ~p       *)
  model,                  (* the solution found                            *)
  upkeep                  (* restarts and reductions so far                *)

assignment == <<assigns, level, reason, trail, trail_lim, qhead, order>>
database == <<clause, watches, simpDB_assigns>>
analysis == <<seen, look, index, out_learnt, asserting>>
given == <<input, problem, nVars>>
vars == <<given, at, ok, database, assignment, todo, analysis, model, upkeep>>

-----------------------------------------------------------------------------
(* assigns has the literal of a variable that is true, and l_Undef.        *)
l_Undef == 0
IsTrue(p) == assigns[var(p)] = p
IsFalse(p) == assigns[var(p)] = - p
IsUndef(p) == assigns[var(p)] = l_Undef

decisionLevel == Len(trail_lim)

(* A GClause: a literal (of a binary clause), an allocated clause or NULL. *)
Literal(p) == <<"lit", p>>
Pointer(c) == <<"clause", c>>
NULL == <<"null">>
GClauses == {Literal(p) : p \in Lit} \cup {Pointer(c) : c \in Address} \cup {NULL}

(* A clause in memory: literals 0 and 1, which are watched, and the rest.  *)
Clauses == [learnt : BOOLEAN, first : Lit, second : Lit, rest : SUBSET Lit]
Free == [learnt |-> FALSE, first |-> 0, second |-> 0, rest |-> {}]
Allocated == {c \in Address : clause[c] # Free}
Lits(c) == {clause[c].first, clause[c].second} \cup clause[c].rest

(* ~ index() of two literals: the order in which sortUnique leaves them.   *)
Before(p, q) == var(p) < var(q) \/ (var(p) = var(q) /\ p > q)
FirstOf(S) == CHOOSE p \in S : \A q \in S \ {p} : Before(p, q)

enqueue(p, from) ==
  /\ assigns' = [assigns EXCEPT ![var(p)] = p]
  /\ level' = [level EXCEPT ![var(p)] = decisionLevel]
  /\ reason' = [reason EXCEPT ![var(p)] = from]
  /\ trail' = Append(trail, p)
  /\ UNCHANGED <<trail_lim, qhead, order>>

(* The watches of the two-literal clause p, q, and of a clause c that      *)
(* watches p and q.                                                        *)
WatchBinary(p, q) ==
  watches' = [watches EXCEPT ![- p] = @ \cup {Literal(q)}, ![- q] = @ \cup {Literal(p)}]
Allocate(c, learnt, p, q, rest) ==
  /\ clause' = [clause EXCEPT ![c] = [learnt |-> learnt, first |-> p, second |-> q, rest |-> rest]]
  /\ watches' = [watches EXCEPT ![- p] = @ \cup {Pointer(c)}, ![- q] = @ \cup {Pointer(c)}]
NextAddress == CHOOSE c \in Address : clause[c] = Free

-----------------------------------------------------------------------------
(* addClause: newClause for a clause ps of the problem, after newVar for   *)
(* its variables. Nothing is propagated yet, but units are assigned.       *)

newVar(ps) ==
  LET n == CHOOSE n \in nVars .. NVars :
             /\ \A p \in ps : var(p) <= n
             /\ n = nVars \/ \E p \in ps : var(p) = n
  IN  /\ nVars' = n
      /\ order' = order \cup (nVars + 1) .. n

Satisfied(ps) == \E p \in ps : - p \in ps \/ IsTrue(p)
Remaining(ps) == {p \in ps : ~ IsFalse(p)}

AddSatisfied(ps) ==
  /\ ~ ok \/ Satisfied(ps)
  /\ UNCHANGED <<ok, database, assigns, level, reason, trail>>

AddEmpty(ps) ==
  /\ ok /\ ~ Satisfied(ps)
  /\ Remaining(ps) = {}
  /\ ok' = FALSE
  /\ UNCHANGED <<database, assigns, level, reason, trail>>

AddUnit(ps) ==
  /\ ok /\ ~ Satisfied(ps)
  /\ \E p \in Lit :
        /\ Remaining(ps) = {p}
        /\ assigns' = [assigns EXCEPT ![var(p)] = p]
        /\ level' = [level EXCEPT ![var(p)] = 0]
        /\ reason' = [reason EXCEPT ![var(p)] = NULL]
        /\ trail' = Append(trail, p)
  /\ UNCHANGED <<ok, database>>

AddBinary(ps) ==
  /\ ok /\ ~ Satisfied(ps)
  /\ Cardinality(Remaining(ps)) = 2
  /\ LET p == FirstOf(Remaining(ps))
         q == FirstOf(Remaining(ps) \ {p})
     IN  WatchBinary(p, q)
  /\ UNCHANGED <<ok, clause, simpDB_assigns, assigns, level, reason, trail>>

AddLong(ps) ==
  /\ ok /\ ~ Satisfied(ps)
  /\ Cardinality(Remaining(ps)) > 2
  /\ Allocated # Address
  /\ LET p == FirstOf(Remaining(ps))
         q == FirstOf(Remaining(ps) \ {p})
     IN  Allocate(NextAddress, FALSE, p, q, Remaining(ps) \ {p, q})
  /\ UNCHANGED <<ok, simpDB_assigns, assigns, level, reason, trail>>

addClause ==
  /\ at = "adding" /\ input # <<>>
  /\ input' = Tail(input)
  /\ problem' = problem \cup {Head(input)}
  /\ newVar(Head(input))
  /\ \/ AddSatisfied(Head(input))
     \/ AddEmpty(Head(input))
     \/ AddUnit(Head(input))
     \/ AddBinary(Head(input))
     \/ AddLong(Head(input))
  /\ UNCHANGED <<at, trail_lim, qhead, todo, analysis, model, upkeep>>

-----------------------------------------------------------------------------
(* propagate: qhead is the number of literals taken off the queue, so the  *)
(* last of them is the one at hand; todo is what is left of its list.      *)

Quiet == todo = {} /\ qhead = Len(trail)

(* solve; an unsatisfiable input is found out by its first simplifyDB.     *)
solve ==
  /\ at = "adding" /\ input = <<>>
  /\ at' = IF ok THEN "propagate" ELSE "unsatisfiable"
  /\ UNCHANGED <<given, ok, database, assignment, todo, analysis, model, upkeep>>

Dequeue ==
  /\ at = "propagate"
  /\ todo = {} /\ qhead < Len(trail)
  /\ qhead' = qhead + 1
  /\ todo' = watches[trail[qhead + 1]]
  /\ UNCHANGED <<given, at, ok, database, assigns, level, reason, trail, trail_lim, order,
                 analysis, model, upkeep>>

(* The clause of a watch, with the false literal as its second one; the    *)
(* mutant leaves the literals as they are.                                 *)
Unturned(c) == clause[c]
Turned(c) ==
  LET k == clause[c]
      false_lit == - trail[qhead]
  IN  IF k.first = false_lit THEN [k EXCEPT !.first = k.second, !.second = false_lit] ELSE k

(* What a watch wants to be true, and the others of its clause.            *)
First(w) == IF w[1] = "lit" THEN w[2] ELSE Turned(w[2]).first
Rest(w) == IF w[1] = "lit" THEN {} ELSE Turned(w[2]).rest
Turn(w) == clause' = IF w[1] = "lit" THEN clause ELSE [clause EXCEPT ![w[2]] = Turned(w[2])]

KeepWatch(w) ==
  /\ IsTrue(First(w))
  /\ Turn(w)
  /\ UNCHANGED <<at, ok, watches, assignment, analysis>>

NewWatch(w) ==
  /\ ~ IsTrue(First(w))
  /\ \E q \in Rest(w) :
        /\ ~ IsFalse(q)
        /\ LET c == w[2]
               false_lit == - trail[qhead]
           IN  /\ clause' = [clause EXCEPT ![c] = [Turned(c) EXCEPT
                                !.second = q, !.rest = (@ \ {q}) \cup {false_lit}]]
               /\ watches' = [watches EXCEPT ![- false_lit] = @ \ {w}, ![- q] = @ \cup {w}]
  /\ UNCHANGED <<at, ok, assignment, analysis>>

UnitUnder(w) == \A q \in Rest(w) : IsFalse(q)

Imply(w) ==
  /\ IsUndef(First(w)) /\ UnitUnder(w)
  /\ Turn(w)
  /\ enqueue(First(w), IF w[1] = "lit" THEN Literal(trail[qhead]) ELSE w)
  /\ UNCHANGED <<at, ok, watches, analysis>>

Visit(w) ==
  /\ at = "propagate" /\ w \in todo
  /\ todo' = todo \ {w}
  /\ KeepWatch(w) \/ NewWatch(w) \/ Imply(w)
  /\ UNCHANGED <<given, simpDB_assigns, model, upkeep>>

(* The queue is dropped. At the root the clauses are contradictory, else   *)
(* search goes on with analyze.                                            *)
Conflict(w) ==
  /\ at = "propagate" /\ w \in todo
  /\ IsFalse(First(w)) /\ UnitUnder(w)
  /\ Turn(w)
  /\ todo' = {}
  /\ qhead' = Len(trail)
  /\ IF decisionLevel = 0
     THEN /\ ok' = FALSE
          /\ at' = "unsatisfiable"
          /\ UNCHANGED analysis
     ELSE /\ at' = "analyze"
          /\ look' = {First(w), - trail[qhead]} \cup Rest(w)
          /\ index' = Len(trail)
          /\ UNCHANGED <<ok, seen, out_learnt, asserting>>
  /\ UNCHANGED <<given, watches, simpDB_assigns, assigns, level, reason, trail, trail_lim, order,
                 model, upkeep>>

-----------------------------------------------------------------------------
(* analyze: a turn of its loop. Variables of the current level are counted *)
(* (pathC), the literals of lower levels go into the learnt clause, and    *)
(* the reason of the last variable seen is next, until it is the only one. *)

(* Literals 1, 2, ... of a reason; that of a binary clause stands there    *)
(* without the negation it has in the clause. The mutant ends too early.   *)
OthersButLast(r) ==
  CASE r[1] = "lit"    -> {r[2]}
    [] r[1] = "clause" -> {clause[r[2]].second}
    [] r[1] = "null"   -> {}
Others(r) ==
  CASE r[1] = "lit"    -> {r[2]}
    [] r[1] = "clause" -> {clause[r[2]].second} \cup clause[r[2]].rest
    [] r[1] = "null"   -> {}

Marked == {q \in look : var(q) \notin seen /\ level[var(q)] > 0}
LastSeen == CHOOSE i \in 1 .. index :
              /\ var(trail[i]) \in seen \cup {var(q) : q \in Marked}
              /\ \A j \in i + 1 .. index : var(trail[j]) \notin seen \cup {var(q) : q \in Marked}

analyze ==
  /\ at = "analyze"
  /\ LET p == trail[LastSeen]
         marks == (seen \cup {var(q) : q \in Marked}) \ {var(p)}
         pathC == {x \in marks : level[x] = decisionLevel}
     IN  /\ out_learnt' = out_learnt \cup {q \in Marked : level[var(q)] < decisionLevel}
         /\ seen' = marks
         /\ index' = LastSeen - 1
         /\ look' = Others(reason[var(p)])
         /\ IF pathC = {} THEN at' = "learn" /\ asserting' = - p
            ELSE UNCHANGED <<at, asserting>>
  /\ UNCHANGED <<given, ok, database, assignment, todo, model, upkeep>>

(* A literal is left out of the learnt clause when the others imply it:    *)
(* analyze_removable goes back from it through reasons to variables of     *)
(* the clause, within the levels of the clause, kept in a word of 32 bits. *)
Antecedents(x) == {var(q) : q \in Others(reason[x])}
LearntVars == {var(q) : q \in out_learnt}
Redundant ==
  UNION {R \in SUBSET {x \in Var : /\ assigns[x] # l_Undef /\ reason[x] # NULL
                                   /\ \E y \in LearntVars : (level[x] - level[y]) % 32 = 0} :
           \A x \in R : \A y \in Antecedents(x) : level[y] = 0 \/ y \in LearntVars \/ y \in R}
Minimized == {q \in out_learnt : var(q) \notin Redundant}

-----------------------------------------------------------------------------
(* cancelUntil, with VarOrder::undo. Mutants: the variables are not put    *)
(* back into the heap; the queue keeps its place in the longer trail, or   *)
(* begins after the learnt literal.                                        *)

NotUndone(heap, U) == heap
undo(heap, U) == heap \cup U

Kept(n) == IF decisionLevel > n THEN trail_lim[n + 1] ELSE Len(trail)
Undone(n) == {var(trail[i]) : i \in Kept(n) + 1 .. Len(trail)}
SamePlace(n) == qhead
PastLearnt(n) == Kept(n) + 1
QueueFrom(n) == Kept(n)

cancelUntil(n, heap) ==
  /\ assigns' = [x \in Var |-> IF x \in Undone(n) THEN l_Undef ELSE assigns[x]]
  /\ reason' = [x \in Var |-> IF x \in Undone(n) THEN NULL ELSE reason[x]]
  /\ order' = undo(heap, Undone(n))
  /\ trail' = SubSeq(trail, 1, Kept(n))
  /\ trail_lim' = SubSeq(trail_lim, 1, n)
  /\ qhead' = QueueFrom(n)
  /\ UNCHANGED level

(* cancelUntil, then enqueue of the learnt clause's literal, at level l.   *)
cancelAndEnqueue(n, p, from, l) ==
  /\ assigns' = [x \in Var |-> IF x = var(p) THEN p
                               ELSE IF x \in Undone(n) THEN l_Undef ELSE assigns[x]]
  /\ level' = [level EXCEPT ![var(p)] = l]
  /\ reason' = [x \in Var |-> IF x = var(p) THEN from
                              ELSE IF x \in Undone(n) THEN NULL ELSE reason[x]]
  /\ order' = undo(order, Undone(n))
  /\ trail' = Append(SubSeq(trail, 1, Kept(n)), p)
  /\ trail_lim' = SubSeq(trail_lim, 1, n)
  /\ qhead' = QueueFrom(n)

(* The end of the conflict branch of search: minimization, backjump to the *)
(* highest level of the literals that were in the clause, and newClause    *)
(* for the learnt clause. A unit is a fact of level 0.                     *)
out_btlevel == CHOOSE n \in {0} \cup {level[x] : x \in LearntVars} : \A x \in LearntVars : level[x] <= n

(* Mutant: the fact is forgotten.                                          *)
ForgetUnit ==
  /\ Minimized = {}
  /\ cancelUntil(out_btlevel, order)
  /\ UNCHANGED <<clause, watches>>
LearnUnit ==
  /\ Minimized = {}
  /\ cancelAndEnqueue(out_btlevel, asserting, NULL, 0)
  /\ UNCHANGED <<clause, watches>>

LearnBinary ==
  /\ Cardinality(Minimized) = 1
  /\ \E q \in Minimized :
        /\ WatchBinary(asserting, q)
        /\ cancelAndEnqueue(out_btlevel, asserting, Literal(- q), out_btlevel)
  /\ UNCHANGED clause

(* The second watch is on a literal of the highest level.                  *)
Highest == {q \in Minimized : \A r \in Minimized : level[var(r)] <= level[var(q)]}

LearnLong ==
  /\ Cardinality(Minimized) > 1
  /\ Allocated # Address
  /\ \E q \in Highest :
        Allocate(NextAddress, TRUE, asserting, q, Minimized \ {q})
  /\ cancelAndEnqueue(out_btlevel, asserting, Pointer(NextAddress), out_btlevel)

Learn ==
  /\ at = "learn"
  /\ at' = "propagate"
  /\ LearnUnit \/ LearnBinary \/ LearnLong
  /\ seen' = {} /\ look' = {} /\ index' = 0 /\ out_learnt' = {} /\ asserting' = 0
  /\ UNCHANGED <<given, ok, todo, simpDB_assigns, model, upkeep>>

-----------------------------------------------------------------------------
(* search when there is no conflict.                                       *)

(* The bound on conflicts is reached: search begins again.                 *)
Restart ==
  /\ at = "propagate" /\ Quiet
  /\ decisionLevel > 0 /\ upkeep < MaxUpkeep
  /\ cancelUntil(0, order)
  /\ upkeep' = upkeep + 1
  /\ UNCHANGED <<given, at, ok, database, todo, analysis, model>>

locked(c) == reason[var(clause[c].first)] = Pointer(c)

(* remove: the clauses of D are freed, and taken out of the watch lists L. *)
(* Their two lists hold them or are empty (ListsHoldTheirClauses).         *)
Remove(D, L) ==
  /\ clause' = [c \in Address |-> IF c \in D THEN Free ELSE clause[c]]
  /\ watches' = [p \in Lit |-> L[p] \ {Pointer(c) : c \in D}]

(* simplifyDB at the root: the lists of the new facts are cleared, binary  *)
(* clauses that are satisfied also taken out of their other list, and the  *)
(* other clauses that are satisfied removed, unless they are reasons. It   *)
(* is done when there are new facts and, by the count of propagations      *)
(* simpDB_props, enough work since the last time.                          *)
NewFacts == {trail[i] : i \in simpDB_assigns + 1 .. Len(trail)}

simplifyDB ==
  /\ at = "propagate" /\ Quiet
  /\ decisionLevel = 0
  /\ at' = "decide"
  /\ \/ UNCHANGED database
     \/ /\ NewFacts # {}
        /\ Remove({c \in Allocated : ~ locked(c) /\ \E p \in Lits(c) : IsTrue(p)},
                  [p \in Lit |-> IF p \in NewFacts \/ - p \in NewFacts THEN {}
                                 ELSE watches[p] \ {Literal(q) : q \in NewFacts}])
        /\ simpDB_assigns' = Len(trail)
  /\ UNCHANGED <<given, ok, assignment, todo, analysis, model, upkeep>>

Deciding == at = "decide" \/ (at = "propagate" /\ Quiet /\ decisionLevel > 0)

(* Mutant: reasons are freed too.                                          *)
ReducibleAll == {c \in Allocated : clause[c].learnt}
Reducible == {c \in Allocated : clause[c].learnt /\ ~ locked(c)}

(* Learnt clauses of low activity, when there are many.                    *)
reduceDB ==
  /\ Deciding
  /\ upkeep < MaxUpkeep
  /\ \E D \in (SUBSET Reducible) \ {{}} : Remove(D, watches)
  /\ upkeep' = upkeep + 1
  /\ UNCHANGED <<given, at, ok, simpDB_assigns, assignment, todo, analysis, model>>

(* VarOrder::select: a random variable, or the heap's first one that is    *)
(* undefined; those before it are taken out too.                           *)
Undefined == {x \in 1 .. nVars : assigns[x] = l_Undef}
Select(x) ==
  \/ /\ order # {} /\ x \in Undefined
     /\ order' = order
  \/ /\ x \in Undefined \cap order
     /\ \E S \in SUBSET (order \ Undefined) : order' = order \ (S \cup {x})

(* assume(~Lit(next)): a decision is for false; the mutant's for true.     *)
SignTrue(x) == x
Sign(x) == - x

Decide ==
  /\ Deciding
  /\ at' = "propagate"
  /\ \E x \in Var :
        /\ Select(x)
        /\ trail_lim' = Append(trail_lim, Len(trail))
        /\ assigns' = [assigns EXCEPT ![x] = Sign(x)]
        /\ level' = [level EXCEPT ![x] = decisionLevel + 1]
        /\ reason' = [reason EXCEPT ![x] = NULL]
        /\ trail' = Append(trail, Sign(x))
  /\ UNCHANGED <<given, ok, database, qhead, todo, analysis, model, upkeep>>

ModelFound ==
  /\ Deciding
  /\ order \cap Undefined = {}
  /\ at' = "satisfiable"
  /\ model' = assigns
  /\ cancelUntil(0, {})
  /\ UNCHANGED <<given, ok, database, todo, analysis, upkeep>>

-----------------------------------------------------------------------------
Init ==
  /\ input \in Formulas
  /\ problem = {} /\ nVars = 0
  /\ at = "adding" /\ ok = TRUE
  /\ clause = [c \in Address |-> Free]
  /\ watches = [p \in Lit |-> {}]
  /\ simpDB_assigns = 0
  /\ assigns = [x \in Var |-> l_Undef]
  /\ level = [x \in Var |-> -1]
  /\ reason = [x \in Var |-> NULL]
  /\ trail = <<>> /\ trail_lim = <<>>
  /\ qhead = 0 /\ todo = {}
  /\ order = {}
  /\ seen = {} /\ look = {} /\ index = 0 /\ out_learnt = {} /\ asserting = 0
  /\ model = [x \in Var |-> l_Undef]
  /\ upkeep = 0

(* One thread, so the next step is always one of the loop at hand.         *)
Next ==
  \/ addClause \/ solve
  \/ Dequeue
  \/ \E w \in GClauses : Visit(w) \/ Conflict(w)
  \/ analyze \/ Learn
  \/ Restart \/ simplifyDB \/ reduceDB \/ Decide \/ ModelFound

Spec == Init /\ [][Next]_vars
FairSpec == Spec /\ WF_vars(Next)

-----------------------------------------------------------------------------
(* Properties.                                                             *)

TypeOK ==
  /\ at \in {"adding", "propagate", "analyze", "learn", "decide", "satisfiable", "unsatisfiable"}
  /\ ok \in BOOLEAN /\ nVars \in 0 .. NVars /\ upkeep \in 0 .. MaxUpkeep
  /\ input \in Seq(SUBSET Lit) /\ problem \subseteq SUBSET Lit
  /\ clause \in [Address -> Clauses \cup {Free}]
  /\ watches \in [Lit -> SUBSET (GClauses \ {NULL})]
  /\ simpDB_assigns \in Nat
  /\ assigns \in [Var -> Lit \cup {l_Undef}]
  /\ level \in [Var -> Nat \cup {-1}]
  /\ reason \in [Var -> GClauses]
  /\ trail \in Seq(Lit) /\ trail_lim \in Seq(Nat)
  /\ qhead \in 0 .. Len(trail) /\ todo \subseteq GClauses \ {NULL}
  /\ order \subseteq Var
  /\ seen \subseteq Var /\ look \subseteq Lit /\ index \in 0 .. Len(trail)
  /\ out_learnt \subseteq Lit /\ asserting \in Lit \cup {0}
  /\ model \in [Var -> Lit \cup {l_Undef}]

(* Where the literal of x, which has a value, is in the trail.             *)
Position(x) == CHOOSE i \in 1 .. Len(trail) : trail[i] = assigns[x]

(***************************************************************************)
(* Why a variable has its value: the other literals of its reason became   *)
(* false before, and the last of them at its own level. The reason is      *)
(* still allocated and has the literal in front. On this rests that the    *)
(* literal of a binary reason, which is kept without its negation, never   *)
(* goes into a learnt clause (enqueue, propagate, newClause, cancelUntil,  *)
(* reduceDB).                                                              *)
(***************************************************************************)
ReasonsAreUnit ==
  \A x \in Var :
    LET r == reason[x]
    IN  r # NULL =>
          /\ assigns[x] # l_Undef
          /\ r[1] = "lit" => IsTrue(r[2])
          /\ r[1] = "clause" => /\ clause[r[2]].first = assigns[x]
                                /\ \A q \in Others(r) : IsFalse(q)
          /\ \A y \in Antecedents(x) : Position(y) < Position(x) /\ level[y] <= level[x]
          /\ \E y \in Antecedents(x) : level[y] = level[x]

(***************************************************************************)
(* When the queue is empty and there is no conflict, propagation has       *)
(* missed nothing: a clause, given or learnt, is satisfied or has two     *)
(* literals that are not false, also after a backjump, a restart or the    *)
(* removal of clauses (propagate, cancelUntil, simplifyDB, reduceDB).      *)
(***************************************************************************)
PropagationComplete ==
  Deciding => \A ps \in problem \cup {Lits(c) : c \in Allocated} :
     \/ \E p \in ps : IsTrue(p) \/ - p \in ps
     \/ \E p, q \in ps : p # q /\ IsUndef(p) /\ IsUndef(q)

(* An assignment of all variables, as the set of its true literals.        *)
Assignments == {{IF f[x] THEN x ELSE - x : x \in Var} : f \in [Var -> BOOLEAN]}
Satisfies(A, clauses) == \A ps \in clauses : ps \cap A # {}
Implied(ps) == \A A \in Assignments : Satisfies(A, problem) => ps \cap A # {}

(***************************************************************************)
(* What analyze makes is a consequence of the problem, is false, and has   *)
(* one literal of the current level, so it is unit after the backjump; and *)
(* that is to the level of a literal it keeps ("'out_learnt[0]' is the     *)
(* asserting literal at level 'out_btlevel'", analyze). A turn of its loop *)
(* always has a reason to look at.                                         *)
(***************************************************************************)
LearntIsAsserting ==
  /\ at = "analyze" => look # {}
  /\ at = "learn" =>
       /\ Implied(Minimized \cup {asserting})
       /\ IsFalse(asserting) /\ level[var(asserting)] = decisionLevel
       /\ \A q \in out_learnt : IsFalse(q) /\ level[var(q)] < decisionLevel
       /\ out_btlevel = 0 \/ \E q \in Minimized : level[var(q)] = out_btlevel

(***************************************************************************)
(* No freed clause is in a watch list or is a reason, and a clause that    *)
(* has to be taken out of its lists is in both, unless they were cleared   *)
(* ("'elem' must exists in 'ws' OR 'ws' must be empty", removeWatch).      *)
(***************************************************************************)
Watched(w, p) == w \in watches[p] \/ watches[p] = {}
ListsHoldTheirClauses ==
  /\ \A p \in Lit : \A w \in watches[p] :
        IF w[1] = "lit" THEN Watched(Literal(- p), - w[2])
        ELSE clause[w[2]] # Free /\ - p \in {clause[w[2]].first, clause[w[2]].second}
  /\ \A x \in Var : reason[x][1] = "clause" => clause[reason[x][2]] # Free
  /\ \A c \in Allocated : Watched(Pointer(c), - clause[c].first) /\ Watched(Pointer(c), - clause[c].second)

(***************************************************************************)
(* The answer is right: unsatisfiable only when nothing satisfies the      *)
(* clauses; and a model gives every variable a value and satisfies them    *)
(* (solve, search).                                                        *)
(***************************************************************************)
VerdictIsRight ==
  /\ at = "unsatisfiable" => \A A \in Assignments : ~ Satisfies(A, problem)
  /\ at = "satisfiable" =>
        /\ \A x \in 1 .. nVars : model[x] # l_Undef
        /\ Satisfies({model[x] : x \in Var}, problem)

(***************************************************************************)
(* Constraints adds no negated literal. Then there is never a conflict,    *)
(* and because decisions are for false the model is one of the sets that   *)
(* Merge counts on: no literal of it can be left out (AddToSolver, Solve). *)
(***************************************************************************)
IsPositive == \A ps \in problem : ps \subseteq Var /\ ps # {}
ModelIsMinimal ==
  IsPositive =>
    /\ at \notin {"analyze", "learn", "unsatisfiable"}
    /\ at = "satisfiable" => {x \in Var : model[x] = x} \in Solutions(problem)

(***************************************************************************)
(* solve returns: no conflict is met twice, and search does not decide the *)
(* same thing for ever (search, within MaxUpkeep restarts and reductions). *)
(***************************************************************************)
Terminates == <>(at \in {"satisfiable", "unsatisfiable"})
=============================================================================
