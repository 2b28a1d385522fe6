---------------------------- MODULE SolverProofs ----------------------------
(***************************************************************************)
(* Proofs about the SAT solver, for any formulas, any number of variables  *)
(* and addresses, any bound on the upkeep.                                 *)
(*                                                                         *)
(* The invariant IInv says what holds between two steps of the loops. Sound*)
(* is the part of it that speaks only of the trail, the reasons, the       *)
(* clauses and the watch lists, each given explicitly, so that a lemma can *)
(* follow it through the parts of one step: Pushed assigns a literal, CutTo*)
(* goes back to a level; SwapTo, MoveTo, AllocateTo, BinaryTo, RemoveTo and*)
(* ClearTo change clauses and lists. The rest is about the queue (QueueOK, *)
(* TodoOK, WatchOK), the heap, analyze, where the loops are, and clauses   *)
(* without negation (PositiveOK).                                          *)
(***************************************************************************)
EXTENDS Solver, SequenceTheorems, FiniteSetTheorems, WellFoundedInduction, TLAPS

(* The trail holds the true literals, each once.                           *)
TrailOK(as, tr) ==
  /\ \A i \in 1 .. Len(tr) : as[var(tr[i])] = tr[i]
  /\ \A i, j \in 1 .. Len(tr) : tr[i] = tr[j] => i = j
  /\ \A x \in Var : as[x] # l_Undef => var(as[x]) = x /\ \E i \in 1 .. Len(tr) : tr[i] = as[x]

(* trail_lim cuts it into levels, none of which is empty but perhaps 0.    *)
LevelsOK(lv, tr, tl) ==
  /\ \A k \in 1 .. Len(tl) : tl[k] < Len(tr)
  /\ \A j, k \in 1 .. Len(tl) : j < k => tl[j] < tl[k]
  /\ \A i \in 1 .. Len(tr) :
       /\ lv[var(tr[i])] \in 0 .. Len(tl)
       /\ \A k \in 1 .. Len(tl) : k <= lv[var(tr[i])] <=> tl[k] < i

(* A literal above level 0 without a reason begins its level.              *)
DecisionsOK(lv, rs, tr, tl) ==
  \A i \in 1 .. Len(tr) :
    lv[var(tr[i])] > 0 /\ rs[var(tr[i])] = NULL => i = tl[lv[var(tr[i])]] + 1

(* What is not propagated yet is of the current level.                     *)
QueueOK(lv, tr, tl, qh, td) ==
  /\ td # {} => qh > 0
  /\ \A i \in 1 .. Len(tr) : i > qh \/ (i = qh /\ td # {}) => lv[var(tr[i])] = Len(tl)

(* Others, of the clauses cl.                                              *)
OthersIn(r, cl) ==
  CASE r[1] = "lit"    -> {r[2]}
    [] r[1] = "clause" -> {cl[r[2]].second} \cup cl[r[2]].rest
    [] r[1] = "null"   -> {}

(* The i-th literal of the trail was the only one left of its reason r, and*)
(* the last other one to become false did so at the same level.            *)
ReasonOK(as, lv, tr, cl, r, i) ==
  /\ r[1] = "lit" => as[var(r[2])] = r[2]
  /\ r[1] = "clause" => /\ cl[r[2]] # Free
                        /\ cl[r[2]].first = tr[i]
                        /\ \A q \in OthersIn(r, cl) : as[var(q)] = - q
  /\ \A q \in OthersIn(r, cl) : \E j \in 1 .. i - 1 : var(tr[j]) = var(q)
  /\ \E q \in OthersIn(r, cl) : lv[var(q)] = lv[var(tr[i])]

ReasonsOK(as, lv, rs, tr, cl) ==
  /\ \A x \in Var : rs[x] # NULL => as[x] # l_Undef
  /\ \A i \in 1 .. Len(tr) : rs[var(tr[i])] # NULL => ReasonOK(as, lv, tr, cl, rs[var(tr[i])], i)

(* A variable that has no value waits in the heap.                         *)
HeapOK(as, nv, ord) == \A x \in 1 .. nv : as[x] = l_Undef => x \in ord

(* The watched literals are two, and not among the rest.                   *)
ClausesOK(cl) ==
  \A c \in Address : cl[c] # Free =>
     cl[c].first # cl[c].second /\ cl[c].first \notin cl[c].rest /\ cl[c].second \notin cl[c].rest

(* A binary clause is in the lists of both of its literals.                *)
BinaryOK(wt) ==
  \A p, q \in Lit : Literal(q) \in wt[p] => q # - p /\ Literal(- p) \in wt[- q]

(* A list holds only clauses that watch the negation of its literal.       *)
PointersOK(wt, cl) ==
  \A p \in Lit, c \in Address : Pointer(c) \in wt[p] => cl[c] # Free /\ - p \in {cl[c].first, cl[c].second}

(* What is visited is in the list of the literal at hand.                  *)
TodoOK(wt, tr, qh, td) == td # {} => td \subseteq wt[tr[qh]]

(* A clause that simplifyDB kept because it is the reason of a fact.       *)
Retired(as, lv, rs, cl, c) ==
  /\ as[var(cl[c].first)] = cl[c].first
  /\ lv[var(cl[c].first)] = 0
  /\ rs[var(cl[c].first)] = Pointer(c)

(* The list for watch p holds clause c, or simplifyDB has cleared it: C is *)
(* the set of facts it has looked at.                                      *)
Held(wt, C, c, p) == Pointer(c) \in wt[- p] \/ p \in C \/ - p \in C

(* Cleared lists stay empty: no clause but a retired one watches a variable*)
(* of a fact of C, or has such a fact in it.                               *)
SweptOK(as, lv, rs, cl, wt, C) ==
  /\ \A p \in C : as[var(p)] = p /\ lv[var(p)] = 0 /\ wt[p] = {} /\ wt[- p] = {}
  /\ \A c \in Address : cl[c] # Free =>
       /\ Held(wt, C, c, cl[c].first) /\ Held(wt, C, c, cl[c].second)
       /\ \/ Retired(as, lv, rs, cl, c)
          \/ /\ \A p \in {cl[c].first, cl[c].second} \cup cl[c].rest : p \notin C
             /\ - cl[c].first \notin C /\ - cl[c].second \notin C

Cleared == {trail[i] : i \in 1 .. simpDB_assigns}

(* The other literal that the clause of w, in the list of p, watches.      *)
OtherWatch(w, p, cl) ==
  IF w[1] = "lit" THEN w[2]
  ELSE IF cl[w[2]].first = - p THEN cl[w[2]].second ELSE cl[w[2]].first

(* Of a true literal below level upto that is off the queue, and a watch in*)
(* its list that is not still to be visited, the other literal of the      *)
(* clause is true, at no higher level. After a conflict, when lists of the *)
(* last level were not visited to the end, this holds below that level.    *)
WatchOK(as, lv, tr, wt, cl, qh, td, upto) ==
  \A i \in 1 .. Len(tr) : \A w \in wt[tr[i]] :
    lv[var(tr[i])] < upto /\ i <= qh /\ ~ (i = qh /\ w \in td) =>
      LET o == OtherWatch(w, tr[i], cl)
      IN  as[var(o)] = o /\ lv[var(o)] <= lv[var(tr[i])]

Upto ==
  IF at \in {"analyze", "learn"} THEN decisionLevel
  ELSE IF at = "unsatisfiable" THEN 0 ELSE decisionLevel + 1

(* A clause of the problem is true for ever, or a clause that is no weaker *)
(* is held: literals that are false for ever were left out of it.          *)
CoveredOK(as, lv, cl, wt, pb) ==
  \A ps \in pb :
    \/ \E p \in ps : - p \in ps
    \/ \E p \in ps : as[var(p)] = p /\ lv[var(p)] = 0
    \/ \E c \in Address : /\ cl[c] # Free /\ ~ cl[c].learnt
                         /\ {cl[c].first, cl[c].second} \cup cl[c].rest \subseteq ps
    \/ \E p, q \in ps : Literal(q) \in wt[- p]

(* Implied, by the clauses pb.                                             *)
ImpliedBy(pb, ps) == \A A \in Assignments : Satisfies(A, pb) => ps \cap A # {}

(* Clauses that are held, and facts, follow from the problem.              *)
KnownClausesOK(pb, cl, wt) ==
  /\ \A c \in Address : cl[c] # Free => ImpliedBy(pb, {cl[c].first, cl[c].second} \cup cl[c].rest)
  /\ \A p, q \in Lit : Literal(q) \in wt[p] => ImpliedBy(pb, {- p, q})

KnownFactsOK(pb, lv, rs, tr) ==
  \A i \in 1 .. Len(tr) :
    /\ lv[var(tr[i])] = 0 => ImpliedBy(pb, {tr[i]})
    /\ rs[var(tr[i])][1] = "lit" => ImpliedBy(pb, {tr[i], - rs[var(tr[i])][2]})

(* analyze: the variables whose literals, negated, are the clause so far.  *)
Pending == seen \cup {var(q) : q \in look}
Negated(S) == {- assigns[x] : x \in S}

(* analyze has a clause that follows from the problem, with variables of   *)
(* the current level in it, none of them after index in the trail; learn   *)
(* has the one of them that is left.                                       *)
AnalysisOK ==
  /\ at \notin {"analyze", "learn"} => seen = {} /\ out_learnt = {} /\ index = 0
  /\ at \in {"analyze", "learn"} =>
       /\ \A x \in seen : assigns[x] # l_Undef /\ level[x] > 0
       /\ out_learnt = {- assigns[x] : x \in {x \in seen : level[x] < decisionLevel}}
  /\ at = "analyze" =>
       /\ \A q \in look : IsFalse(q) \/ (IsTrue(q) /\ level[var(q)] = decisionLevel)
       /\ Implied(Negated(Pending))
       /\ \A i \in 1 .. Len(trail) :
             var(trail[i]) \in Pending /\ level[var(trail[i])] = decisionLevel => i <= index
       /\ \E q \in look : level[var(q)] = decisionLevel
  /\ at = "learn" =>
       /\ asserting # 0 /\ IsFalse(asserting) /\ level[var(asserting)] = decisionLevel
       /\ \A x \in seen : level[x] < decisionLevel
       /\ Implied(out_learnt \cup {asserting})

(* What is known of the state from where the loops are.                    *)
PhaseOK ==
  /\ at = "adding" => trail_lim = <<>> /\ qhead = 0 /\ todo = {} /\ simpDB_assigns = 0
  /\ at = "decide" => trail_lim = <<>> /\ qhead = Len(trail) /\ todo = {}
  /\ at \in {"analyze", "learn"} => trail_lim # <<>> /\ qhead = Len(trail) /\ todo = {}
  /\ at \notin {"adding", "unsatisfiable"} => ok = TRUE
  /\ ok = FALSE => ImpliedBy(problem, {})
  /\ simpDB_assigns <= Len(trail)
  /\ \A ps \in problem : \A p \in ps : var(p) <= nVars

(* With clauses without negation, nothing false but decisions.             *)
PositiveClauses(pb, cl, wt) ==
  /\ \A c \in Address : cl[c] # Free => {cl[c].first, cl[c].second} \cup cl[c].rest \in pb
  /\ \A p, q \in Lit : Literal(q) \in wt[p] => {- p, q} \in pb

PositiveFacts(pb, lv, rs, tr) ==
  \A i \in 1 .. Len(tr) :
    IF tr[i] < 0 THEN lv[var(tr[i])] > 0 /\ rs[var(tr[i])] = NULL
    ELSE /\ rs[var(tr[i])] = NULL => {tr[i]} \in pb
         /\ rs[var(tr[i])][1] = "lit" => {tr[i], - rs[var(tr[i])][2]} \in pb

PositiveOK ==
  IsPositive =>
    /\ at \notin {"analyze", "learn", "unsatisfiable"}
    /\ ok
    /\ PositiveClauses(problem, clause, watches)
    /\ PositiveFacts(problem, level, reason, trail)

(* What holds between any two steps of the loops.                          *)
Typed(as, lv, rs, tr, tl, cl, wt, C, pb) ==
  /\ as \in [Var -> Lit \cup {l_Undef}]
  /\ lv \in [Var -> Nat \cup {-1}]
  /\ rs \in [Var -> GClauses]
  /\ tr \in Seq(Lit) /\ tl \in Seq(Nat)
  /\ cl \in [Address -> Clauses \cup {Free}]
  /\ wt \in [Lit -> SUBSET (GClauses \ {NULL})]
  /\ C \subseteq Lit /\ pb \in SUBSET SUBSET Lit

Sound(as, lv, rs, tr, tl, cl, wt, C, pb) ==
  /\ Typed(as, lv, rs, tr, tl, cl, wt, C, pb)
  /\ TrailOK(as, tr)
  /\ LevelsOK(lv, tr, tl)
  /\ DecisionsOK(lv, rs, tr, tl)
  /\ ReasonsOK(as, lv, rs, tr, cl)
  /\ ClausesOK(cl)
  /\ BinaryOK(wt)
  /\ PointersOK(wt, cl)
  /\ SweptOK(as, lv, rs, cl, wt, C)
  /\ KnownClausesOK(pb, cl, wt)
  /\ KnownFactsOK(pb, lv, rs, tr)

IInv ==
  /\ TypeOK
  /\ Sound(assigns, level, reason, trail, trail_lim, clause, watches, Cleared, problem)
  /\ QueueOK(level, trail, trail_lim, qhead, todo)
  /\ at # "satisfiable" => HeapOK(assigns, nVars, order)
  /\ TodoOK(watches, trail, qhead, todo)
  /\ WatchOK(assigns, level, trail, watches, clause, qhead, todo, Upto)
  /\ ok => CoveredOK(assigns, level, clause, watches, problem)
  /\ AnalysisOK
  /\ PhaseOK
  /\ PositiveOK

-----------------------------------------------------------------------------
(* Literals, sequences and numbers.                                        *)

LEMMA LitFacts ==
  ASSUME NEW p \in Lit
  PROVE  /\ p \in Int /\ - p \in Lit /\ p # 0 /\ p # - p /\ - (- p) = p
         /\ var(p) \in Var /\ var(- p) = var(p) /\ (p = var(p) \/ p = - var(p))
BY SolverAssumption DEF Lit, Var, var

LEMMA VarFacts ==
  ASSUME NEW x \in Var
  PROVE  x \in Int /\ x > 0 /\ x \in Lit /\ - x \in Lit /\ var(x) = x /\ var(- x) = x
BY SolverAssumption DEF Lit, Var, var

LEMMA SameVar ==
  ASSUME NEW p \in Lit, NEW q \in Lit
  PROVE  var(p) = var(q) <=> p = q \/ p = - q
BY SolverAssumption DEF Lit, Var, var

LEMMA Appended ==
  ASSUME NEW S, NEW s \in Seq(S), NEW e \in S
  PROVE  /\ Append(s, e) \in Seq(S)
         /\ Len(s) \in Nat /\ Len(Append(s, e)) = Len(s) + 1
         /\ \A i \in 1 .. Len(s) : Append(s, e)[i] = s[i]
         /\ Append(s, e)[Len(s) + 1] = e
BY AppendProperties, LenProperties

LEMMA Cut ==
  ASSUME NEW S, NEW s \in Seq(S), NEW n \in 0 .. Len(s)
  PROVE  /\ SubSeq(s, 1, n) \in Seq(S)
         /\ Len(SubSeq(s, 1, n)) = n
         /\ \A i \in 1 .. n : SubSeq(s, 1, n)[i] = s[i]
<1>1. Len(s) \in Nat
  BY LenProperties
<1>2. \A i \in 1 .. n : s[i] \in S
  BY <1>1, ElementOfSeq
<1>3. QED
  BY <1>1, <1>2, SubSeqProperties

LEMMA Least ==
  ASSUME NEW T, T \subseteq Nat, T # {}
  PROVE  \E x \in T : \A y \in T : x <= y
<1> DEFINE R == {ss \in Nat \X Nat : ss[1] < ss[2]}
<1>1. IsWellFoundedOn(R, Nat)
  BY NatLessThanWellFounded DEF OpToRel
<1>2. \A x, y \in Nat : y < x => <<y, x>> \in R
  OBVIOUS
<1> HIDE DEF R
<1>3. PICK x \in T : \A y \in T : ~ (<<y, x>> \in R)
  BY <1>1, WFMin
<1>4. x \in Nat /\ T \subseteq Nat
  OBVIOUS
<1>5. ASSUME NEW y \in T PROVE x <= y
  <2>1. y \in Nat
    BY <1>4
  <2>2. ~ (y < x)
    BY <1>2, <1>3, <1>4, <2>1, Zenon
  <2>3. QED
    BY <2>1, <2>2, <1>4
<1>6. QED
  BY <1>5

LEMMA Greatest ==
  ASSUME NEW T, NEW b \in Nat, T \subseteq 0 .. b, T # {}
  PROVE  \E x \in T : \A y \in T : y <= x
<1>1. PICK n \in {b - x : x \in T} : \A m \in {b - x : x \in T} : n <= m
  <2>1. \A x \in T : x \in 0 .. b
    OBVIOUS
  <2>2. \A x \in T : b - x \in Nat
    BY <2>1
  <2>3. {b - x : x \in T} \subseteq Nat /\ {b - x : x \in T} # {}
    BY <2>2
  <2>4. QED
    BY <2>3, Least
<1>2. PICK x \in T : n = b - x
  BY <1>1
<1>3. \A y \in T : b - x <= b - y
  BY <1>1, <1>2
<1>4. x \in Nat /\ \A y \in T : y \in Nat
  OBVIOUS
<1>5. QED
  BY <1>2, <1>3, <1>4

-----------------------------------------------------------------------------
(* What happens to the trail.                                              *)

Placed(as, tr) ==
  /\ Len(tr) \in Nat
  /\ \A i \in 1 .. Len(tr) : /\ tr[i] \in Lit /\ var(tr[i]) \in Var
                             /\ as[var(tr[i])] = tr[i] /\ tr[i] # l_Undef
  /\ \A i, j \in 1 .. Len(tr) : var(tr[i]) = var(tr[j]) => i = j
  /\ \A x \in Var : as[x] # l_Undef => \E i \in 1 .. Len(tr) : tr[i] = as[x] /\ var(tr[i]) = x

LEMMA OnTrail ==
  ASSUME NEW as, NEW tr \in Seq(Lit), TrailOK(as, tr)
  PROVE  Placed(as, tr)
<1>1. \A i \in 1 .. Len(tr) : tr[i] \in Lit
  BY ElementOfSeq
<1>2. \A i \in 1 .. Len(tr) : var(tr[i]) \in Var /\ tr[i] # l_Undef
  BY <1>1, LitFacts DEF l_Undef
<1>3. \A i \in 1 .. Len(tr) : as[var(tr[i])] = tr[i]
  BY DEF TrailOK
<1>4. \A i, j \in 1 .. Len(tr) : var(tr[i]) = var(tr[j]) => i = j
  <2>1. SUFFICES ASSUME NEW i \in 1 .. Len(tr), NEW j \in 1 .. Len(tr), var(tr[i]) = var(tr[j])
                 PROVE  i = j
    OBVIOUS
  <2>2. tr[i] = tr[j]
    BY <2>1, <1>3
  <2>3. QED
    BY <2>2 DEF TrailOK
<1>5. \A x \in Var : as[x] # l_Undef => \E i \in 1 .. Len(tr) : tr[i] = as[x] /\ var(tr[i]) = x
  <2>1. SUFFICES ASSUME NEW x \in Var, as[x] # l_Undef
                 PROVE  \E i \in 1 .. Len(tr) : tr[i] = as[x] /\ var(tr[i]) = x
    OBVIOUS
  <2>2. var(as[x]) = x /\ \E i \in 1 .. Len(tr) : tr[i] = as[x]
    BY <2>1 DEF TrailOK
  <2>3. QED
    BY <2>2
<1>6. QED
  BY <1>1, <1>2, <1>3, <1>4, <1>5, LenProperties DEF Placed

LEMMA TrailPush ==
  ASSUME NEW as \in [Var -> Lit \cup {l_Undef}], NEW tr \in Seq(Lit), TrailOK(as, tr),
         NEW p \in Lit, as[var(p)] = l_Undef
  PROVE  TrailOK([as EXCEPT ![var(p)] = p], Append(tr, p))
<1> DEFINE bs == [as EXCEPT ![var(p)] = p]
           br == Append(tr, p)
<1>0. Placed(as, tr)
  BY OnTrail
<1>1. /\ Len(tr) \in Nat /\ Len(br) = Len(tr) + 1
      /\ \A i \in 1 .. Len(tr) : br[i] = tr[i]
      /\ br[Len(tr) + 1] = p
  BY Appended
<1>2. bs[var(p)] = p /\ \A x \in Var : x # var(p) => bs[x] = as[x]
  BY LitFacts
<1>3. var(p) \in Var /\ p # l_Undef
  BY LitFacts DEF l_Undef
<1> HIDE DEF bs, br
<1>4. ASSUME NEW i \in 1 .. Len(tr)
      PROVE  br[i] = tr[i] /\ var(br[i]) # var(p) /\ bs[var(br[i])] = br[i]
  <2>1. br[i] = tr[i]
    BY <1>1
  <2>2. as[var(tr[i])] = tr[i] /\ tr[i] # l_Undef /\ var(tr[i]) \in Var
    BY <1>0 DEF Placed
  <2>3. QED
    BY <2>1, <2>2, <1>2
<1>5. \A i \in 1 .. Len(br) : i \in 1 .. Len(tr) \/ i = Len(tr) + 1
  BY <1>1
<1>6. \A i \in 1 .. Len(br) : bs[var(br[i])] = br[i]
  BY <1>1, <1>2, <1>4, <1>5
<1>7. \A i, j \in 1 .. Len(br) : br[i] = br[j] => i = j
  BY <1>1, <1>4, <1>5 DEF TrailOK
<1>8. ASSUME NEW x \in Var, bs[x] # l_Undef
      PROVE  var(bs[x]) = x /\ \E i \in 1 .. Len(br) : br[i] = bs[x]
  <2>1. CASE x = var(p)
    BY <2>1, <1>1, <1>2
  <2>2. CASE x # var(p)
    <3>1. bs[x] = as[x]
      BY <2>2, <1>2
    <3>2. PICK i \in 1 .. Len(tr) : tr[i] = as[x] /\ var(as[x]) = x
      BY <3>1, <1>8 DEF TrailOK
    <3>3. i \in 1 .. Len(br) /\ br[i] = tr[i]
      BY <1>1
    <3>4. QED
      BY <3>1, <3>2, <3>3
  <2>3. QED
    BY <2>1, <2>2
<1>9. TrailOK(bs, br)
  BY <1>6, <1>7, <1>8 DEF TrailOK
<1>10. QED
  BY <1>9 DEF bs, br

(* The variables of the trail after position m.                            *)
After(tr, m) == {var(tr[i]) : i \in m + 1 .. Len(tr)}

LEMMA AfterIs ==
  ASSUME NEW as, NEW tr \in Seq(Lit), TrailOK(as, tr),
         NEW m \in 0 .. Len(tr)
  PROVE  /\ \A i \in 1 .. Len(tr) : var(tr[i]) \in After(tr, m) <=> i > m
         /\ \A x \in After(tr, m) : x \in Var /\ as[x] # l_Undef
<1>0. Placed(as, tr)
  BY OnTrail
<1>1. Len(tr) \in Nat
  BY LenProperties
<1>2. ASSUME NEW i \in 1 .. Len(tr), var(tr[i]) \in After(tr, m) PROVE i > m
  <2>1. PICK j \in m + 1 .. Len(tr) : var(tr[i]) = var(tr[j])
    BY <1>2 DEF After
  <2>2. j \in 1 .. Len(tr) /\ j > m
    BY <1>1
  <2>3. i = j
    BY <2>1, <2>2, <1>0 DEF Placed
  <2>4. QED
    BY <2>2, <2>3
<1>3. ASSUME NEW i \in 1 .. Len(tr), i > m PROVE var(tr[i]) \in After(tr, m)
  <2>1. i \in m + 1 .. Len(tr)
    BY <1>1, <1>3
  <2>2. QED
    BY <2>1 DEF After
<1>4. ASSUME NEW x \in After(tr, m) PROVE x \in Var /\ as[x] # l_Undef
  <2>1. PICK j \in m + 1 .. Len(tr) : x = var(tr[j])
    BY DEF After
  <2>2. j \in 1 .. Len(tr)
    BY <1>1
  <2>3. QED
    BY <2>1, <2>2, <1>0 DEF Placed
<1>5. QED
  BY <1>2, <1>3, <1>4

Unassigned(as, U) == [x \in Var |-> IF x \in U THEN l_Undef ELSE as[x]]

LEMMA TrailCut ==
  ASSUME NEW as, NEW tr \in Seq(Lit), TrailOK(as, tr),
         NEW m \in 0 .. Len(tr)
  PROVE  TrailOK(Unassigned(as, After(tr, m)), SubSeq(tr, 1, m))
<1> DEFINE bs == Unassigned(as, After(tr, m))
           br == SubSeq(tr, 1, m)
<1>0. Placed(as, tr)
  BY OnTrail
<1>1. Len(br) = m /\ \A i \in 1 .. m : br[i] = tr[i]
  BY Cut
<1>2. \A x \in Var : bs[x] = IF x \in After(tr, m) THEN l_Undef ELSE as[x]
  BY DEF Unassigned
<1>3. Len(tr) \in Nat /\ 1 .. m \subseteq 1 .. Len(tr)
  BY LenProperties
<1> HIDE DEF bs, br
<1>4. ASSUME NEW i \in 1 .. m
      PROVE  var(tr[i]) \in Var /\ var(tr[i]) \notin After(tr, m) /\ as[var(tr[i])] = tr[i]
  <2>1. i \in 1 .. Len(tr) /\ ~ (i > m)
    BY <1>3
  <2>2. QED
    BY <2>1, AfterIs, <1>0 DEF Placed
<1>5. \A i \in 1 .. Len(br) : bs[var(br[i])] = br[i]
  BY <1>1, <1>2, <1>4
<1>6. \A i, j \in 1 .. Len(br) : br[i] = br[j] => i = j
  BY <1>1, <1>3 DEF TrailOK
<1>7. ASSUME NEW x \in Var, bs[x] # l_Undef
      PROVE  var(bs[x]) = x /\ \E i \in 1 .. Len(br) : br[i] = bs[x]
  <2>1. bs[x] = as[x] /\ x \notin After(tr, m)
    BY <1>2, <1>7
  <2>2. PICK i \in 1 .. Len(tr) : tr[i] = as[x] /\ var(as[x]) = x
    BY <2>1, <1>7 DEF TrailOK
  <2>3. ~ (i > m)
    <3>1. var(tr[i]) = x
      BY <2>2
    <3>2. QED
      BY <2>1, <3>1, AfterIs
  <2>4. i \in 1 .. m
    BY <2>3, <1>3
  <2>5. QED
    BY <2>1, <2>2, <2>4, <1>1
<1>8. TrailOK(bs, br)
  BY <1>5, <1>6, <1>7 DEF TrailOK
<1>9. QED
  BY <1>8 DEF bs, br

(***************************************************************************)
(* A literal p at level l, for reason r, comes to the end of the trail.    *)
(***************************************************************************)
Pushed(as, lv, rs, tr, bs, mv, qs, br, p, l, r) ==
  /\ Len(tr) \in Nat /\ Len(br) = Len(tr) + 1 /\ br[Len(tr) + 1] = p
  /\ p \in Lit /\ var(p) \in Var /\ as[var(p)] = l_Undef
  /\ bs[var(p)] = p /\ mv[var(p)] = l /\ qs[var(p)] = r
  /\ \A x \in Var : x # var(p) => bs[x] = as[x] /\ mv[x] = lv[x] /\ qs[x] = rs[x]
  /\ \A i \in 1 .. Len(tr) : br[i] = tr[i] /\ tr[i] \in Lit /\ var(tr[i]) \in Var
                             /\ var(tr[i]) # var(p) /\ as[var(tr[i])] = tr[i]

LEMMA PushIs ==
  ASSUME NEW as \in [Var -> Lit \cup {l_Undef}], NEW tr \in Seq(Lit), TrailOK(as, tr),
         NEW V, NEW lv \in [Var -> V], NEW W, NEW rs \in [Var -> W],
         NEW p \in Lit, as[var(p)] = l_Undef, NEW l, NEW r
  PROVE  Pushed(as, lv, rs, tr, [as EXCEPT ![var(p)] = p], [lv EXCEPT ![var(p)] = l],
                [rs EXCEPT ![var(p)] = r], Append(tr, p), p, l, r)
<1>1. Placed(as, tr)
  BY OnTrail
<1>2. /\ Len(tr) \in Nat /\ Len(Append(tr, p)) = Len(tr) + 1
      /\ \A i \in 1 .. Len(tr) : Append(tr, p)[i] = tr[i]
      /\ Append(tr, p)[Len(tr) + 1] = p
  BY Appended
<1>3. var(p) \in Var
  BY LitFacts
<1>4. ASSUME NEW i \in 1 .. Len(tr)
      PROVE  /\ Append(tr, p)[i] = tr[i] /\ tr[i] \in Lit /\ var(tr[i]) \in Var
             /\ var(tr[i]) # var(p) /\ as[var(tr[i])] = tr[i]
  BY <1>1, <1>2 DEF Placed
<1>5. /\ [as EXCEPT ![var(p)] = p][var(p)] = p
      /\ [lv EXCEPT ![var(p)] = l][var(p)] = l
      /\ [rs EXCEPT ![var(p)] = r][var(p)] = r
  BY <1>3
<1>6. \A x \in Var : x # var(p) => /\ [as EXCEPT ![var(p)] = p][x] = as[x]
                                   /\ [lv EXCEPT ![var(p)] = l][x] = lv[x]
                                   /\ [rs EXCEPT ![var(p)] = r][x] = rs[x]
  BY <1>3
<1>7. QED
  BY <1>2, <1>3, <1>4, <1>5, <1>6 DEF Pushed

(***************************************************************************)
(* The trail is cut after level n.                                         *)
(***************************************************************************)
CutTo(as, lv, rs, tr, tl, bs, qs, br, bl, n) ==
  /\ Len(tr) \in Nat /\ Len(tl) \in Nat /\ n \in 0 .. Len(tl) /\ Len(br) \in 0 .. Len(tr)
  /\ Len(bl) = n /\ \A k \in 1 .. n : bl[k] = tl[k]
  /\ \A i \in 1 .. Len(br) : br[i] = tr[i] /\ tr[i] \in Lit /\ var(tr[i]) \in Var
                             /\ as[var(tr[i])] = tr[i]
                             /\ bs[var(tr[i])] = tr[i] /\ qs[var(tr[i])] = rs[var(tr[i])]
  /\ \A i \in 1 .. Len(tr) : i <= Len(br) <=> lv[var(tr[i])] <= n
  /\ \A x \in Var : \/ bs[x] = as[x] /\ qs[x] = rs[x]
                    \/ bs[x] = l_Undef /\ qs[x] = NULL
  /\ \A x \in Var : as[x] # l_Undef /\ lv[x] <= n => bs[x] = as[x] /\ qs[x] = rs[x]

KeptAt(tr, tl, n) == IF Len(tl) > n THEN tl[n + 1] ELSE Len(tr)

LEMMA KeptIs ==
  ASSUME NEW lv, NEW tr \in Seq(Lit), NEW tl \in Seq(Nat), LevelsOK(lv, tr, tl),
         NEW n \in 0 .. Len(tl)
  PROVE  /\ Len(tr) \in Nat /\ Len(tl) \in Nat
         /\ KeptAt(tr, tl, n) \in 0 .. Len(tr)
         /\ \A i \in 1 .. Len(tr) : i <= KeptAt(tr, tl, n) <=> lv[var(tr[i])] <= n
<1>1. Len(tr) \in Nat /\ Len(tl) \in Nat
  BY LenProperties
<1>2. CASE n = Len(tl)
  <2>1. KeptAt(tr, tl, n) = Len(tr)
    BY <1>1, <1>2 DEF KeptAt
  <2>2. QED
    BY <1>1, <1>2, <2>1 DEF LevelsOK
<1>3. CASE n < Len(tl)
  <2>1. n + 1 \in 1 .. Len(tl)
    BY <1>1, <1>3
  <2>2. tl[n + 1] \in Nat /\ tl[n + 1] < Len(tr)
    BY <2>1, ElementOfSeq DEF LevelsOK
  <2>3. KeptAt(tr, tl, n) = tl[n + 1]
    BY <1>1, <1>3 DEF KeptAt
  <2>4. ASSUME NEW i \in 1 .. Len(tr) PROVE i <= tl[n + 1] <=> lv[var(tr[i])] <= n
    <3>1. lv[var(tr[i])] \in 0 .. Len(tl) /\ (n + 1 <= lv[var(tr[i])] <=> tl[n + 1] < i)
      BY <2>1 DEF LevelsOK
    <3>2. i \in Nat
      BY <1>1
    <3>3. QED
      BY <1>1, <2>2, <3>1, <3>2
  <2>5. QED
    BY <1>1, <2>2, <2>3, <2>4
<1>4. QED
  BY <1>1, <1>2, <1>3

LEMMA CutIs ==
  ASSUME NEW as \in [Var -> Lit \cup {l_Undef}], NEW tr \in Seq(Lit), TrailOK(as, tr),
         NEW lv, NEW tl \in Seq(Nat), LevelsOK(lv, tr, tl),
         NEW rs, NEW n \in 0 .. Len(tl)
  PROVE  CutTo(as, lv, rs, tr, tl,
               [x \in Var |-> IF x \in After(tr, KeptAt(tr, tl, n)) THEN l_Undef ELSE as[x]],
               [x \in Var |-> IF x \in After(tr, KeptAt(tr, tl, n)) THEN NULL ELSE rs[x]],
               SubSeq(tr, 1, KeptAt(tr, tl, n)), SubSeq(tl, 1, n), n)
<1> DEFINE m == KeptAt(tr, tl, n)
           bs == [x \in Var |-> IF x \in After(tr, m) THEN l_Undef ELSE as[x]]
           qs == [x \in Var |-> IF x \in After(tr, m) THEN NULL ELSE rs[x]]
           br == SubSeq(tr, 1, m)
           bl == SubSeq(tl, 1, n)
<1>0. Placed(as, tr)
  BY OnTrail
<1>1. /\ Len(tr) \in Nat /\ Len(tl) \in Nat /\ m \in 0 .. Len(tr)
      /\ \A i \in 1 .. Len(tr) : i <= m <=> lv[var(tr[i])] <= n
  BY KeptIs
<1> HIDE DEF m
<1>2. Len(br) = m /\ \A i \in 1 .. m : br[i] = tr[i]
  BY <1>1, Cut
<1>3. Len(bl) = n /\ \A k \in 1 .. n : bl[k] = tl[k]
  BY <1>1, Cut
<1>4. \A x \in Var : /\ x \in After(tr, m) => bs[x] = l_Undef /\ qs[x] = NULL
                     /\ x \notin After(tr, m) => bs[x] = as[x] /\ qs[x] = rs[x]
  OBVIOUS
<1> HIDE DEF bs, qs, br, bl
<1>5. ASSUME NEW i \in 1 .. m
      PROVE  /\ br[i] = tr[i] /\ tr[i] \in Lit /\ var(tr[i]) \in Var /\ as[var(tr[i])] = tr[i]
             /\ bs[var(tr[i])] = tr[i] /\ qs[var(tr[i])] = rs[var(tr[i])]
  <2>1. i \in 1 .. Len(tr) /\ ~ (i > m)
    BY <1>1
  <2>2. var(tr[i]) \notin After(tr, m)
    BY <1>1, <2>1, AfterIs
  <2>3. tr[i] \in Lit /\ var(tr[i]) \in Var /\ as[var(tr[i])] = tr[i]
    BY <1>0, <2>1 DEF Placed
  <2>4. QED
    BY <1>2, <1>4, <2>2, <2>3
<1>6. ASSUME NEW x \in Var, as[x] # l_Undef, lv[x] <= n
      PROVE  bs[x] = as[x] /\ qs[x] = rs[x]
  <2>1. PICK i \in 1 .. Len(tr) : var(tr[i]) = x
    BY <1>0, <1>6 DEF Placed
  <2>2. i <= m
    BY <1>1, <1>6, <2>1
  <2>3. ~ (i > m)
    BY <1>1, <2>2
  <2>4. x \notin After(tr, m)
    BY <1>1, <2>1, <2>3, AfterIs
  <2>5. QED
    BY <1>4, <2>4
<1>7. \A x \in Var : (bs[x] = as[x] /\ qs[x] = rs[x]) \/ (bs[x] = l_Undef /\ qs[x] = NULL)
  BY <1>4
<1>8. CutTo(as, lv, rs, tr, tl, bs, qs, br, bl, n)
  BY <1>1, <1>2, <1>3, <1>5, <1>6, <1>7 DEF CutTo
<1>9. QED
  BY <1>8 DEF bs, qs, br, bl, m

LEMMA LevelsMonotone ==
  ASSUME NEW lv, NEW tr \in Seq(Lit), NEW tl \in Seq(Nat), LevelsOK(lv, tr, tl),
         NEW i \in 1 .. Len(tr), NEW j \in 1 .. Len(tr), j <= i
  PROVE  lv[var(tr[j])] <= lv[var(tr[i])]
<1>1. Len(tr) \in Nat /\ Len(tl) \in Nat /\ i \in Nat /\ j \in Nat
  BY LenProperties
<1>2. lv[var(tr[i])] \in 0 .. Len(tl) /\ lv[var(tr[j])] \in 0 .. Len(tl)
  BY DEF LevelsOK
<1>3. CASE lv[var(tr[j])] = 0
  BY <1>1, <1>2, <1>3
<1>4. CASE lv[var(tr[j])] \in 1 .. Len(tl)
  <2> DEFINE k == lv[var(tr[j])]
  <2>1. tl[k] < j /\ tl[k] \in Nat
    BY <1>4, <1>2, ElementOfSeq DEF LevelsOK
  <2>2. tl[k] < i
    BY <1>1, <2>1
  <2>3. k <= lv[var(tr[i])]
    BY <1>4, <2>2 DEF LevelsOK
  <2>4. QED
    BY <2>3
<1>5. QED
  BY <1>1, <1>2, <1>3, <1>4

LEMMA LevelsPush ==
  ASSUME NEW as, NEW lv, NEW rs, NEW tr, NEW tl \in Seq(Nat), LevelsOK(lv, tr, tl),
         NEW bs, NEW mv, NEW qs, NEW br, NEW p, NEW r,
         Pushed(as, lv, rs, tr, bs, mv, qs, br, p, Len(tl), r)
  PROVE  LevelsOK(mv, br, tl)
<1>1. Len(tl) \in Nat /\ Len(tr) \in Nat /\ Len(br) = Len(tr) + 1
  BY LenProperties DEF Pushed
<1>2. \A k \in 1 .. Len(tl) : tl[k] \in Nat /\ tl[k] < Len(tr)
  BY ElementOfSeq DEF LevelsOK
<1>3. ASSUME NEW i \in 1 .. Len(br)
      PROVE  mv[var(br[i])] \in 0 .. Len(tl) /\ \A k \in 1 .. Len(tl) : k <= mv[var(br[i])] <=> tl[k] < i
  <2>1. CASE i \in 1 .. Len(tr)
    <3>1. br[i] = tr[i] /\ mv[var(br[i])] = lv[var(tr[i])]
      BY <2>1 DEF Pushed
    <3>2. QED
      BY <2>1, <3>1 DEF LevelsOK
  <2>2. CASE i = Len(tr) + 1
    <3>1. mv[var(br[i])] = Len(tl)
      BY <2>2 DEF Pushed
    <3>2. \A k \in 1 .. Len(tl) : tl[k] < i
      BY <1>1, <1>2, <2>2
    <3>3. QED
      BY <1>1, <3>1, <3>2
  <2>3. QED
    BY <1>1, <2>1, <2>2
<1>4. \A k \in 1 .. Len(tl) : tl[k] < Len(br)
  BY <1>1, <1>2
<1>5. QED
  BY <1>3, <1>4 DEF LevelsOK

LEMMA LevelsDecide ==
  ASSUME NEW as, NEW lv, NEW rs, NEW tr, NEW tl \in Seq(Nat), LevelsOK(lv, tr, tl),
         NEW bs, NEW mv, NEW qs, NEW br, NEW p, NEW r,
         Pushed(as, lv, rs, tr, bs, mv, qs, br, p, Len(tl) + 1, r)
  PROVE  LevelsOK(mv, br, Append(tl, Len(tr)))
<1> DEFINE bl == Append(tl, Len(tr))
<1>1. Len(tl) \in Nat /\ Len(tr) \in Nat /\ Len(br) = Len(tr) + 1
  BY LenProperties DEF Pushed
<1>2. \A k \in 1 .. Len(tl) : tl[k] \in Nat /\ tl[k] < Len(tr)
  BY ElementOfSeq DEF LevelsOK
<1>3. /\ Len(bl) = Len(tl) + 1 /\ bl[Len(tl) + 1] = Len(tr)
      /\ \A k \in 1 .. Len(tl) : bl[k] = tl[k]
  BY <1>1, Appended
<1> HIDE DEF bl
<1>4. \A k \in 1 .. Len(bl) : k \in 1 .. Len(tl) \/ k = Len(tl) + 1
  BY <1>1, <1>3
<1>5. ASSUME NEW i \in 1 .. Len(br)
      PROVE  mv[var(br[i])] \in 0 .. Len(bl) /\ \A k \in 1 .. Len(bl) : k <= mv[var(br[i])] <=> bl[k] < i
  <2>1. CASE i \in 1 .. Len(tr)
    <3>1. br[i] = tr[i] /\ mv[var(br[i])] = lv[var(tr[i])]
      BY <2>1 DEF Pushed
    <3>2. /\ lv[var(tr[i])] \in 0 .. Len(tl)
          /\ \A k \in 1 .. Len(tl) : k <= lv[var(tr[i])] <=> tl[k] < i
      BY <2>1 DEF LevelsOK
    <3>3. ~ (Len(tl) + 1 <= lv[var(tr[i])]) /\ ~ (Len(tr) < i)
      BY <1>1, <2>1, <3>2
    <3>4. ASSUME NEW k \in 1 .. Len(bl) PROVE k <= mv[var(br[i])] <=> bl[k] < i
      <4>1. CASE k \in 1 .. Len(tl)
        BY <4>1, <1>3, <3>1, <3>2
      <4>2. CASE k = Len(tl) + 1
        BY <4>2, <1>3, <3>1, <3>3
      <4>3. QED
        BY <4>1, <4>2, <1>4
    <3>5. mv[var(br[i])] \in 0 .. Len(bl)
      BY <1>1, <1>3, <3>1, <3>2
    <3>6. QED
      BY <3>4, <3>5
  <2>2. CASE i = Len(tr) + 1
    <3>1. mv[var(br[i])] = Len(tl) + 1
      BY <2>2 DEF Pushed
    <3>2. \A k \in 1 .. Len(bl) : bl[k] < i /\ k <= Len(tl) + 1
      BY <1>1, <1>2, <1>3, <1>4, <2>2
    <3>3. QED
      BY <1>1, <1>3, <3>1, <3>2
  <2>3. QED
    BY <1>1, <2>1, <2>2
<1>6. \A k \in 1 .. Len(bl) : bl[k] < Len(br)
  BY <1>1, <1>2, <1>3, <1>4
<1>7. \A j, k \in 1 .. Len(bl) : j < k => bl[j] < bl[k]
  <2>1. SUFFICES ASSUME NEW j \in 1 .. Len(bl), NEW k \in 1 .. Len(bl), j < k
                 PROVE  bl[j] < bl[k]
    OBVIOUS
  <2>2. j \in 1 .. Len(tl)
    BY <1>1, <1>3, <2>1
  <2>3. CASE k \in 1 .. Len(tl)
    BY <1>3, <2>1, <2>2, <2>3 DEF LevelsOK
  <2>4. CASE k = Len(tl) + 1
    BY <1>2, <1>3, <2>2, <2>4
  <2>5. QED
    BY <1>4, <2>3, <2>4
<1>8. LevelsOK(mv, br, bl)
  BY <1>5, <1>6, <1>7 DEF LevelsOK
<1>9. QED
  BY <1>8 DEF bl

(* The level of the decision of level k is k.                              *)
LEMMA FirstOfLevel ==
  ASSUME NEW lv, NEW tr \in Seq(Lit), NEW tl \in Seq(Nat), LevelsOK(lv, tr, tl),
         NEW k \in 1 .. Len(tl)
  PROVE  tl[k] + 1 \in 1 .. Len(tr) /\ lv[var(tr[tl[k] + 1])] = k
<1>1. Len(tl) \in Nat /\ Len(tr) \in Nat /\ tl[k] \in Nat /\ tl[k] < Len(tr)
  BY LenProperties, ElementOfSeq DEF LevelsOK
<1>2. tl[k] + 1 \in 1 .. Len(tr)
  BY <1>1
<1> DEFINE i == tl[k] + 1
           l == lv[var(tr[i])]
<1>3. l \in 0 .. Len(tl) /\ \A j \in 1 .. Len(tl) : j <= l <=> tl[j] < i
  BY <1>2 DEF LevelsOK
<1>4. k <= l
  BY <1>1, <1>3
<1>5. ~ (k < l)
  <2>1. SUFFICES ASSUME k < l PROVE FALSE
    OBVIOUS
  <2>2. l \in 1 .. Len(tl)
    BY <1>1, <1>3, <2>1
  <2>3. tl[l] < i /\ tl[k] < tl[l] /\ tl[l] \in Nat
    BY <1>3, <2>1, <2>2, ElementOfSeq DEF LevelsOK
  <2>4. QED
    BY <1>1, <2>3
<1>6. QED
  BY <1>1, <1>2, <1>3, <1>4, <1>5

LEMMA LevelsCut ==
  ASSUME NEW as, NEW lv, NEW rs, NEW tr \in Seq(Lit), NEW tl \in Seq(Nat), LevelsOK(lv, tr, tl),
         NEW bs, NEW qs, NEW br, NEW bl, NEW n,
         CutTo(as, lv, rs, tr, tl, bs, qs, br, bl, n)
  PROVE  LevelsOK(lv, br, bl)
<1>1. /\ Len(tl) \in Nat /\ Len(tr) \in Nat /\ n \in 0 .. Len(tl) /\ Len(br) \in 0 .. Len(tr)
      /\ Len(bl) = n /\ \A k \in 1 .. n : bl[k] = tl[k]
  BY DEF CutTo
<1>2. 1 .. n \subseteq 1 .. Len(tl) /\ 1 .. Len(br) \subseteq 1 .. Len(tr)
  BY <1>1
<1>3. ASSUME NEW k \in 1 .. Len(bl) PROVE bl[k] < Len(br)
  <2>1. k \in 1 .. Len(tl) /\ bl[k] = tl[k] /\ k <= n
    BY <1>1, <1>2
  <2>2. tl[k] + 1 \in 1 .. Len(tr) /\ lv[var(tr[tl[k] + 1])] = k
    BY <2>1, FirstOfLevel
  <2>3. tl[k] + 1 <= Len(br)
    BY <2>1, <2>2 DEF CutTo
  <2>4. tl[k] \in Nat
    BY <2>1, ElementOfSeq
  <2>5. QED
    BY <1>1, <2>1, <2>3, <2>4
<1>4. \A j, k \in 1 .. Len(bl) : j < k => bl[j] < bl[k]
  BY <1>1, <1>2 DEF LevelsOK
<1>5. ASSUME NEW i \in 1 .. Len(br)
      PROVE  lv[var(br[i])] \in 0 .. Len(bl) /\ \A k \in 1 .. Len(bl) : k <= lv[var(br[i])] <=> bl[k] < i
  <2>0. br[i] = tr[i]
    BY DEF CutTo
  <2>1. i \in 1 .. Len(tr) /\ br[i] = tr[i] /\ i <= Len(br)
    BY <1>1, <1>2, <2>0
  <2>2. lv[var(tr[i])] <= n
    BY <2>1 DEF CutTo
  <2>3. lv[var(tr[i])] \in 0 .. Len(tl)
    BY <2>1 DEF LevelsOK
  <2>4. \A k \in 1 .. Len(bl) : k <= lv[var(tr[i])] <=> tl[k] < i
    BY <1>1, <1>2, <2>1 DEF LevelsOK
  <2>5. \A k \in 1 .. Len(bl) : bl[k] = tl[k]
    BY <1>1
  <2>6. lv[var(tr[i])] \in 0 .. n
    BY <1>1, <2>2, <2>3
  <2>7. QED
    BY <1>1, <2>1, <2>4, <2>5, <2>6
<1>6. QED
  BY <1>3, <1>4, <1>5 DEF LevelsOK

LEMMA DecisionsPush ==
  ASSUME NEW as, NEW lv, NEW rs, NEW tr, NEW tl \in Seq(Nat), DecisionsOK(lv, rs, tr, tl),
         NEW bs, NEW mv, NEW qs, NEW br, NEW p, NEW r, r # NULL \/ Len(tl) = 0,
         Pushed(as, lv, rs, tr, bs, mv, qs, br, p, Len(tl), r)
  PROVE  DecisionsOK(mv, qs, br, tl)
<1>1. Len(tr) \in Nat /\ Len(br) = Len(tr) + 1
  BY DEF Pushed
<1>2. ASSUME NEW i \in 1 .. Len(br), mv[var(br[i])] > 0, qs[var(br[i])] = NULL
      PROVE  i = tl[mv[var(br[i])]] + 1
  <2>1. CASE i \in 1 .. Len(tr)
    <3>1. var(tr[i]) = var(br[i]) /\ mv[var(br[i])] = lv[var(tr[i])] /\ qs[var(br[i])] = rs[var(tr[i])]
      BY <2>1 DEF Pushed
    <3>2. QED
      BY <2>1, <3>1, <1>2 DEF DecisionsOK
  <2>2. CASE i = Len(tr) + 1
    BY <1>2, <2>2 DEF Pushed
  <2>3. QED
    BY <1>1, <2>1, <2>2
<1>3. QED
  BY <1>2 DEF DecisionsOK

LEMMA DecisionsDecide ==
  ASSUME NEW as, NEW lv, NEW rs, NEW tr, NEW tl \in Seq(Nat), DecisionsOK(lv, rs, tr, tl),
         LevelsOK(lv, tr, tl),
         NEW bs, NEW mv, NEW qs, NEW br, NEW p, NEW r,
         Pushed(as, lv, rs, tr, bs, mv, qs, br, p, Len(tl) + 1, r)
  PROVE  DecisionsOK(mv, qs, br, Append(tl, Len(tr)))
<1>1. Len(tr) \in Nat /\ Len(br) = Len(tr) + 1
  BY DEF Pushed
<1>2. Append(tl, Len(tr))[Len(tl) + 1] = Len(tr) /\ \A k \in 1 .. Len(tl) : Append(tl, Len(tr))[k] = tl[k]
  BY <1>1, Appended
<1>3. ASSUME NEW i \in 1 .. Len(br), mv[var(br[i])] > 0, qs[var(br[i])] = NULL
      PROVE  i = Append(tl, Len(tr))[mv[var(br[i])]] + 1
  <2>1. CASE i \in 1 .. Len(tr)
    <3>1. var(tr[i]) = var(br[i]) /\ mv[var(br[i])] = lv[var(tr[i])] /\ qs[var(br[i])] = rs[var(tr[i])]
      BY <2>1 DEF Pushed
    <3>2. lv[var(tr[i])] \in 0 .. Len(tl)
      BY <2>1 DEF LevelsOK
    <3>3. lv[var(tr[i])] \in 1 .. Len(tl)
      BY <3>1, <3>2, <1>3
    <3>4. QED
      BY <1>2, <2>1, <3>1, <3>3, <1>3 DEF DecisionsOK
  <2>2. CASE i = Len(tr) + 1
    BY <1>2, <2>2 DEF Pushed
  <2>3. i \in 1 .. Len(tr) \/ i = Len(tr) + 1
    BY <1>1
  <2>4. QED
    BY <2>1, <2>2, <2>3
<1>4. QED
  BY <1>3 DEF DecisionsOK

LEMMA DecisionsCut ==
  ASSUME NEW as, NEW lv, NEW rs, NEW tr, NEW tl, DecisionsOK(lv, rs, tr, tl), LevelsOK(lv, tr, tl),
         NEW bs, NEW qs, NEW br, NEW bl, NEW n,
         CutTo(as, lv, rs, tr, tl, bs, qs, br, bl, n)
  PROVE  DecisionsOK(lv, qs, br, bl)
<1>1. ASSUME NEW i \in 1 .. Len(br), lv[var(br[i])] > 0, qs[var(br[i])] = NULL
      PROVE  i = bl[lv[var(br[i])]] + 1
  <2>1. i \in 1 .. Len(tr) /\ i <= Len(br)
    BY DEF CutTo
  <2>2. br[i] = tr[i] /\ qs[var(br[i])] = rs[var(tr[i])]
    BY DEF CutTo
  <2>3. lv[var(tr[i])] \in 0 .. Len(tl) /\ lv[var(tr[i])] <= n /\ n \in Nat
    BY <2>1 DEF LevelsOK, CutTo
  <2>4. lv[var(tr[i])] \in 1 .. n
    BY <1>1, <2>2, <2>3
  <2>5. QED
    BY <1>1, <2>1, <2>2, <2>4 DEF DecisionsOK, CutTo
<1>2. QED
  BY <1>1 DEF DecisionsOK

LEMMA QueuePush ==
  ASSUME NEW as, NEW lv, NEW rs, NEW tr, NEW tl, NEW qh, NEW td, QueueOK(lv, tr, tl, qh, td),
         NEW bs, NEW mv, NEW qs, NEW br, NEW p, NEW r,
         Pushed(as, lv, rs, tr, bs, mv, qs, br, p, Len(tl), r)
  PROVE  QueueOK(mv, br, tl, qh, td)
<1>1. Len(tr) \in Nat /\ Len(br) = Len(tr) + 1
  BY DEF Pushed
<1>2. ASSUME NEW i \in 1 .. Len(br), i > qh \/ (i = qh /\ td # {})
      PROVE  mv[var(br[i])] = Len(tl)
  <2>1. CASE i \in 1 .. Len(tr)
    <3>1. var(tr[i]) = var(br[i]) /\ mv[var(br[i])] = lv[var(tr[i])]
      BY <2>1 DEF Pushed
    <3>2. QED
      BY <2>1, <3>1, <1>2 DEF QueueOK
  <2>2. CASE i = Len(tr) + 1
    BY <1>2, <2>2 DEF Pushed
  <2>3. QED
    BY <1>1, <2>1, <2>2
<1>3. QED
  BY <1>2 DEF QueueOK

LEMMA QueueDecide ==
  ASSUME NEW as, NEW lv, NEW rs, NEW tr, NEW tl, NEW bl, Len(bl) = Len(tl) + 1,
         NEW bs, NEW mv, NEW qs, NEW br, NEW p, NEW r,
         Pushed(as, lv, rs, tr, bs, mv, qs, br, p, Len(tl) + 1, r)
  PROVE  QueueOK(mv, br, bl, Len(tr), {})
<1>1. Len(tr) \in Nat /\ Len(br) = Len(tr) + 1
  BY DEF Pushed
<1>2. ASSUME NEW i \in 1 .. Len(br), i > Len(tr)
      PROVE  mv[var(br[i])] = Len(bl)
  <2>1. i = Len(tr) + 1
    BY <1>1, <1>2
  <2>2. QED
    BY <2>1 DEF Pushed
<1>3. QED
  BY <1>2 DEF QueueOK

(* A reason looks only at the trail up to its literal.                     *)
SameUpTo(as, lv, tr, bs, mv, br, i) ==
  \A j \in 1 .. i : br[j] = tr[j] /\ bs[var(tr[j])] = as[var(tr[j])]
                                  /\ mv[var(tr[j])] = lv[var(tr[j])]

LEMMA ReasonSame ==
  ASSUME NEW as, NEW lv, NEW tr, NEW cl, NEW r, NEW i \in Nat, ReasonOK(as, lv, tr, cl, r, i),
         NEW bs, NEW mv, NEW br,
         SameUpTo(as, lv, tr, bs, mv, br, i), i > 0
  PROVE  ReasonOK(bs, mv, br, cl, r, i)
<1>1. \A q \in OthersIn(r, cl) : \E j \in 1 .. i - 1 : var(tr[j]) = var(q)
  BY DEF ReasonOK
<1>2. ASSUME NEW q \in OthersIn(r, cl)
      PROVE  /\ \E j \in 1 .. i - 1 : var(br[j]) = var(q)
             /\ bs[var(q)] = as[var(q)] /\ mv[var(q)] = lv[var(q)]
  <2>1. PICK j \in 1 .. i - 1 : var(tr[j]) = var(q)
    BY <1>1
  <2>2. j \in 1 .. i
    OBVIOUS
  <2>3. br[j] = tr[j] /\ bs[var(tr[j])] = as[var(tr[j])] /\ mv[var(tr[j])] = lv[var(tr[j])]
    BY <2>2 DEF SameUpTo
  <2>4. QED
    BY <2>1, <2>3
<1>3. \A q \in OthersIn(r, cl) : bs[var(q)] = as[var(q)] /\ mv[var(q)] = lv[var(q)]
  BY <1>2
<1>4. i \in 1 .. i
  OBVIOUS
<1>5. br[i] = tr[i] /\ mv[var(tr[i])] = lv[var(tr[i])]
  BY <1>4 DEF SameUpTo
<1>6. r[1] = "lit" => r[2] \in OthersIn(r, cl)
  BY DEF OthersIn
<1>7. r[1] = "lit" => bs[var(r[2])] = r[2]
  BY <1>3, <1>6 DEF ReasonOK
<1>8. r[1] = "clause" => /\ cl[r[2]] # Free
                         /\ cl[r[2]].first = br[i]
                         /\ \A q \in OthersIn(r, cl) : bs[var(q)] = - q
  BY <1>3, <1>5 DEF ReasonOK
<1>9. \E q \in OthersIn(r, cl) : mv[var(q)] = mv[var(br[i])]
  BY <1>3, <1>5 DEF ReasonOK
<1>10. QED
  BY <1>2, <1>7, <1>8, <1>9 DEF ReasonOK

(* What enqueue needs of a reason r for p at level l.                      *)
Unit(as, lv, cl, r, p, l) ==
  /\ r[1] = "lit" => as[var(r[2])] = r[2]
  /\ r[1] = "clause" => /\ cl[r[2]] # Free
                        /\ cl[r[2]].first = p
                        /\ \A q \in OthersIn(r, cl) : as[var(q)] = - q
  /\ \A q \in OthersIn(r, cl) : var(q) \in Var /\ as[var(q)] # l_Undef
  /\ \E q \in OthersIn(r, cl) : lv[var(q)] = l

LEMMA UnitIsReason ==
  ASSUME NEW as, NEW lv, NEW rs, NEW tr \in Seq(Lit), TrailOK(as, tr),
         NEW bs, NEW mv, NEW qs, NEW br, NEW p, NEW l, NEW r, NEW cl,
         Pushed(as, lv, rs, tr, bs, mv, qs, br, p, l, r),
         Unit(as, lv, cl, r, p, l)
  PROVE  ReasonOK(bs, mv, br, cl, r, Len(br))
<1>0. Placed(as, tr)
  BY OnTrail
<1>1. Len(tr) \in Nat /\ Len(br) = Len(tr) + 1 /\ br[Len(br)] = p /\ mv[var(p)] = l
  BY DEF Pushed
<1>2. ASSUME NEW q \in OthersIn(r, cl)
      PROVE  /\ bs[var(q)] = as[var(q)] /\ mv[var(q)] = lv[var(q)]
             /\ \E j \in 1 .. Len(br) - 1 : var(br[j]) = var(q)
  <2>1. var(q) \in Var /\ as[var(q)] # l_Undef
    BY DEF Unit
  <2>2. PICK j \in 1 .. Len(tr) : tr[j] = as[var(q)] /\ var(tr[j]) = var(q)
    BY <1>0, <2>1 DEF Placed
  <2>3. br[j] = tr[j] /\ var(tr[j]) # var(p)
    BY DEF Pushed
  <2>4. bs[var(q)] = as[var(q)] /\ mv[var(q)] = lv[var(q)]
    BY <2>1, <2>2, <2>3 DEF Pushed
  <2>5. j \in 1 .. Len(br) - 1
    BY <1>1
  <2>6. var(br[j]) = var(q)
    BY <2>2, <2>3
  <2>7. QED
    BY <2>4, <2>5, <2>6
<1>3. r[1] = "lit" => r[2] \in OthersIn(r, cl)
  BY DEF OthersIn
<1>4. r[1] = "lit" => bs[var(r[2])] = r[2]
  BY <1>2, <1>3 DEF Unit
<1>5. r[1] = "clause" => /\ cl[r[2]] # Free
                         /\ cl[r[2]].first = br[Len(br)]
                         /\ \A q \in OthersIn(r, cl) : bs[var(q)] = - q
  BY <1>1, <1>2 DEF Unit
<1>6. \E q \in OthersIn(r, cl) : mv[var(q)] = mv[var(br[Len(br)])]
  <2>1. PICK q \in OthersIn(r, cl) : lv[var(q)] = l
    BY DEF Unit
  <2>2. mv[var(q)] = l
    BY <1>2, <2>1
  <2>3. QED
    BY <1>1, <2>2
<1>7. QED
  BY <1>2, <1>4, <1>5, <1>6 DEF ReasonOK

LEMMA ReasonsPush ==
  ASSUME NEW as, NEW lv, NEW rs \in [Var -> GClauses], NEW tr, NEW cl, ReasonsOK(as, lv, rs, tr, cl),
         NEW bs, NEW mv, NEW qs, NEW br, NEW p, NEW l, NEW r,
         Pushed(as, lv, rs, tr, bs, mv, qs, br, p, l, r),
         r # NULL => ReasonOK(bs, mv, br, cl, r, Len(br))
  PROVE  ReasonsOK(bs, mv, qs, br, cl)
<1>1. Len(tr) \in Nat /\ Len(br) = Len(tr) + 1
  BY DEF Pushed
<1>2. ASSUME NEW x \in Var, qs[x] # NULL PROVE bs[x] # l_Undef
  <2>1. CASE x = var(p)
    <3>1. bs[x] = p /\ p \in Lit
      BY <2>1 DEF Pushed
    <3>2. QED
      BY <3>1, LitFacts DEF l_Undef
  <2>2. CASE x # var(p)
    <3>1. bs[x] = as[x] /\ qs[x] = rs[x]
      BY <2>2 DEF Pushed
    <3>2. QED
      BY <1>2, <3>1 DEF ReasonsOK
  <2>3. QED
    BY <2>1, <2>2
<1>3. ASSUME NEW i \in 1 .. Len(br), qs[var(br[i])] # NULL
      PROVE  ReasonOK(bs, mv, br, cl, qs[var(br[i])], i)
  <2>1. CASE i = Len(br)
    <3>1. qs[var(br[i])] = r
      BY <1>1, <2>1 DEF Pushed
    <3>2. QED
      BY <2>1, <1>3, <3>1
  <2>2. CASE i # Len(br)
    <3>1. i \in 1 .. Len(tr) /\ i \in Nat /\ i > 0
      BY <1>1, <2>2
    <3>2. ASSUME NEW j \in 1 .. Len(tr)
          PROVE  /\ br[j] = tr[j] /\ bs[var(tr[j])] = as[var(tr[j])]
                 /\ mv[var(tr[j])] = lv[var(tr[j])] /\ qs[var(tr[j])] = rs[var(tr[j])]
                 /\ var(tr[j]) \in Var
      BY DEF Pushed
    <3>3. qs[var(br[i])] = rs[var(tr[i])] /\ rs[var(tr[i])] \in GClauses
      BY <3>1, <3>2
    <3>4. ReasonOK(as, lv, tr, cl, rs[var(tr[i])], i)
      BY <1>3, <3>1, <3>3 DEF ReasonsOK
    <3>5. \A j \in 1 .. i : j \in 1 .. Len(tr)
      BY <1>1, <3>1
    <3>6. SameUpTo(as, lv, tr, bs, mv, br, i)
      BY <3>2, <3>5 DEF SameUpTo
    <3>8. ReasonOK(bs, mv, br, cl, rs[var(tr[i])], i)
      BY <3>1, <3>4, <3>6, ReasonSame
    <3>9. QED
      BY <3>3, <3>8
  <2>3. QED
    BY <2>1, <2>2
<1>4. QED
  BY <1>2, <1>3 DEF ReasonsOK

LEMMA ReasonsCut ==
  ASSUME NEW as, NEW lv, NEW rs \in [Var -> GClauses], NEW tr, NEW tl, NEW cl,
         ReasonsOK(as, lv, rs, tr, cl),
         NEW bs, NEW qs, NEW br, NEW bl, NEW n,
         CutTo(as, lv, rs, tr, tl, bs, qs, br, bl, n)
  PROVE  ReasonsOK(bs, lv, qs, br, cl)
<1>1. Len(tr) \in Nat /\ Len(br) \in 0 .. Len(tr)
  BY DEF CutTo
<1>2. ASSUME NEW x \in Var, qs[x] # NULL PROVE bs[x] # l_Undef
  <2>1. bs[x] = as[x] /\ qs[x] = rs[x]
    BY <1>2 DEF CutTo
  <2>2. QED
    BY <1>2, <2>1 DEF ReasonsOK
<1>3. ASSUME NEW i \in 1 .. Len(br), qs[var(br[i])] # NULL
      PROVE  ReasonOK(bs, lv, br, cl, qs[var(br[i])], i)
  <2>1. i \in 1 .. Len(tr) /\ i \in Nat /\ i > 0
    BY <1>1
  <2>2. ASSUME NEW j \in 1 .. Len(br)
        PROVE  /\ br[j] = tr[j] /\ bs[var(tr[j])] = as[var(tr[j])]
               /\ qs[var(tr[j])] = rs[var(tr[j])] /\ var(tr[j]) \in Var
    BY DEF CutTo
  <2>3. qs[var(br[i])] = rs[var(tr[i])] /\ rs[var(tr[i])] \in GClauses
    BY <2>2
  <2>4. ReasonOK(as, lv, tr, cl, rs[var(tr[i])], i)
    BY <1>3, <2>1, <2>3 DEF ReasonsOK
  <2>5. \A j \in 1 .. i : j \in 1 .. Len(br)
    BY <1>1, <2>1
  <2>6. SameUpTo(as, lv, tr, bs, lv, br, i)
    BY <2>2, <2>5 DEF SameUpTo
  <2>8. ReasonOK(bs, lv, br, cl, rs[var(tr[i])], i)
    BY <2>1, <2>4, <2>6, ReasonSame
  <2>9. QED
    BY <2>3, <2>8
<1>4. QED
  BY <1>2, <1>3 DEF ReasonsOK

(* Facts of level 0 stay.                                                  *)
RootsKept(as, lv, rs, bs, mv, qs) ==
  \A x \in Var : as[x] # l_Undef /\ lv[x] = 0 => bs[x] = as[x] /\ mv[x] = 0 /\ qs[x] = rs[x]

LEMMA PushKeepsRoots ==
  ASSUME NEW as, NEW lv, NEW rs, NEW tr, NEW bs, NEW mv, NEW qs, NEW br, NEW p, NEW l, NEW r,
         Pushed(as, lv, rs, tr, bs, mv, qs, br, p, l, r)
  PROVE  RootsKept(as, lv, rs, bs, mv, qs)
BY DEF RootsKept, Pushed

LEMMA CutKeepsRoots ==
  ASSUME NEW as, NEW lv, NEW rs, NEW tr, NEW tl, NEW bs, NEW qs, NEW br, NEW bl, NEW n,
         CutTo(as, lv, rs, tr, tl, bs, qs, br, bl, n)
  PROVE  RootsKept(as, lv, rs, bs, lv, qs)
<1>1. n >= 0
  BY DEF CutTo
<1>2. QED
  BY <1>1 DEF RootsKept, CutTo

LEMMA GClauseIs ==
  ASSUME NEW w \in GClauses
  PROVE  \/ \E p \in Lit : w = Literal(p) /\ w[1] = "lit" /\ w[2] = p /\ p \in Lit
         \/ \E c \in Address : w = Pointer(c) /\ w[1] = "clause" /\ w[2] = c /\ c \in Address
         \/ w = NULL /\ w[1] = "null"
BY DEF GClauses, Literal, Pointer, NULL

LEMMA WatchIs ==
  ASSUME NEW w \in GClauses \ {NULL}
  PROVE  \/ w[1] = "lit" /\ w[2] \in Lit /\ w = Literal(w[2])
         \/ w[1] = "clause" /\ w[2] \in Address /\ w = Pointer(w[2])
BY GClauseIs

LEMMA TagsDiffer ==
  /\ \A p, q : Literal(p) = Literal(q) <=> p = q
  /\ \A c, d : Pointer(c) = Pointer(d) <=> c = d
  /\ \A p, c : Literal(p) # Pointer(c) /\ Literal(p) # NULL /\ Pointer(c) # NULL
  /\ \A p : Literal(p)[1] = "lit" /\ Literal(p)[2] = p
  /\ \A c : Pointer(c)[1] = "clause" /\ Pointer(c)[2] = c
  /\ NULL[1] = "null"
BY DEF Literal, Pointer, NULL

LEMMA ClauseType ==
  ASSUME NEW cl \in [Address -> Clauses \cup {Free}], NEW c \in Address, cl[c] # Free
  PROVE  /\ cl[c].learnt \in BOOLEAN /\ cl[c].first \in Lit /\ cl[c].second \in Lit
         /\ cl[c].rest \subseteq Lit
<1>1. cl[c] \in Clauses
  OBVIOUS
<1>2. QED
  BY <1>1 DEF Clauses

LEMMA OtherType ==
  ASSUME NEW cl \in [Address -> Clauses \cup {Free}], NEW wt \in [Lit -> SUBSET (GClauses \ {NULL})],
         PointersOK(wt, cl), NEW p \in Lit, NEW w \in wt[p]
  PROVE  OtherWatch(w, p, cl) \in Lit
<1>1. w \in GClauses \ {NULL}
  OBVIOUS
<1>2. CASE w[1] = "lit" /\ w[2] \in Lit /\ w = Literal(w[2])
  BY <1>2 DEF OtherWatch
<1>3. CASE w[1] = "clause" /\ w[2] \in Address /\ w = Pointer(w[2])
  <2>1. cl[w[2]] # Free
    BY <1>3 DEF PointersOK
  <2>2. cl[w[2]].first \in Lit /\ cl[w[2]].second \in Lit
    BY <1>3, <2>1, ClauseType
  <2>3. QED
    BY <1>3, <2>2 DEF OtherWatch
<1>4. QED
  BY <1>1, <1>2, <1>3, WatchIs

LEMMA SweptAssign ==
  ASSUME NEW as, NEW lv, NEW rs, NEW cl \in [Address -> Clauses \cup {Free}], NEW wt, NEW C,
         C \subseteq Lit, SweptOK(as, lv, rs, cl, wt, C),
         NEW bs, NEW mv, NEW qs, RootsKept(as, lv, rs, bs, mv, qs)
  PROVE  SweptOK(bs, mv, qs, cl, wt, C)
<1>1. ASSUME NEW p \in Lit, as[var(p)] = p, lv[var(p)] = 0
      PROVE  bs[var(p)] = p /\ mv[var(p)] = 0 /\ qs[var(p)] = rs[var(p)]
  BY <1>1, LitFacts DEF RootsKept, l_Undef
<1>2. \A p \in C : bs[var(p)] = p /\ mv[var(p)] = 0 /\ wt[p] = {} /\ wt[- p] = {}
  BY <1>1 DEF SweptOK
<1>3. ASSUME NEW c \in Address, cl[c] # Free, Retired(as, lv, rs, cl, c)
      PROVE  Retired(bs, mv, qs, cl, c)
  <2>1. cl[c].first \in Lit
    BY <1>3, ClauseType
  <2>2. QED
    BY <1>1, <1>3, <2>1 DEF Retired
<1>4. QED
  BY <1>2, <1>3 DEF SweptOK

LEMMA WatchPush ==
  ASSUME NEW as, NEW lv, NEW rs, NEW tr, NEW cl \in [Address -> Clauses \cup {Free}],
         NEW wt \in [Lit -> SUBSET (GClauses \ {NULL})], PointersOK(wt, cl),
         NEW qh \in 0 .. Len(tr), NEW td, NEW u, WatchOK(as, lv, tr, wt, cl, qh, td, u),
         NEW bs, NEW mv, NEW qs, NEW br, NEW p, NEW l, NEW r,
         Pushed(as, lv, rs, tr, bs, mv, qs, br, p, l, r)
  PROVE  WatchOK(bs, mv, br, wt, cl, qh, td, u)
<1>1. Len(tr) \in Nat /\ Len(br) = Len(tr) + 1
  BY DEF Pushed
<1>2. SUFFICES ASSUME NEW i \in 1 .. Len(br), NEW w \in wt[br[i]],
                      mv[var(br[i])] < u, i <= qh, ~ (i = qh /\ w \in td)
               PROVE  /\ bs[var(OtherWatch(w, br[i], cl))] = OtherWatch(w, br[i], cl)
                      /\ mv[var(OtherWatch(w, br[i], cl))] <= mv[var(br[i])]
  BY DEF WatchOK
<1>3. i \in 1 .. Len(tr)
  BY <1>1, <1>2
<1>4. br[i] = tr[i] /\ mv[var(tr[i])] = lv[var(tr[i])] /\ tr[i] \in Lit
  BY <1>3 DEF Pushed
<1> DEFINE o == OtherWatch(w, tr[i], cl)
<1>5. w \in wt[tr[i]]
  BY <1>2, <1>4
<1>6. o \in Lit
  BY <1>4, <1>5, OtherType
<1>7. as[var(o)] = o /\ lv[var(o)] <= lv[var(tr[i])]
  BY <1>2, <1>3, <1>4, <1>5 DEF WatchOK
<1>8. var(o) \in Var /\ o # l_Undef
  BY <1>6, LitFacts DEF l_Undef
<1> HIDE DEF o
<1>9. bs[var(o)] = as[var(o)] /\ mv[var(o)] = lv[var(o)]
  BY <1>7, <1>8 DEF Pushed
<1>10. bs[var(o)] = o /\ mv[var(o)] <= mv[var(br[i])]
  BY <1>4, <1>7, <1>9
<1>11. QED
  BY <1>4, <1>10 DEF o

LEMMA WatchCut ==
  ASSUME NEW as, NEW lv, NEW rs, NEW tr, NEW tl, NEW cl \in [Address -> Clauses \cup {Free}],
         NEW wt \in [Lit -> SUBSET (GClauses \ {NULL})], PointersOK(wt, cl),
         NEW u \in Int, WatchOK(as, lv, tr, wt, cl, Len(tr), {}, u),
         NEW bs, NEW qs, NEW br, NEW bl, NEW n, n < u, lv \in [Var -> Nat \cup {-1}],
         CutTo(as, lv, rs, tr, tl, bs, qs, br, bl, n)
  PROVE  WatchOK(bs, lv, br, wt, cl, Len(br), {}, n + 1)
<1>1. Len(tr) \in Nat /\ Len(br) \in 0 .. Len(tr) /\ n \in Nat
  BY DEF CutTo
<1>2. SUFFICES ASSUME NEW i \in 1 .. Len(br), NEW w \in wt[br[i]]
               PROVE  /\ bs[var(OtherWatch(w, br[i], cl))] = OtherWatch(w, br[i], cl)
                      /\ lv[var(OtherWatch(w, br[i], cl))] <= lv[var(br[i])]
  BY DEF WatchOK
<1>3. i \in 1 .. Len(tr) /\ i <= Len(br) /\ i <= Len(tr)
  BY <1>1, <1>2
<1>4. br[i] = tr[i] /\ tr[i] \in Lit /\ var(tr[i]) \in Var
  BY DEF CutTo
<1>5. lv[var(tr[i])] <= n
  BY <1>3 DEF CutTo
<1>6. lv[var(tr[i])] < u
  BY <1>1, <1>4, <1>5
<1> DEFINE o == OtherWatch(w, tr[i], cl)
<1>7. w \in wt[tr[i]]
  BY <1>2, <1>4
<1>8. o \in Lit
  BY <1>4, <1>7, OtherType
<1>9. as[var(o)] = o /\ lv[var(o)] <= lv[var(tr[i])]
  BY <1>3, <1>6, <1>7 DEF WatchOK
<1>10. var(o) \in Var /\ o # l_Undef
  BY <1>8, LitFacts DEF l_Undef
<1> HIDE DEF o
<1>11. lv[var(o)] <= n
  BY <1>1, <1>4, <1>5, <1>9, <1>10
<1>12. bs[var(o)] = as[var(o)]
  BY <1>9, <1>10, <1>11 DEF CutTo
<1>13. bs[var(o)] = o /\ lv[var(o)] <= lv[var(br[i])]
  BY <1>4, <1>9, <1>12
<1>14. QED
  BY <1>4, <1>13 DEF o

LEMMA CoveredAssign ==
  ASSUME NEW as, NEW lv, NEW rs, NEW cl, NEW wt, NEW pb \in SUBSET SUBSET Lit,
         CoveredOK(as, lv, cl, wt, pb),
         NEW bs, NEW mv, NEW qs, RootsKept(as, lv, rs, bs, mv, qs)
  PROVE  CoveredOK(bs, mv, cl, wt, pb)
<1>1. ASSUME NEW p \in Lit, as[var(p)] = p, lv[var(p)] = 0
      PROVE  bs[var(p)] = p /\ mv[var(p)] = 0
  BY <1>1, LitFacts DEF RootsKept, l_Undef
<1>2. \A ps \in pb : \A p \in ps : p \in Lit
  OBVIOUS
<1>3. QED
  BY <1>1, <1>2 DEF CoveredOK

-----------------------------------------------------------------------------
(* Consequences of the problem.                                            *)

LEMMA AssignmentIs ==
  ASSUME NEW A \in Assignments, NEW p \in Lit
  PROVE  p \in A <=> - p \notin A
<1>1. PICK f \in [Var -> BOOLEAN] : A = {IF f[x] THEN x ELSE - x : x \in Var}
  BY DEF Assignments
<1>2. ASSUME NEW q \in Lit
      PROVE  q \in A <=> q = IF f[var(q)] THEN var(q) ELSE - var(q)
  <2>1. var(q) \in Var /\ (q = var(q) \/ q = - var(q))
    BY LitFacts
  <2>2. ASSUME NEW x \in Var, q = IF f[x] THEN x ELSE - x PROVE x = var(q)
    BY <2>2, VarFacts
  <2>3. QED
    BY <1>1, <2>1, <2>2
<1>3. DEFINE x == var(p)
<1>4. /\ x \in Var /\ x \in Int /\ x > 0 /\ x # - x
      /\ - p \in Lit /\ var(- p) = x /\ (p = x \/ p = - x) /\ p \in Int
  BY LitFacts, VarFacts
<1>5. p \in A <=> p = IF f[x] THEN x ELSE - x
  BY <1>2
<1>6. - p \in A <=> - p = IF f[x] THEN x ELSE - x
  BY <1>2, <1>4
<1> HIDE DEF x
<1>7. CASE f[x]
  BY <1>4, <1>5, <1>6, <1>7
<1>8. CASE ~ f[x]
  BY <1>4, <1>5, <1>6, <1>8
<1>9. QED
  BY <1>7, <1>8

LEMMA ImpliedMore ==
  ASSUME NEW pb, NEW qb, pb \subseteq qb, NEW ps, NEW qs, ps \subseteq qs, ImpliedBy(pb, ps)
  PROVE  ImpliedBy(qb, qs)
BY DEF ImpliedBy, Satisfies

(* A clause without literals whose negations follow.                       *)
LEMMA Resolved ==
  ASSUME NEW pb, NEW S, S \subseteq Lit, ImpliedBy(pb, S), NEW T,
         \A q \in S \ T : ImpliedBy(pb, {- q})
  PROVE  ImpliedBy(pb, T)
<1>1. SUFFICES ASSUME NEW A \in Assignments, Satisfies(A, pb)
               PROVE  T \cap A # {}
  BY DEF ImpliedBy
<1>2. PICK q \in S : q \in A
  BY <1>1 DEF ImpliedBy
<1>3. CASE q \in T
  BY <1>2, <1>3
<1>4. CASE q \notin T
  <2>1. - q \in A
    BY <1>1, <1>4 DEF ImpliedBy
  <2>2. q \in Lit
    OBVIOUS
  <2>3. QED
    BY <1>2, <2>1, <2>2, AssignmentIs
<1>5. QED
  BY <1>3, <1>4

LEMMA FactsPush ==
  ASSUME NEW pb, NEW as, NEW lv, NEW rs, NEW tr, KnownFactsOK(pb, lv, rs, tr),
         NEW bs, NEW mv, NEW qs, NEW br, NEW p, NEW l, NEW r,
         Pushed(as, lv, rs, tr, bs, mv, qs, br, p, l, r),
         l = 0 => ImpliedBy(pb, {p}), r[1] = "lit" => ImpliedBy(pb, {p, - r[2]})
  PROVE  KnownFactsOK(pb, mv, qs, br)
<1>1. Len(tr) \in Nat /\ Len(br) = Len(tr) + 1
  BY DEF Pushed
<1>2. ASSUME NEW i \in 1 .. Len(br)
      PROVE  /\ mv[var(br[i])] = 0 => ImpliedBy(pb, {br[i]})
             /\ qs[var(br[i])][1] = "lit" => ImpliedBy(pb, {br[i], - qs[var(br[i])][2]})
  <2>1. CASE i \in 1 .. Len(tr)
    <3>1. br[i] = tr[i] /\ mv[var(tr[i])] = lv[var(tr[i])] /\ qs[var(tr[i])] = rs[var(tr[i])]
      BY <2>1 DEF Pushed
    <3>2. QED
      BY <2>1, <3>1 DEF KnownFactsOK
  <2>2. CASE i = Len(tr) + 1
    <3>1. br[i] = p /\ mv[var(p)] = l /\ qs[var(p)] = r
      BY <2>2 DEF Pushed
    <3>2. QED
      BY <3>1
  <2>3. QED
    BY <1>1, <2>1, <2>2
<1>3. QED
  BY <1>2 DEF KnownFactsOK

LEMMA FactsCut ==
  ASSUME NEW pb, NEW as, NEW lv, NEW rs, NEW tr, NEW tl, KnownFactsOK(pb, lv, rs, tr),
         NEW bs, NEW qs, NEW br, NEW bl, NEW n,
         CutTo(as, lv, rs, tr, tl, bs, qs, br, bl, n)
  PROVE  KnownFactsOK(pb, lv, qs, br)
<1>1. Len(tr) \in Nat /\ Len(br) \in 0 .. Len(tr)
  BY DEF CutTo
<1>2. ASSUME NEW i \in 1 .. Len(br)
      PROVE  /\ lv[var(br[i])] = 0 => ImpliedBy(pb, {br[i]})
             /\ qs[var(br[i])][1] = "lit" => ImpliedBy(pb, {br[i], - qs[var(br[i])][2]})
  <2>1. i \in 1 .. Len(tr)
    BY <1>1
  <2>2. br[i] = tr[i] /\ qs[var(tr[i])] = rs[var(tr[i])]
    BY DEF CutTo
  <2>3. QED
    BY <2>1, <2>2 DEF KnownFactsOK
<1>3. QED
  BY <1>2 DEF KnownFactsOK

(* The literals that are true at level 0 follow from the problem.          *)
LEMMA RootImplied ==
  ASSUME NEW pb, NEW as, NEW lv, NEW rs, NEW tr \in Seq(Lit), TrailOK(as, tr),
         KnownFactsOK(pb, lv, rs, tr),
         NEW p \in Lit, as[var(p)] = p, lv[var(p)] = 0
  PROVE  ImpliedBy(pb, {p})
<1>0. Placed(as, tr)
  BY OnTrail
<1>1. var(p) \in Var /\ as[var(p)] # l_Undef
  BY LitFacts DEF l_Undef
<1>2. PICK i \in 1 .. Len(tr) : tr[i] = as[var(p)] /\ var(tr[i]) = var(p)
  BY <1>0, <1>1 DEF Placed
<1>3. QED
  BY <1>2 DEF KnownFactsOK

-----------------------------------------------------------------------------
(* What happens to the clauses and the watch lists.                        *)

(***************************************************************************)
(* Clauses whose first literal is false have it as their second one.       *)
(***************************************************************************)
SwapTo(as, cl, dl) ==
  \A c \in Address :
    \/ dl[c] = cl[c]
    \/ /\ cl[c] # Free /\ dl[c] # Free
       /\ dl[c].learnt = cl[c].learnt /\ dl[c].rest = cl[c].rest
       /\ dl[c].first = cl[c].second /\ dl[c].second = cl[c].first
       /\ as[var(cl[c].first)] = - cl[c].first

(* What the order of the watches does not change.                          *)
Alike(as, cl, dl) ==
  \A c \in Address :
    /\ dl[c] = Free <=> cl[c] = Free
    /\ dl[c].learnt = cl[c].learnt
    /\ {dl[c].first, dl[c].second} = {cl[c].first, cl[c].second}
    /\ {dl[c].first, dl[c].second} \cup dl[c].rest = {cl[c].first, cl[c].second} \cup cl[c].rest
    /\ cl[c] # Free /\ as[var(cl[c].first)] = cl[c].first => dl[c] = cl[c]

LEMMA SwapAlike ==
  ASSUME NEW as, NEW cl \in [Address -> Clauses \cup {Free}], NEW dl, SwapTo(as, cl, dl)
  PROVE  Alike(as, cl, dl)
<1>1. ASSUME NEW c \in Address, dl[c] # cl[c]
      PROVE  /\ cl[c] # Free /\ dl[c] # Free
             /\ dl[c].learnt = cl[c].learnt /\ dl[c].rest = cl[c].rest
             /\ dl[c].first = cl[c].second /\ dl[c].second = cl[c].first
             /\ as[var(cl[c].first)] # cl[c].first
  <2>1. /\ cl[c] # Free /\ dl[c] # Free
        /\ dl[c].learnt = cl[c].learnt /\ dl[c].rest = cl[c].rest
        /\ dl[c].first = cl[c].second /\ dl[c].second = cl[c].first
        /\ as[var(cl[c].first)] = - cl[c].first
    BY <1>1 DEF SwapTo
  <2>2. cl[c].first \in Lit
    BY <2>1, ClauseType
  <2>3. cl[c].first # - cl[c].first
    BY <2>2, LitFacts
  <2>4. QED
    BY <2>1, <2>3
<1>2. QED
  BY <1>1 DEF Alike

LEMMA SwapReasons ==
  ASSUME NEW as, NEW cl \in [Address -> Clauses \cup {Free}], NEW dl, SwapTo(as, cl, dl),
         NEW lv, NEW rs \in [Var -> GClauses], NEW tr \in Seq(Lit), TrailOK(as, tr),
         ReasonsOK(as, lv, rs, tr, cl)
  PROVE  ReasonsOK(as, lv, rs, tr, dl)
<1>0. Placed(as, tr)
  BY OnTrail
<1>1. ASSUME NEW i \in 1 .. Len(tr), rs[var(tr[i])] # NULL
      PROVE  ReasonOK(as, lv, tr, dl, rs[var(tr[i])], i)
  <2> DEFINE r == rs[var(tr[i])]
  <2>1. ReasonOK(as, lv, tr, cl, r, i)
    BY <1>1 DEF ReasonsOK
  <2>2. r \in GClauses \ {NULL} /\ as[var(tr[i])] = tr[i]
    BY <1>0, <1>1 DEF Placed
  <2> SUFFICES ReasonOK(as, lv, tr, dl, r, i)
    OBVIOUS
  <2> HIDE DEF r
  <2>3. CASE r[1] = "lit"
    <3>1. OthersIn(r, dl) = OthersIn(r, cl)
      BY <2>3 DEF OthersIn
    <3>2. QED
      BY <2>1, <2>3, <3>1 DEF ReasonOK
  <2>4. CASE r[1] = "clause" /\ r[2] \in Address
    <3>1. cl[r[2]] # Free /\ cl[r[2]].first = tr[i]
      BY <2>1, <2>4 DEF ReasonOK
    <3>2. dl[r[2]] = cl[r[2]]
      <4>1. Alike(as, cl, dl)
        BY SwapAlike
      <4>2. QED
        BY <2>2, <2>4, <3>1, <4>1 DEF Alike
    <3>3. OthersIn(r, dl) = OthersIn(r, cl)
      BY <2>4, <3>2 DEF OthersIn
    <3>4. QED
      BY <2>1, <2>4, <3>2, <3>3 DEF ReasonOK
  <2>5. QED
    BY <2>2, <2>3, <2>4, WatchIs
<1>2. QED
  BY <1>1 DEF ReasonsOK

LEMMA SwapClauses ==
  ASSUME NEW as, NEW cl \in [Address -> Clauses \cup {Free}], NEW dl, SwapTo(as, cl, dl),
         ClausesOK(cl)
  PROVE  ClausesOK(dl)
<1>0. Alike(as, cl, dl)
  BY SwapAlike
<1>1. ASSUME NEW c \in Address, dl[c] # Free
      PROVE  dl[c].first # dl[c].second /\ dl[c].first \notin dl[c].rest /\ dl[c].second \notin dl[c].rest
  <2>1. cl[c] # Free
    BY <1>0, <1>1 DEF Alike
  <2>2. cl[c].first # cl[c].second /\ cl[c].first \notin cl[c].rest /\ cl[c].second \notin cl[c].rest
    BY <2>1 DEF ClausesOK
  <2>3. QED
    BY <2>2 DEF SwapTo
<1>2. QED
  BY <1>1 DEF ClausesOK

LEMMA SwapPointers ==
  ASSUME NEW as, NEW cl \in [Address -> Clauses \cup {Free}], NEW dl, SwapTo(as, cl, dl),
         NEW wt, PointersOK(wt, cl)
  PROVE  PointersOK(wt, dl)
<1>0. Alike(as, cl, dl)
  BY SwapAlike
<1>1. ASSUME NEW p \in Lit, NEW c \in Address, Pointer(c) \in wt[p]
      PROVE  dl[c] # Free /\ - p \in {dl[c].first, dl[c].second}
  <2>1. cl[c] # Free /\ - p \in {cl[c].first, cl[c].second}
    BY <1>1 DEF PointersOK
  <2>2. (dl[c] = Free <=> cl[c] = Free) /\ {dl[c].first, dl[c].second} = {cl[c].first, cl[c].second}
    BY <1>0 DEF Alike
  <2>3. QED
    BY <2>1, <2>2
<1>2. QED
  BY <1>1 DEF PointersOK

LEMMA SwapSwept ==
  ASSUME NEW as, NEW cl \in [Address -> Clauses \cup {Free}], NEW dl, SwapTo(as, cl, dl),
         NEW lv, NEW rs, NEW wt, NEW C, SweptOK(as, lv, rs, cl, wt, C)
  PROVE  SweptOK(as, lv, rs, dl, wt, C)
<1>0. Alike(as, cl, dl)
  BY SwapAlike
<1>1. ASSUME NEW c \in Address, dl[c] # Free
      PROVE  /\ Held(wt, C, c, dl[c].first) /\ Held(wt, C, c, dl[c].second)
             /\ \/ Retired(as, lv, rs, dl, c)
                \/ /\ \A p \in {dl[c].first, dl[c].second} \cup dl[c].rest : p \notin C
                   /\ - dl[c].first \notin C /\ - dl[c].second \notin C
  <2>1. cl[c] # Free /\ {dl[c].first, dl[c].second} = {cl[c].first, cl[c].second}
        /\ {dl[c].first, dl[c].second} \cup dl[c].rest = {cl[c].first, cl[c].second} \cup cl[c].rest
    BY <1>0, <1>1 DEF Alike
  <2>2. Held(wt, C, c, dl[c].first) /\ Held(wt, C, c, dl[c].second)
    BY <2>1 DEF SweptOK, SwapTo
  <2>3. CASE Retired(as, lv, rs, cl, c)
    <3>1. dl[c] = cl[c]
      BY <1>0, <2>1, <2>3 DEF Retired, Alike
    <3>2. QED
      BY <2>2, <2>3, <3>1 DEF Retired
  <2>4. CASE ~ Retired(as, lv, rs, cl, c)
    <3>1. /\ \A p \in {cl[c].first, cl[c].second} \cup cl[c].rest : p \notin C
          /\ \A p \in {cl[c].first, cl[c].second} : - p \notin C
      BY <2>1, <2>4 DEF SweptOK
    <3>2. /\ \A p \in {dl[c].first, dl[c].second} \cup dl[c].rest : p \notin C
          /\ \A p \in {dl[c].first, dl[c].second} : - p \notin C
      BY <2>1, <3>1
    <3>3. QED
      BY <2>2, <3>2
  <2>5. QED
    BY <2>3, <2>4
<1>2. QED
  BY <1>1 DEF SweptOK

SameOthers(wt, cl, dl) ==
  \A p \in Lit : \A w \in wt[p] : OtherWatch(w, p, dl) = OtherWatch(w, p, cl)

LEMMA SwapWatch ==
  ASSUME NEW as, NEW cl \in [Address -> Clauses \cup {Free}], NEW dl, SwapTo(as, cl, dl),
         NEW wt \in [Lit -> SUBSET (GClauses \ {NULL})], PointersOK(wt, cl), ClausesOK(cl)
  PROVE  SameOthers(wt, cl, dl)
<1> SUFFICES ASSUME NEW p \in Lit, NEW w \in wt[p]
             PROVE  OtherWatch(w, p, dl) = OtherWatch(w, p, cl)
  BY DEF SameOthers
<1>1. w \in GClauses \ {NULL}
  OBVIOUS
<1>2. CASE w[1] = "lit"
  BY <1>2 DEF OtherWatch
<1>3. CASE w[1] = "clause" /\ w[2] \in Address /\ w = Pointer(w[2])
  <2> DEFINE c == w[2]
  <2>1. cl[c] # Free /\ - p \in {cl[c].first, cl[c].second} /\ cl[c].first # cl[c].second
    BY <1>3 DEF PointersOK, ClausesOK
  <2>2. dl[c] = cl[c] \/ (dl[c].first = cl[c].second /\ dl[c].second = cl[c].first)
    BY <1>3 DEF SwapTo
  <2>3. QED
    BY <1>3, <2>1, <2>2 DEF OtherWatch
<1>4. QED
  BY <1>1, <1>2, <1>3, WatchIs

LEMMA SwapWatches ==
  ASSUME NEW as, NEW cl \in [Address -> Clauses \cup {Free}], NEW dl, SwapTo(as, cl, dl),
         NEW wt \in [Lit -> SUBSET (GClauses \ {NULL})], PointersOK(wt, cl), ClausesOK(cl),
         NEW lv, NEW tr \in Seq(Lit), NEW qh, NEW td, NEW u, WatchOK(as, lv, tr, wt, cl, qh, td, u)
  PROVE  WatchOK(as, lv, tr, wt, dl, qh, td, u)
<1>1. SameOthers(wt, cl, dl)
  BY SwapWatch
<1>2. \A i \in 1 .. Len(tr) : tr[i] \in Lit
  BY ElementOfSeq
<1>3. QED
  BY <1>1, <1>2 DEF WatchOK, SameOthers

LEMMA SwapCovered ==
  ASSUME NEW as, NEW cl \in [Address -> Clauses \cup {Free}], NEW dl, SwapTo(as, cl, dl),
         NEW lv, NEW wt, NEW pb, CoveredOK(as, lv, cl, wt, pb)
  PROVE  CoveredOK(as, lv, dl, wt, pb)
<1>0. Alike(as, cl, dl)
  BY SwapAlike
<1>1. \A c \in Address :
        /\ dl[c] = Free <=> cl[c] = Free
        /\ dl[c].learnt = cl[c].learnt
        /\ {dl[c].first, dl[c].second} \cup dl[c].rest = {cl[c].first, cl[c].second} \cup cl[c].rest
  BY <1>0 DEF Alike
<1>2. QED
  BY <1>1 DEF CoveredOK


(***************************************************************************)
(* Lemmas for whatever leaves most of the database as it is.               *)
(***************************************************************************)
LEMMA ReasonsKept ==
  ASSUME NEW as, NEW lv, NEW rs \in [Var -> GClauses], NEW tr \in Seq(Lit), TrailOK(as, tr),
         NEW cl, ReasonsOK(as, lv, rs, tr, cl), NEW dl,
         \A x \in Var : \A c \in Address : rs[x] = Pointer(c) => dl[c] = cl[c]
  PROVE  ReasonsOK(as, lv, rs, tr, dl)
<1>0. Placed(as, tr)
  BY OnTrail
<1>1. ASSUME NEW i \in 1 .. Len(tr), rs[var(tr[i])] # NULL
      PROVE  ReasonOK(as, lv, tr, dl, rs[var(tr[i])], i)
  <2> DEFINE r == rs[var(tr[i])]
  <2>1. ReasonOK(as, lv, tr, cl, r, i)
    BY <1>1 DEF ReasonsOK
  <2>2. r \in GClauses \ {NULL} /\ var(tr[i]) \in Var
    BY <1>0, <1>1 DEF Placed
  <2>3. \A c \in Address : r = Pointer(c) => dl[c] = cl[c]
    BY <2>2
  <2> SUFFICES ReasonOK(as, lv, tr, dl, r, i)
    OBVIOUS
  <2> HIDE DEF r
  <2>4. CASE r[1] = "lit"
    <3>1. OthersIn(r, dl) = OthersIn(r, cl)
      BY <2>4 DEF OthersIn
    <3>2. QED
      BY <2>1, <2>4, <3>1 DEF ReasonOK
  <2>5. CASE r[1] = "clause" /\ r[2] \in Address /\ r = Pointer(r[2])
    <3>1. dl[r[2]] = cl[r[2]]
      BY <2>3, <2>5
    <3>2. OthersIn(r, dl) = OthersIn(r, cl)
      BY <2>5, <3>1 DEF OthersIn
    <3>3. QED
      BY <2>1, <2>5, <3>1, <3>2 DEF ReasonOK
  <2>6. QED
    BY <2>2, <2>4, <2>5, WatchIs
<1>2. QED
  BY <1>1 DEF ReasonsOK

(* The first literal of a clause that is a reason is true, the others not. *)
LockedTrue(as, rs, cl) ==
  \A x \in Var : \A c \in Address : rs[x] = Pointer(c) =>
    /\ cl[c] # Free /\ as[x] = cl[c].first /\ as[var(cl[c].first)] = cl[c].first
    /\ x = var(cl[c].first)
    /\ \A q \in {cl[c].second} \cup cl[c].rest : as[var(q)] = - q

LEMMA ReasonIsTrue ==
  ASSUME NEW as, NEW lv, NEW rs, NEW tr \in Seq(Lit), TrailOK(as, tr),
         NEW cl, ReasonsOK(as, lv, rs, tr, cl)
  PROVE  LockedTrue(as, rs, cl)
<1>0. Placed(as, tr)
  BY OnTrail
<1> SUFFICES ASSUME NEW x \in Var, NEW c \in Address, rs[x] = Pointer(c)
             PROVE  /\ cl[c] # Free /\ as[x] = cl[c].first /\ as[var(cl[c].first)] = cl[c].first
                    /\ x = var(cl[c].first)
                    /\ \A q \in {cl[c].second} \cup cl[c].rest : as[var(q)] = - q
  BY DEF LockedTrue
<1>1. rs[x] # NULL /\ rs[x][1] = "clause" /\ rs[x][2] = c
  BY TagsDiffer
<1>2. as[x] # l_Undef
  BY <1>1 DEF ReasonsOK
<1>3. PICK i \in 1 .. Len(tr) : tr[i] = as[x] /\ var(tr[i]) = x
  BY <1>0, <1>2 DEF Placed
<1>4. ReasonOK(as, lv, tr, cl, rs[x], i)
  BY <1>1, <1>3 DEF ReasonsOK
<1>5. OthersIn(rs[x], cl) = {cl[c].second} \cup cl[c].rest
  BY <1>1 DEF OthersIn
<1>6. cl[c] # Free /\ cl[c].first = tr[i] /\ \A q \in OthersIn(rs[x], cl) : as[var(q)] = - q
  BY <1>1, <1>4 DEF ReasonOK
<1>7. QED
  BY <1>3, <1>5, <1>6

SameBinaries(wt, vt) == \A p, q \in Lit : Literal(q) \in vt[p] <=> Literal(q) \in wt[p]

LEMMA BinaryKept ==
  ASSUME NEW wt, NEW vt, SameBinaries(wt, vt), BinaryOK(wt)
  PROVE  BinaryOK(vt)
<1>1. \A q \in Lit : - q \in Lit
  BY LitFacts
<1>2. QED
  BY <1>1 DEF SameBinaries, BinaryOK

(* The clauses of the problem stay.                                        *)
StillThere(cl, wt, dl, vt) ==
  /\ \A c \in Address : cl[c] # Free /\ ~ cl[c].learnt =>
       /\ dl[c] # Free /\ ~ dl[c].learnt
       /\ {dl[c].first, dl[c].second} \cup dl[c].rest = {cl[c].first, cl[c].second} \cup cl[c].rest
  /\ \A p, q \in Lit : Literal(q) \in wt[p] => Literal(q) \in vt[p]

LEMMA CoveredKept ==
  ASSUME NEW as, NEW lv, NEW cl, NEW wt, NEW pb \in SUBSET SUBSET Lit, CoveredOK(as, lv, cl, wt, pb),
         NEW dl, NEW vt, StillThere(cl, wt, dl, vt)
  PROVE  CoveredOK(as, lv, dl, vt, pb)
<1>1. ASSUME NEW ps \in pb, NEW p \in ps, NEW q \in ps, Literal(q) \in wt[- p]
      PROVE  Literal(q) \in vt[- p]
  <2>1. p \in Lit /\ q \in Lit
    OBVIOUS
  <2>2. - p \in Lit
    BY <2>1, LitFacts
  <2>3. QED
    BY <1>1, <2>1, <2>2 DEF StillThere
<1>2. ASSUME NEW ps \in pb, NEW c \in Address, cl[c] # Free, ~ cl[c].learnt,
             {cl[c].first, cl[c].second} \cup cl[c].rest \subseteq ps
      PROVE  dl[c] # Free /\ ~ dl[c].learnt /\ {dl[c].first, dl[c].second} \cup dl[c].rest \subseteq ps
  <2>1. /\ dl[c] # Free /\ ~ dl[c].learnt
        /\ {dl[c].first, dl[c].second} \cup dl[c].rest = {cl[c].first, cl[c].second} \cup cl[c].rest
    BY <1>2 DEF StillThere
  <2>2. QED
    BY <1>2, <2>1
<1>3. SUFFICES ASSUME NEW ps \in pb
               PROVE  \/ \E p \in ps : - p \in ps
                      \/ \E p \in ps : as[var(p)] = p /\ lv[var(p)] = 0
                      \/ \E c \in Address : dl[c] # Free /\ ~ dl[c].learnt
                                            /\ {dl[c].first, dl[c].second} \cup dl[c].rest \subseteq ps
                      \/ \E p, q \in ps : Literal(q) \in vt[- p]
  BY DEF CoveredOK
<1>4. CASE \/ \E p \in ps : - p \in ps
           \/ \E p \in ps : as[var(p)] = p /\ lv[var(p)] = 0
  BY <1>4
<1>5. CASE \E c \in Address : cl[c] # Free /\ ~ cl[c].learnt
                              /\ {cl[c].first, cl[c].second} \cup cl[c].rest \subseteq ps
  BY <1>2, <1>5
<1>6. CASE \E p, q \in ps : Literal(q) \in wt[- p]
  BY <1>1, <1>6
<1>7. QED
  BY <1>4, <1>5, <1>6 DEF CoveredOK

(* Nothing new but what follows.                                           *)
AllKnown(pb, cl, wt, dl, vt) ==
  /\ \A c \in Address : dl[c] # Free =>
       \/ ImpliedBy(pb, {dl[c].first, dl[c].second} \cup dl[c].rest)
       \/ /\ cl[c] # Free
          /\ {dl[c].first, dl[c].second} \cup dl[c].rest = {cl[c].first, cl[c].second} \cup cl[c].rest
  /\ \A p, q \in Lit : Literal(q) \in vt[p] => Literal(q) \in wt[p] \/ ImpliedBy(pb, {- p, q})

LEMMA KnownKept ==
  ASSUME NEW pb, NEW cl, NEW wt, KnownClausesOK(pb, cl, wt),
         NEW dl, NEW vt, AllKnown(pb, cl, wt, dl, vt)
  PROVE  KnownClausesOK(pb, dl, vt)
<1>1. ASSUME NEW c \in Address, dl[c] # Free
      PROVE  ImpliedBy(pb, {dl[c].first, dl[c].second} \cup dl[c].rest)
  <2>1. CASE ImpliedBy(pb, {dl[c].first, dl[c].second} \cup dl[c].rest)
    BY <2>1
  <2>2. CASE cl[c] # Free /\ {dl[c].first, dl[c].second} \cup dl[c].rest
                              = {cl[c].first, cl[c].second} \cup cl[c].rest
    BY <2>2 DEF KnownClausesOK
  <2>3. QED
    BY <1>1, <2>1, <2>2 DEF AllKnown
<1>2. QED
  BY <1>1 DEF KnownClausesOK, AllKnown

(* Nothing new.                                                            *)
AllOld(cl, wt, dl, vt) ==
  /\ \A c \in Address : dl[c] # Free =>
       cl[c] # Free /\ {dl[c].first, dl[c].second} \cup dl[c].rest = {cl[c].first, cl[c].second} \cup cl[c].rest
  /\ \A p, q \in Lit : Literal(q) \in vt[p] => Literal(q) \in wt[p]

LEMMA KnownOld ==
  ASSUME NEW pb, NEW cl, NEW wt, NEW dl, NEW vt, AllOld(cl, wt, dl, vt)
  PROVE  /\ KnownClausesOK(pb, cl, wt) => KnownClausesOK(pb, dl, vt)
         /\ PositiveClauses(pb, cl, wt) => PositiveClauses(pb, dl, vt)
<1>1. KnownClausesOK(pb, cl, wt) => KnownClausesOK(pb, dl, vt)
  BY DEF AllOld, KnownClausesOK
<1>2. PositiveClauses(pb, cl, wt) => PositiveClauses(pb, dl, vt)
  BY DEF AllOld, PositiveClauses
<1>3. QED
  BY <1>1, <1>2

(* A watch is visited.                                                     *)
LEMMA WatchVisited ==
  ASSUME NEW as, NEW lv, NEW tr, NEW wt, NEW cl, NEW qh, NEW td, NEW u,
         WatchOK(as, lv, tr, wt, cl, qh, td, u),
         NEW w, as[var(OtherWatch(w, tr[qh], cl))] = OtherWatch(w, tr[qh], cl),
         lv[var(OtherWatch(w, tr[qh], cl))] <= lv[var(tr[qh])]
  PROVE  WatchOK(as, lv, tr, wt, cl, qh, td \ {w}, u)
<1>1. SUFFICES ASSUME NEW i \in 1 .. Len(tr), NEW v \in wt[tr[i]],
                      lv[var(tr[i])] < u, i <= qh, ~ (i = qh /\ v \in td \ {w})
               PROVE  /\ as[var(OtherWatch(v, tr[i], cl))] = OtherWatch(v, tr[i], cl)
                      /\ lv[var(OtherWatch(v, tr[i], cl))] <= lv[var(tr[i])]
  BY DEF WatchOK
<1>2. CASE i = qh /\ v = w
  BY <1>2
<1>3. CASE ~ (i = qh /\ v \in td)
  BY <1>1, <1>3 DEF WatchOK
<1>4. QED
  BY <1>1, <1>2, <1>3

(***************************************************************************)
(* Clause c, of which the second literal is false and the first not true,  *)
(* watches q instead.                                                      *)
(***************************************************************************)
MoveTo(as, cl, wt, dl, vt, c, q) ==
  /\ c \in Address /\ cl[c] # Free /\ q \in cl[c].rest
  /\ as[var(q)] # - q /\ as[var(cl[c].first)] # cl[c].first
  /\ as[var(cl[c].second)] = - cl[c].second
  /\ \A d \in Address : d # c => dl[d] = cl[d]
  /\ dl[c] # Free /\ dl[c].learnt = cl[c].learnt /\ dl[c].first = cl[c].first
  /\ dl[c].second = q /\ dl[c].rest = (cl[c].rest \ {q}) \cup {cl[c].second}
  /\ \A p \in Lit : vt[p] = IF p = - cl[c].second THEN wt[p] \ {Pointer(c)}
                            ELSE IF p = - q THEN wt[p] \cup {Pointer(c)} ELSE wt[p]

LEMMA MoveClauses ==
  ASSUME NEW as, NEW cl, NEW wt, NEW dl, NEW vt, NEW c, NEW q, MoveTo(as, cl, wt, dl, vt, c, q),
         ClausesOK(cl)
  PROVE  ClausesOK(dl)
<1>1. ASSUME NEW d \in Address, dl[d] # Free
      PROVE  dl[d].first # dl[d].second /\ dl[d].first \notin dl[d].rest /\ dl[d].second \notin dl[d].rest
  <2>1. CASE d = c
    BY <2>1 DEF ClausesOK, MoveTo
  <2>2. CASE d # c
    BY <1>1, <2>2 DEF ClausesOK, MoveTo
  <2>3. QED
    BY <2>1, <2>2
<1>2. QED
  BY <1>1 DEF ClausesOK

LEMMA MoveLits ==
  ASSUME NEW as, NEW cl, NEW wt, NEW dl, NEW vt, NEW c, NEW q, MoveTo(as, cl, wt, dl, vt, c, q)
  PROVE  /\ SameBinaries(wt, vt)
         /\ StillThere(cl, wt, dl, vt)
         /\ AllOld(cl, wt, dl, vt)
<1>1. \A p \in Lit : \A r : Literal(r) \in vt[p] <=> Literal(r) \in wt[p]
  <2>1. \A r : Literal(r) # Pointer(c)
    BY TagsDiffer
  <2>2. SUFFICES ASSUME NEW p \in Lit, NEW r PROVE Literal(r) \in vt[p] <=> Literal(r) \in wt[p]
    OBVIOUS
  <2>3. vt[p] \in {wt[p], wt[p] \ {Pointer(c)}, wt[p] \cup {Pointer(c)}}
    BY DEF MoveTo
  <2>4. QED
    BY <2>1, <2>3
<1>2. \A d \in Address : /\ cl[d] # Free <=> dl[d] # Free
                         /\ dl[d].learnt = cl[d].learnt
                         /\ {dl[d].first, dl[d].second} \cup dl[d].rest
                              = {cl[d].first, cl[d].second} \cup cl[d].rest
  <2>1. SUFFICES ASSUME NEW d \in Address
                 PROVE  /\ cl[d] # Free <=> dl[d] # Free
                        /\ dl[d].learnt = cl[d].learnt
                        /\ {dl[d].first, dl[d].second} \cup dl[d].rest
                              = {cl[d].first, cl[d].second} \cup cl[d].rest
    OBVIOUS
  <2>2. CASE d = c
    BY <2>2 DEF MoveTo
  <2>3. CASE d # c
    BY <2>3 DEF MoveTo
  <2>4. QED
    BY <2>2, <2>3
<1>3. SameBinaries(wt, vt)
  BY <1>1 DEF SameBinaries
<1>4. StillThere(cl, wt, dl, vt)
  BY <1>1, <1>2 DEF StillThere
<1>5. AllOld(cl, wt, dl, vt)
  BY <1>1, <1>2 DEF AllOld
<1>6. QED
  BY <1>3, <1>4, <1>5

(* The clause is not a reason.                                             *)
LEMMA MoveReasons ==
  ASSUME NEW as \in [Var -> Lit \cup {l_Undef}], NEW cl, NEW wt, NEW dl, NEW vt, NEW c, NEW q,
         MoveTo(as, cl, wt, dl, vt, c, q),
         NEW lv, NEW rs \in [Var -> GClauses], NEW tr \in Seq(Lit), TrailOK(as, tr),
         ReasonsOK(as, lv, rs, tr, cl)
  PROVE  ReasonsOK(as, lv, rs, tr, dl)
<1>0. LockedTrue(as, rs, cl)
  BY ReasonIsTrue
<1>1. ASSUME NEW x \in Var, NEW d \in Address, rs[x] = Pointer(d) PROVE dl[d] = cl[d]
  <2>1. as[var(cl[d].first)] = cl[d].first
    BY <1>0, <1>1 DEF LockedTrue
  <2>2. d # c
    BY <2>1 DEF MoveTo
  <2>3. QED
    BY <2>2 DEF MoveTo
<1>2. QED
  BY <1>1, ReasonsKept

(* Which lists have the pointer of the clause.                             *)
Lists(cl, wt, vt, c, q) ==
  /\ q \in Lit /\ cl[c].first \in Lit /\ cl[c].second \in Lit
  /\ - q # - cl[c].second /\ - cl[c].first # - cl[c].second /\ - cl[c].first # - q
  /\ - cl[c].second \in Lit /\ - cl[c].first \in Lit /\ - q \in Lit
  /\ vt[- cl[c].second] = wt[- cl[c].second] \ {Pointer(c)}
  /\ vt[- q] = wt[- q] \cup {Pointer(c)}
  /\ \A p \in Lit : p # - q => vt[p] \subseteq wt[p]
  /\ \A p \in Lit : \A w : w # Pointer(c) => (w \in vt[p] <=> w \in wt[p])

LEMMA MovedLists ==
  ASSUME NEW as, NEW cl \in [Address -> Clauses \cup {Free}], NEW wt, NEW dl, NEW vt, NEW c, NEW q,
         MoveTo(as, cl, wt, dl, vt, c, q), ClausesOK(cl)
  PROVE  Lists(cl, wt, vt, c, q)
<1>1. /\ c \in Address /\ cl[c] # Free /\ q \in cl[c].rest
      /\ cl[c].first # cl[c].second /\ cl[c].first \notin cl[c].rest /\ cl[c].second \notin cl[c].rest
  BY DEF MoveTo, ClausesOK
<1>2. q \in Lit /\ cl[c].first \in Lit /\ cl[c].second \in Lit
  BY <1>1, ClauseType
<1>3. - (- q) = q /\ - (- cl[c].first) = cl[c].first /\ - (- cl[c].second) = cl[c].second
  BY <1>2, LitFacts
<1>4. - q # - cl[c].second /\ - cl[c].first # - cl[c].second /\ - cl[c].first # - q
  BY <1>1, <1>3
<1>5. - cl[c].second \in Lit /\ - cl[c].first \in Lit /\ - q \in Lit
  BY <1>2, LitFacts
<1>6. /\ vt[- cl[c].second] = wt[- cl[c].second] \ {Pointer(c)}
      /\ vt[- q] = wt[- q] \cup {Pointer(c)}
  BY <1>4, <1>5 DEF MoveTo
<1>7. \A p \in Lit : p # - q => vt[p] \subseteq wt[p]
  BY DEF MoveTo
<1>8. ASSUME NEW p \in Lit, NEW w, w # Pointer(c) PROVE w \in vt[p] <=> w \in wt[p]
  <2>1. vt[p] \in {wt[p], wt[p] \ {Pointer(c)}, wt[p] \cup {Pointer(c)}}
    BY DEF MoveTo
  <2>2. QED
    BY <1>8, <2>1
<1>9. QED
  BY <1>2, <1>4, <1>5, <1>6, <1>7, <1>8 DEF Lists

LEMMA MovePointers ==
  ASSUME NEW as, NEW cl \in [Address -> Clauses \cup {Free}], NEW wt, NEW dl, NEW vt, NEW c, NEW q,
         MoveTo(as, cl, wt, dl, vt, c, q), ClausesOK(cl), PointersOK(wt, cl)
  PROVE  PointersOK(vt, dl)
<1>0. Lists(cl, wt, vt, c, q)
  BY MovedLists
<1>1. ASSUME NEW p \in Lit, NEW d \in Address, Pointer(d) \in vt[p]
      PROVE  dl[d] # Free /\ - p \in {dl[d].first, dl[d].second}
  <2>1. CASE d # c
    <3>1. Pointer(d) # Pointer(c)
      BY <2>1, TagsDiffer
    <3>2. Pointer(d) \in wt[p]
      BY <1>0, <1>1, <3>1 DEF Lists
    <3>3. dl[d] = cl[d]
      BY <2>1 DEF MoveTo
    <3>4. QED
      BY <3>2, <3>3 DEF PointersOK
  <2>2. CASE d = c /\ p = - q
    <3>1. - p = q
      BY <1>0, <2>2, LitFacts DEF Lists
    <3>2. QED
      BY <2>2, <3>1 DEF MoveTo
  <2>3. CASE d = c /\ p # - q
    <3>1. Pointer(c) \in wt[p] /\ p # - cl[c].second
      BY <1>0, <1>1, <2>3 DEF Lists
    <3>2. - p \in {cl[c].first, cl[c].second}
      BY <3>1, <2>3 DEF PointersOK
    <3>3. - p # cl[c].second
      <4>1. - (- p) = p
        BY LitFacts
      <4>2. QED
        BY <3>1, <4>1
    <3>4. QED
      BY <2>3, <3>2, <3>3 DEF MoveTo
  <2>4. QED
    BY <2>1, <2>2, <2>3
<1>2. QED
  BY <1>1 DEF PointersOK

LEMMA MoveSwept ==
  ASSUME NEW as, NEW cl \in [Address -> Clauses \cup {Free}], NEW wt, NEW dl, NEW vt, NEW c, NEW q,
         MoveTo(as, cl, wt, dl, vt, c, q), ClausesOK(cl),
         NEW lv, NEW rs, NEW C, C \subseteq Lit, SweptOK(as, lv, rs, cl, wt, C)
  PROVE  SweptOK(as, lv, rs, dl, vt, C)
<1>0. Lists(cl, wt, vt, c, q)
  BY MovedLists
<1>1. /\ c \in Address /\ cl[c] # Free /\ q \in cl[c].rest
      /\ dl[c].first = cl[c].first /\ dl[c].second = q
      /\ dl[c].rest = (cl[c].rest \ {q}) \cup {cl[c].second}
      /\ as[var(q)] # - q /\ as[var(cl[c].first)] # cl[c].first
  BY DEF MoveTo
<1>2. ~ Retired(as, lv, rs, cl, c)
  BY <1>1 DEF Retired
<1>3. /\ \A p \in {cl[c].first, cl[c].second} \cup cl[c].rest : p \notin C
      /\ - cl[c].first \notin C /\ - cl[c].second \notin C
  BY <1>1, <1>2 DEF SweptOK
<1>4. - q \notin C /\ q \notin C
  <2>1. var(- q) = var(q)
    BY <1>0, LitFacts DEF Lists
  <2>2. \A p \in C : as[var(p)] = p
    BY DEF SweptOK
  <2>3. QED
    BY <1>1, <1>3, <2>1, <2>2
<1>5. ASSUME NEW p \in C
      PROVE  as[var(p)] = p /\ lv[var(p)] = 0 /\ vt[p] = {} /\ vt[- p] = {}
  <2>1. p \in Lit /\ - p \in Lit /\ - (- p) = p
    BY LitFacts
  <2>2. p # - q /\ - p # - q
    <3>1. - (- q) = q
      BY <1>0, LitFacts DEF Lists
    <3>2. QED
      BY <1>4, <2>1, <3>1
  <2>3. wt[p] = {} /\ wt[- p] = {} /\ as[var(p)] = p /\ lv[var(p)] = 0
    BY DEF SweptOK
  <2>4. vt[p] \subseteq wt[p] /\ vt[- p] \subseteq wt[- p]
    BY <1>0, <2>1, <2>2 DEF Lists
  <2>5. QED
    BY <2>3, <2>4
<1>6. ASSUME NEW d \in Address, dl[d] # Free
      PROVE  /\ Held(vt, C, d, dl[d].first) /\ Held(vt, C, d, dl[d].second)
             /\ \/ Retired(as, lv, rs, dl, d)
                \/ /\ \A p \in {dl[d].first, dl[d].second} \cup dl[d].rest : p \notin C
                   /\ - dl[d].first \notin C /\ - dl[d].second \notin C
  <2>1. CASE d = c
    <3>1. Pointer(c) \in wt[- cl[c].first]
      BY <1>1, <1>3 DEF SweptOK, Held
    <3>2. Pointer(c) \in vt[- cl[c].first]
      <4>1. vt[- cl[c].first] = wt[- cl[c].first]
        BY <1>0 DEF Lists, MoveTo
      <4>2. QED
        BY <3>1, <4>1
    <3>3. Pointer(c) \in vt[- q]
      BY <1>0 DEF Lists
    <3>4. \A p \in {dl[c].first, dl[c].second} \cup dl[c].rest : p \notin C
      BY <1>1, <1>3
    <3>5. QED
      BY <1>1, <1>3, <1>4, <2>1, <3>2, <3>3, <3>4 DEF Held
  <2>2. CASE d # c
    <3>1. dl[d] = cl[d]
      BY <2>2 DEF MoveTo
    <3>2. Pointer(d) # Pointer(c)
      BY <2>2, TagsDiffer
    <3>3. cl[d].first \in Lit /\ cl[d].second \in Lit
      BY <1>6, <3>1, ClauseType
    <3>4. Held(vt, C, d, cl[d].first) /\ Held(vt, C, d, cl[d].second)
      <4>1. \A p \in Lit : - p \in Lit
        BY LitFacts
      <4>2. \A p \in Lit : Held(wt, C, d, p) => Held(vt, C, d, p)
        BY <1>0, <3>2, <4>1 DEF Lists, Held
      <4>3. Held(wt, C, d, cl[d].first) /\ Held(wt, C, d, cl[d].second)
        BY <1>6, <3>1 DEF SweptOK
      <4>4. QED
        BY <3>3, <4>2, <4>3
    <3>5. \/ Retired(as, lv, rs, cl, d)
          \/ /\ \A p \in {cl[d].first, cl[d].second} \cup cl[d].rest : p \notin C
             /\ - cl[d].first \notin C /\ - cl[d].second \notin C
      BY <1>6, <3>1 DEF SweptOK
    <3>6. Retired(as, lv, rs, cl, d) => Retired(as, lv, rs, dl, d)
      BY <3>1 DEF Retired
    <3>7. QED
      BY <3>1, <3>4, <3>5, <3>6
  <2>3. QED
    BY <2>1, <2>2
<1>7. QED
  BY <1>5, <1>6 DEF SweptOK

LEMMA MoveWatches ==
  ASSUME NEW as, NEW cl \in [Address -> Clauses \cup {Free}],
         NEW wt \in [Lit -> SUBSET (GClauses \ {NULL})], NEW dl, NEW vt, NEW c, NEW q,
         MoveTo(as, cl, wt, dl, vt, c, q), ClausesOK(cl), PointersOK(wt, cl),
         NEW lv, NEW tr \in Seq(Lit), TrailOK(as, tr), NEW qh, NEW td, NEW u,
         WatchOK(as, lv, tr, wt, cl, qh, td, u), cl[c].second = - tr[qh], qh \in 1 .. Len(tr)
  PROVE  WatchOK(as, lv, tr, vt, dl, qh, td \ {Pointer(c)}, u)
<1>0. Lists(cl, wt, vt, c, q) /\ Placed(as, tr)
  BY MovedLists, OnTrail
<1>1. SUFFICES ASSUME NEW i \in 1 .. Len(tr), NEW w \in vt[tr[i]],
                      lv[var(tr[i])] < u, i <= qh, ~ (i = qh /\ w \in td \ {Pointer(c)})
               PROVE  /\ as[var(OtherWatch(w, tr[i], dl))] = OtherWatch(w, tr[i], dl)
                      /\ lv[var(OtherWatch(w, tr[i], dl))] <= lv[var(tr[i])]
  BY DEF WatchOK
<1>2. tr[i] \in Lit /\ as[var(tr[i])] = tr[i] /\ - tr[i] \in Lit /\ - (- tr[i]) = tr[i]
  BY <1>0, LitFacts DEF Placed
<1>3. tr[i] # - q
  <2>1. var(- q) = var(q) /\ as[var(q)] # - q
    BY <1>0, LitFacts DEF Lists, MoveTo
  <2>2. QED
    BY <1>2, <2>1
<1>4. w \in wt[tr[i]]
  BY <1>0, <1>2, <1>3 DEF Lists
<1>5. w \in GClauses \ {NULL}
  BY <1>2, <1>4
<1>6. - cl[c].second = tr[qh]
  <2>1. tr[qh] \in Lit
    BY <1>0 DEF Placed
  <2>2. QED
    BY <2>1, LitFacts
<1>7. CASE w = Pointer(c)
  <2>1. tr[i] # - cl[c].second
    BY <1>0, <1>1, <1>7 DEF Lists
  <2>2. i # qh
    BY <1>6, <2>1
  <2>3. - tr[i] \in {cl[c].first, cl[c].second}
    BY <1>2, <1>4, <1>7 DEF PointersOK, MoveTo
  <2>4. - tr[i] = cl[c].first
    BY <1>2, <2>1, <2>3
  <2>5. OtherWatch(w, tr[i], cl) = cl[c].second
    BY <1>7, <2>4, TagsDiffer DEF OtherWatch
  <2>6. as[var(cl[c].second)] = cl[c].second
    BY <1>1, <1>4, <2>2, <2>5 DEF WatchOK
  <2>7. cl[c].second \in Lit /\ as[var(cl[c].second)] = - cl[c].second
    BY <1>0 DEF Lists, MoveTo
  <2>8. cl[c].second # - cl[c].second
    BY <2>7, LitFacts
  <2>9. QED
    BY <2>6, <2>7, <2>8
<1>8. CASE w # Pointer(c)
  <2>1. OtherWatch(w, tr[i], dl) = OtherWatch(w, tr[i], cl)
    <3>1. CASE w[1] = "lit"
      BY <3>1 DEF OtherWatch
    <3>2. CASE w[1] = "clause" /\ w[2] \in Address /\ w = Pointer(w[2])
      <4>1. w[2] # c
        BY <1>8, <3>2
      <4>2. dl[w[2]] = cl[w[2]]
        BY <3>2, <4>1 DEF MoveTo
      <4>3. QED
        BY <4>2 DEF OtherWatch
    <3>3. QED
      BY <1>5, <3>1, <3>2, WatchIs
  <2>2. ~ (i = qh /\ w \in td)
    BY <1>1, <1>8
  <2>3. QED
    BY <1>1, <1>4, <2>1, <2>2 DEF WatchOK
<1>9. QED
  BY <1>7, <1>8

(***************************************************************************)
(* A clause that watches p and q is allocated at c.                        *)
(***************************************************************************)
AllocateTo(cl, wt, dl, vt, c, ln, p, q, rest) ==
  /\ c \in Address /\ cl[c] = Free
  /\ p \in Lit /\ q \in Lit /\ rest \subseteq Lit /\ p # q /\ p \notin rest /\ q \notin rest
  /\ \A d \in Address : d # c => dl[d] = cl[d]
  /\ dl[c] # Free /\ dl[c].learnt = ln /\ dl[c].first = p /\ dl[c].second = q /\ dl[c].rest = rest
  /\ \A r \in Lit : vt[r] = IF r \in {- p, - q} THEN wt[r] \cup {Pointer(c)} ELSE wt[r]

LEMMA AllocateParts ==
  ASSUME NEW cl, NEW wt, NEW dl, NEW vt, NEW c, NEW ln, NEW p, NEW q, NEW rest,
         AllocateTo(cl, wt, dl, vt, c, ln, p, q, rest)
  PROVE  /\ ClausesOK(cl) => ClausesOK(dl)
         /\ SameBinaries(wt, vt)
         /\ StillThere(cl, wt, dl, vt)
         /\ \A pb : ImpliedBy(pb, {p, q} \cup rest) => AllKnown(pb, cl, wt, dl, vt)
         /\ PointersOK(wt, cl) => PointersOK(vt, dl)
<1>0. c \in Address /\ cl[c] = Free /\ \A d \in Address : cl[d] # Free => d # c /\ dl[d] = cl[d]
  BY DEF AllocateTo
<1>1. \A r \in Lit : \A s : Literal(s) \in vt[r] <=> Literal(s) \in wt[r]
  <2>1. SUFFICES ASSUME NEW r \in Lit, NEW s PROVE Literal(s) \in vt[r] <=> Literal(s) \in wt[r]
    OBVIOUS
  <2>2. vt[r] \in {wt[r], wt[r] \cup {Pointer(c)}} /\ Literal(s) # Pointer(c)
    BY TagsDiffer DEF AllocateTo
  <2>3. QED
    BY <2>2
<1>2. ClausesOK(cl) => ClausesOK(dl)
  <2>1. SUFFICES ASSUME ClausesOK(cl), NEW d \in Address, dl[d] # Free
                 PROVE  dl[d].first # dl[d].second /\ dl[d].first \notin dl[d].rest
                        /\ dl[d].second \notin dl[d].rest
    BY DEF ClausesOK
  <2>2. CASE d = c
    BY <2>2 DEF AllocateTo
  <2>3. CASE d # c
    BY <2>1, <2>3 DEF ClausesOK, AllocateTo
  <2>4. QED
    BY <2>2, <2>3
<1>3. SameBinaries(wt, vt)
  BY <1>1 DEF SameBinaries
<1>4. StillThere(cl, wt, dl, vt)
  BY <1>0, <1>1 DEF StillThere
<1>5. ASSUME NEW pb, ImpliedBy(pb, {p, q} \cup rest) PROVE AllKnown(pb, cl, wt, dl, vt)
  <2>1. ASSUME NEW d \in Address, dl[d] # Free
        PROVE  \/ ImpliedBy(pb, {dl[d].first, dl[d].second} \cup dl[d].rest)
               \/ /\ cl[d] # Free
                  /\ {dl[d].first, dl[d].second} \cup dl[d].rest = {cl[d].first, cl[d].second} \cup cl[d].rest
    <3>1. CASE d = c
      <4>1. {dl[d].first, dl[d].second} \cup dl[d].rest = {p, q} \cup rest
        BY <3>1 DEF AllocateTo
      <4>2. QED
        BY <1>5, <4>1
    <3>2. CASE d # c
      <4>1. dl[d] = cl[d]
        BY <3>2 DEF AllocateTo
      <4>2. QED
        BY <2>1, <4>1
    <3>3. QED
      BY <3>1, <3>2
  <2>2. QED
    BY <1>1, <2>1 DEF AllKnown
<1>6. PointersOK(wt, cl) => PointersOK(vt, dl)
  <2>1. SUFFICES ASSUME PointersOK(wt, cl), NEW r \in Lit, NEW d \in Address, Pointer(d) \in vt[r]
                 PROVE  dl[d] # Free /\ - r \in {dl[d].first, dl[d].second}
    BY DEF PointersOK
  <2>2. CASE d = c
    <3>1. Pointer(c) \notin wt[r]
      BY <1>0, <2>1 DEF PointersOK
    <3>2. r \in {- p, - q}
      BY <2>1, <2>2, <3>1 DEF AllocateTo
    <3>3. - (- p) = p /\ - (- q) = q
      BY LitFacts DEF AllocateTo
    <3>4. QED
      BY <2>2, <3>2, <3>3 DEF AllocateTo
  <2>3. CASE d # c
    <3>1. Pointer(d) # Pointer(c)
      BY <2>3, TagsDiffer
    <3>2. Pointer(d) \in wt[r]
      BY <2>1, <3>1 DEF AllocateTo
    <3>3. dl[d] = cl[d]
      BY <2>3 DEF AllocateTo
    <3>4. QED
      BY <2>1, <3>2, <3>3 DEF PointersOK
  <2>4. QED
    BY <2>2, <2>3
<1>7. QED
  BY <1>2, <1>3, <1>4, <1>5, <1>6

LEMMA AllocateReasons ==
  ASSUME NEW as, NEW lv, NEW rs \in [Var -> GClauses], NEW tr \in Seq(Lit), TrailOK(as, tr),
         NEW cl, ReasonsOK(as, lv, rs, tr, cl), NEW wt, NEW dl, NEW vt,
         NEW c, NEW ln, NEW p, NEW q, NEW rest, AllocateTo(cl, wt, dl, vt, c, ln, p, q, rest)
  PROVE  ReasonsOK(as, lv, rs, tr, dl)
<1>0. LockedTrue(as, rs, cl)
  BY ReasonIsTrue
<1>1. \A x \in Var : \A d \in Address : rs[x] = Pointer(d) => dl[d] = cl[d]
  BY <1>0 DEF LockedTrue, AllocateTo
<1>2. QED
  BY <1>1, ReasonsKept

Outside(C, p, q, rest) == (\A r \in {p, q} \cup rest : r \notin C) /\ - p \notin C /\ - q \notin C

LEMMA AllocateSwept ==
  ASSUME NEW cl \in [Address -> Clauses \cup {Free}], NEW wt, NEW dl, NEW vt,
         NEW c, NEW ln, NEW p, NEW q, NEW rest, AllocateTo(cl, wt, dl, vt, c, ln, p, q, rest),
         NEW as, NEW lv, NEW rs, NEW C, C \subseteq Lit, SweptOK(as, lv, rs, cl, wt, C),
         Outside(C, p, q, rest)
  PROVE  SweptOK(as, lv, rs, dl, vt, C)
<1>1. /\ c \in Address /\ cl[c] = Free /\ p \in Lit /\ q \in Lit
      /\ dl[c].first = p /\ dl[c].second = q /\ dl[c].rest = rest
  BY DEF AllocateTo
<1>2. - p \in Lit /\ - q \in Lit /\ - (- p) = p /\ - (- q) = q
  BY <1>1, LitFacts
<1>3. ASSUME NEW r \in C
      PROVE  as[var(r)] = r /\ lv[var(r)] = 0 /\ vt[r] = {} /\ vt[- r] = {}
  <2>1. r \in Lit /\ - r \in Lit /\ - (- r) = r
    BY LitFacts
  <2>2. r \notin {- p, - q} /\ - r \notin {- p, - q}
    BY <1>2, <2>1 DEF Outside
  <2>3. vt[r] = wt[r] /\ vt[- r] = wt[- r]
    BY <2>1, <2>2 DEF AllocateTo
  <2>4. QED
    BY <2>3 DEF SweptOK
<1>4. ASSUME NEW d \in Address, dl[d] # Free
      PROVE  /\ Held(vt, C, d, dl[d].first) /\ Held(vt, C, d, dl[d].second)
             /\ \/ Retired(as, lv, rs, dl, d)
                \/ /\ \A r \in {dl[d].first, dl[d].second} \cup dl[d].rest : r \notin C
                   /\ - dl[d].first \notin C /\ - dl[d].second \notin C
  <2>1. CASE d = c
    <3>1. Pointer(c) \in vt[- p] /\ Pointer(c) \in vt[- q]
      BY <1>2 DEF AllocateTo
    <3>2. QED
      BY <1>1, <2>1, <3>1 DEF Held, Outside
  <2>2. CASE d # c
    <3>1. dl[d] = cl[d] /\ cl[d] # Free
      BY <1>4, <2>2 DEF AllocateTo
    <3>2. cl[d].first \in Lit /\ cl[d].second \in Lit
      BY <3>1, ClauseType
    <3>3. Held(vt, C, d, cl[d].first) /\ Held(vt, C, d, cl[d].second)
      <4>1. \A r \in Lit : - r \in Lit
        BY LitFacts
      <4>2. \A r \in Lit : wt[r] \subseteq vt[r]
        BY DEF AllocateTo
      <4>3. \A r \in Lit : Held(wt, C, d, r) => Held(vt, C, d, r)
        BY <4>1, <4>2 DEF Held
      <4>4. Held(wt, C, d, cl[d].first) /\ Held(wt, C, d, cl[d].second)
        BY <3>1 DEF SweptOK
      <4>5. QED
        BY <3>2, <4>3, <4>4
    <3>4. \/ Retired(as, lv, rs, cl, d)
          \/ /\ \A r \in {cl[d].first, cl[d].second} \cup cl[d].rest : r \notin C
             /\ - cl[d].first \notin C /\ - cl[d].second \notin C
      BY <3>1 DEF SweptOK
    <3>5. Retired(as, lv, rs, cl, d) => Retired(as, lv, rs, dl, d)
      BY <3>1 DEF Retired
    <3>6. QED
      BY <3>1, <3>3, <3>4, <3>5
  <2>3. QED
    BY <2>1, <2>2
<1>5. QED
  BY <1>3, <1>4 DEF SweptOK

(* Watches may be added that have p true and q false at the level of p, or *)
(* none of the two propagated.                                             *)
WatchesMayBe(as, lv, tr, qh, p, q) ==
  \A i \in 1 .. Len(tr) : i <= qh =>
    tr[i] # - p /\ (tr[i] = - q => as[var(p)] = p /\ lv[var(p)] <= lv[var(q)])

LEMMA AllocateWatches ==
  ASSUME NEW cl \in [Address -> Clauses \cup {Free}],
         NEW wt \in [Lit -> SUBSET (GClauses \ {NULL})], PointersOK(wt, cl), NEW dl, NEW vt,
         NEW c, NEW ln, NEW p, NEW q, NEW rest, AllocateTo(cl, wt, dl, vt, c, ln, p, q, rest),
         NEW as, NEW lv, NEW tr \in Seq(Lit), NEW qh, NEW td, NEW u,
         WatchOK(as, lv, tr, wt, cl, qh, td, u), WatchesMayBe(as, lv, tr, qh, p, q)
  PROVE  WatchOK(as, lv, tr, vt, dl, qh, td, u)
<1>0. /\ c \in Address /\ cl[c] = Free /\ p \in Lit /\ q \in Lit /\ p # q
      /\ dl[c].first = p /\ dl[c].second = q
  BY DEF AllocateTo
<1>1. SUFFICES ASSUME NEW i \in 1 .. Len(tr), NEW w \in vt[tr[i]],
                      lv[var(tr[i])] < u, i <= qh, ~ (i = qh /\ w \in td)
               PROVE  /\ as[var(OtherWatch(w, tr[i], dl))] = OtherWatch(w, tr[i], dl)
                      /\ lv[var(OtherWatch(w, tr[i], dl))] <= lv[var(tr[i])]
  BY DEF WatchOK
<1>2. tr[i] \in Lit
  BY ElementOfSeq
<1>3. CASE w \in wt[tr[i]]
  <2>1. w \in GClauses \ {NULL}
    BY <1>2, <1>3
  <2>2. w # Pointer(c)
    BY <1>0, <1>2, <1>3 DEF PointersOK
  <2>3. OtherWatch(w, tr[i], dl) = OtherWatch(w, tr[i], cl)
    <3>1. CASE w[1] = "lit"
      BY <3>1 DEF OtherWatch
    <3>2. CASE w[1] = "clause" /\ w[2] \in Address /\ w = Pointer(w[2])
      <4>1. w[2] # c
        BY <2>2, <3>2
      <4>2. dl[w[2]] = cl[w[2]]
        BY <3>2, <4>1 DEF AllocateTo
      <4>3. QED
        BY <4>2 DEF OtherWatch
    <3>3. QED
      BY <2>1, <3>1, <3>2, WatchIs
  <2>4. QED
    BY <1>1, <1>3, <2>3 DEF WatchOK
<1>4. CASE w \notin wt[tr[i]]
  <2>0. vt[tr[i]] = IF tr[i] \in {- p, - q} THEN wt[tr[i]] \cup {Pointer(c)} ELSE wt[tr[i]]
    BY <1>2 DEF AllocateTo
  <2>1. w = Pointer(c) /\ tr[i] \in {- p, - q}
    BY <1>1, <1>4, <2>0
  <2>2. tr[i] = - q /\ as[var(p)] = p /\ lv[var(p)] <= lv[var(q)]
    BY <1>1, <2>1 DEF WatchesMayBe
  <2>3. - tr[i] = q /\ var(tr[i]) = var(q)
    BY <1>0, <2>2, LitFacts
  <2>4. OtherWatch(w, tr[i], dl) = p
    BY <1>0, <2>1, <2>3, TagsDiffer DEF OtherWatch
  <2>5. QED
    BY <2>2, <2>3, <2>4
<1>5. QED
  BY <1>3, <1>4

(***************************************************************************)
(* The binary clause p, q goes into its lists.                             *)
(***************************************************************************)
BinaryTo(wt, vt, p, q) ==
  /\ p \in Lit /\ q \in Lit /\ p # q
  /\ \A r \in Lit : vt[r] = wt[r] \cup (IF r = - p THEN {Literal(q)} ELSE {})
                                  \cup (IF r = - q THEN {Literal(p)} ELSE {})

LEMMA BinaryParts ==
  ASSUME NEW cl, NEW wt, NEW vt, NEW p, NEW q, BinaryTo(wt, vt, p, q)
  PROVE  /\ BinaryOK(wt) => BinaryOK(vt)
         /\ StillThere(cl, wt, cl, vt)
         /\ \A pb : ImpliedBy(pb, {p, q}) => AllKnown(pb, cl, wt, cl, vt)
         /\ PointersOK(wt, cl) => PointersOK(vt, cl)
<1>0. /\ p \in Lit /\ q \in Lit /\ p # q /\ - p \in Lit /\ - q \in Lit
      /\ - (- p) = p /\ - (- q) = q
  BY LitFacts DEF BinaryTo
<1>1. ASSUME NEW r \in Lit, NEW s, Literal(s) \in vt[r], Literal(s) \notin wt[r]
      PROVE  (r = - p /\ s = q) \/ (r = - q /\ s = p)
  BY <1>1, TagsDiffer DEF BinaryTo
<1>2. Literal(q) \in vt[- p] /\ Literal(p) \in vt[- q]
  BY <1>0 DEF BinaryTo
<1>3. \A r \in Lit : wt[r] \subseteq vt[r]
  BY DEF BinaryTo
<1>4. BinaryOK(wt) => BinaryOK(vt)
  <2>1. SUFFICES ASSUME BinaryOK(wt), NEW r \in Lit, NEW s \in Lit, Literal(s) \in vt[r]
                 PROVE  s # - r /\ Literal(- r) \in vt[- s]
    BY DEF BinaryOK
  <2>2. CASE Literal(s) \in wt[r]
    BY <2>2, <2>1, <1>3, LitFacts DEF BinaryOK
  <2>3. CASE Literal(s) \notin wt[r]
    BY <1>0, <1>1, <1>2, <2>1, <2>3
  <2>4. QED
    BY <2>2, <2>3
<1>5. StillThere(cl, wt, cl, vt)
  BY <1>3 DEF StillThere
<1>6. ASSUME NEW pb, ImpliedBy(pb, {p, q}) PROVE AllKnown(pb, cl, wt, cl, vt)
  <2>1. ASSUME NEW r \in Lit, NEW s \in Lit, Literal(s) \in vt[r], Literal(s) \notin wt[r]
        PROVE  ImpliedBy(pb, {- r, s})
    <3>1. {- r, s} = {p, q}
      BY <1>0, <1>1, <2>1
    <3>2. QED
      BY <1>6, <3>1
  <2>2. QED
    BY <2>1 DEF AllKnown
<1>7. PointersOK(wt, cl) => PointersOK(vt, cl)
  <2>1. \A r \in Lit : \A c : Pointer(c) \in vt[r] => Pointer(c) \in wt[r]
    BY TagsDiffer DEF BinaryTo
  <2>2. QED
    BY <2>1 DEF PointersOK
<1>8. QED
  BY <1>4, <1>5, <1>6, <1>7

LEMMA BinarySwept ==
  ASSUME NEW cl \in [Address -> Clauses \cup {Free}], NEW wt, NEW vt, NEW p, NEW q, BinaryTo(wt, vt, p, q),
         NEW as, NEW lv, NEW rs, NEW C, C \subseteq Lit, SweptOK(as, lv, rs, cl, wt, C),
         p \notin C, q \notin C, - p \notin C, - q \notin C
  PROVE  SweptOK(as, lv, rs, cl, vt, C)
<1>1. p \in Lit /\ q \in Lit /\ - (- p) = p /\ - (- q) = q
  BY LitFacts DEF BinaryTo
<1>2. ASSUME NEW r \in C
      PROVE  as[var(r)] = r /\ lv[var(r)] = 0 /\ vt[r] = {} /\ vt[- r] = {}
  <2>1. r \in Lit /\ - r \in Lit /\ - (- r) = r
    BY LitFacts
  <2>2. r \notin {- p, - q} /\ - r \notin {- p, - q}
    BY <1>1, <2>1
  <2>3. \A s \in Lit : s \notin {- p, - q} => vt[s] = wt[s]
    BY DEF BinaryTo
  <2>4. QED
    BY <2>1, <2>2, <2>3 DEF SweptOK
<1>3. ASSUME NEW d \in Address, cl[d] # Free
      PROVE  Held(vt, C, d, cl[d].first) /\ Held(vt, C, d, cl[d].second)
  <2>1. cl[d].first \in Lit /\ cl[d].second \in Lit
    BY <1>3, ClauseType
  <2>2. \A r \in Lit : wt[r] \subseteq vt[r] /\ - r \in Lit
    BY LitFacts DEF BinaryTo
  <2>3. \A r \in Lit : Held(wt, C, d, r) => Held(vt, C, d, r)
    BY <2>2 DEF Held
  <2>4. QED
    BY <1>3, <2>1, <2>3 DEF SweptOK
<1>4. QED
  BY <1>2, <1>3 DEF SweptOK

LEMMA BinaryWatches ==
  ASSUME NEW cl, NEW wt, NEW vt, NEW p, NEW q, BinaryTo(wt, vt, p, q),
         NEW as, NEW lv, NEW tr \in Seq(Lit), NEW qh, NEW td, NEW u,
         WatchOK(as, lv, tr, wt, cl, qh, td, u), WatchesMayBe(as, lv, tr, qh, p, q)
  PROVE  WatchOK(as, lv, tr, vt, cl, qh, td, u)
<1>1. SUFFICES ASSUME NEW i \in 1 .. Len(tr), NEW w \in vt[tr[i]],
                      lv[var(tr[i])] < u, i <= qh, ~ (i = qh /\ w \in td)
               PROVE  /\ as[var(OtherWatch(w, tr[i], cl))] = OtherWatch(w, tr[i], cl)
                      /\ lv[var(OtherWatch(w, tr[i], cl))] <= lv[var(tr[i])]
  BY DEF WatchOK
<1>2. tr[i] \in Lit
  BY ElementOfSeq
<1>3. CASE w \in wt[tr[i]]
  BY <1>1, <1>3 DEF WatchOK
<1>4. CASE w \notin wt[tr[i]]
  <2>1. tr[i] # - p
    BY <1>1 DEF WatchesMayBe
  <2>2. tr[i] = - q /\ w = Literal(p)
    BY <1>1, <1>2, <1>4, <2>1 DEF BinaryTo
  <2>3. as[var(p)] = p /\ lv[var(p)] <= lv[var(q)] /\ var(tr[i]) = var(q)
    BY <1>1, <2>2, LitFacts DEF WatchesMayBe, BinaryTo
  <2>4. OtherWatch(w, tr[i], cl) = p
    BY <2>2, TagsDiffer DEF OtherWatch
  <2>5. QED
    BY <2>3, <2>4
<1>5. QED
  BY <1>3, <1>4

(***************************************************************************)
(* The clauses of D are freed.                                             *)
(***************************************************************************)
RemoveTo(rs, cl, wt, dl, vt, D) ==
  /\ \A c \in D : cl[c] # Free /\ rs[var(cl[c].first)] # Pointer(c)
  /\ \A c \in Address : dl[c] = IF c \in D THEN Free ELSE cl[c]
  /\ \A p \in Lit : vt[p] = wt[p] \ {Pointer(c) : c \in D}

LEMMA RemoveParts ==
  ASSUME NEW cl, NEW wt, NEW dl, NEW vt, NEW D, NEW rs, RemoveTo(rs, cl, wt, dl, vt, D)
  PROVE  /\ ClausesOK(cl) => ClausesOK(dl)
         /\ SameBinaries(wt, vt)
         /\ AllOld(cl, wt, dl, vt)
         /\ PointersOK(wt, cl) => PointersOK(vt, dl)
<1>1. \A c \in Address : dl[c] # Free => c \notin D /\ dl[c] = cl[c]
  BY DEF RemoveTo
<1>2. \A p \in Lit : \A w : w \in vt[p] <=> w \in wt[p] /\ w \notin {Pointer(c) : c \in D}
  BY DEF RemoveTo
<1>3. \A s : Literal(s) \notin {Pointer(c) : c \in D}
  BY TagsDiffer
<1>4. ClausesOK(cl) => ClausesOK(dl)
  BY <1>1 DEF ClausesOK
<1>5. SameBinaries(wt, vt)
  BY <1>2, <1>3 DEF SameBinaries
<1>6. AllOld(cl, wt, dl, vt)
  BY <1>1, <1>2 DEF AllOld
<1>7. PointersOK(wt, cl) => PointersOK(vt, dl)
  <2>1. SUFFICES ASSUME PointersOK(wt, cl), NEW r \in Lit, NEW d \in Address, Pointer(d) \in vt[r]
                 PROVE  dl[d] # Free /\ - r \in {dl[d].first, dl[d].second}
    BY DEF PointersOK
  <2>2. Pointer(d) \in wt[r] /\ d \notin D
    BY <1>2, <2>1
  <2>3. dl[d] = cl[d]
    BY <2>2 DEF RemoveTo
  <2>4. QED
    BY <2>1, <2>2, <2>3 DEF PointersOK
<1>8. QED
  BY <1>4, <1>5, <1>6, <1>7

LEMMA RemoveReasons ==
  ASSUME NEW as, NEW lv, NEW rs \in [Var -> GClauses], NEW tr \in Seq(Lit), TrailOK(as, tr),
         NEW cl, ReasonsOK(as, lv, rs, tr, cl), NEW wt, NEW dl, NEW vt,
         NEW D, RemoveTo(rs, cl, wt, dl, vt, D)
  PROVE  ReasonsOK(as, lv, rs, tr, dl)
<1>0. LockedTrue(as, rs, cl)
  BY ReasonIsTrue
<1>1. ASSUME NEW x \in Var, NEW d \in Address, rs[x] = Pointer(d) PROVE dl[d] = cl[d]
  <2>1. x = var(cl[d].first)
    BY <1>0, <1>1 DEF LockedTrue
  <2>2. d \notin D
    BY <1>1, <2>1 DEF RemoveTo
  <2>3. QED
    BY <2>2 DEF RemoveTo
<1>2. QED
  BY <1>1, ReasonsKept

LEMMA RemoveSwept ==
  ASSUME NEW cl \in [Address -> Clauses \cup {Free}], NEW wt, NEW dl, NEW vt,
         NEW D, NEW rs, RemoveTo(rs, cl, wt, dl, vt, D),
         NEW as, NEW lv, NEW C, C \subseteq Lit, SweptOK(as, lv, rs, cl, wt, C)
  PROVE  SweptOK(as, lv, rs, dl, vt, C)
<1>1. \A c \in Address : dl[c] # Free => c \notin D /\ dl[c] = cl[c]
  BY DEF RemoveTo
<1>2. \A p \in Lit : vt[p] \subseteq wt[p]
  BY DEF RemoveTo
<1>3. \A p \in C : as[var(p)] = p /\ lv[var(p)] = 0 /\ vt[p] = {} /\ vt[- p] = {}
  <2>1. \A p \in C : p \in Lit /\ - p \in Lit
    BY LitFacts
  <2>2. QED
    BY <1>2, <2>1 DEF SweptOK
<1>4. ASSUME NEW c \in Address, dl[c] # Free
      PROVE  Held(vt, C, c, cl[c].first) /\ Held(vt, C, c, cl[c].second)
  <2>1. Pointer(c) \notin {Pointer(d) : d \in D}
    BY <1>1, <1>4, TagsDiffer
  <2>2. \A p \in Lit : Pointer(c) \in wt[p] => Pointer(c) \in vt[p]
    BY <2>1 DEF RemoveTo
  <2>3. \A p \in Lit : Held(wt, C, c, p) => Held(vt, C, c, p)
    BY <2>2, LitFacts DEF Held
  <2>4. cl[c].first \in Lit /\ cl[c].second \in Lit
    BY <1>1, <1>4, ClauseType
  <2>5. Held(wt, C, c, cl[c].first) /\ Held(wt, C, c, cl[c].second)
    BY <1>1, <1>4 DEF SweptOK
  <2>6. QED
    BY <2>3, <2>4, <2>5
<1>5. ASSUME NEW c \in Address, dl[c] # Free
      PROVE  \/ Retired(as, lv, rs, dl, c)
             \/ /\ \A p \in {dl[c].first, dl[c].second} \cup dl[c].rest : p \notin C
                /\ - dl[c].first \notin C /\ - dl[c].second \notin C
  <2>1. dl[c] = cl[c]
    BY <1>1, <1>5
  <2>2. \/ Retired(as, lv, rs, cl, c)
        \/ /\ \A p \in {cl[c].first, cl[c].second} \cup cl[c].rest : p \notin C
           /\ - cl[c].first \notin C /\ - cl[c].second \notin C
    BY <1>5, <2>1 DEF SweptOK
  <2>3. Retired(as, lv, rs, cl, c) => Retired(as, lv, rs, dl, c)
    BY <2>1 DEF Retired
  <2>4. QED
    BY <2>1, <2>2, <2>3
<1>6. QED
  BY <1>1, <1>3, <1>4, <1>5 DEF SweptOK

LEMMA RemoveWatches ==
  ASSUME NEW cl, NEW wt \in [Lit -> SUBSET (GClauses \ {NULL})], NEW dl, NEW vt,
         NEW D, NEW rs, RemoveTo(rs, cl, wt, dl, vt, D),
         NEW as, NEW lv, NEW tr \in Seq(Lit), NEW qh, NEW td, NEW u,
         WatchOK(as, lv, tr, wt, cl, qh, td, u)
  PROVE  WatchOK(as, lv, tr, vt, dl, qh, td, u)
<1>1. ASSUME NEW i \in 1 .. Len(tr), NEW w \in vt[tr[i]]
      PROVE  w \in wt[tr[i]] /\ OtherWatch(w, tr[i], dl) = OtherWatch(w, tr[i], cl)
  <2>1. tr[i] \in Lit
    BY ElementOfSeq
  <2>2. w \in wt[tr[i]] /\ w \notin {Pointer(c) : c \in D}
    BY <2>1 DEF RemoveTo
  <2>3. w \in GClauses \ {NULL}
    BY <2>1, <2>2
  <2>4. CASE w[1] = "lit"
    BY <2>2, <2>4 DEF OtherWatch
  <2>5. CASE w[1] = "clause" /\ w[2] \in Address /\ w = Pointer(w[2])
    <3>1. w[2] \notin D
      BY <2>2, <2>5
    <3>2. dl[w[2]] = cl[w[2]]
      BY <2>5, <3>1 DEF RemoveTo
    <3>3. QED
      BY <2>2, <3>2 DEF OtherWatch
  <2>6. QED
    BY <2>3, <2>4, <2>5, WatchIs
<1>2. QED
  BY <1>1 DEF WatchOK

(* Clauses of the problem may go when they are satisfied at level 0.       *)
LEMMA RemoveCovered ==
  ASSUME NEW cl, NEW wt, NEW dl, NEW vt, NEW D, NEW rs, RemoveTo(rs, cl, wt, dl, vt, D),
         NEW as, NEW lv, NEW pb \in SUBSET SUBSET Lit, CoveredOK(as, lv, cl, wt, pb),
         \A c \in D : cl[c].learnt \/ \E p \in {cl[c].first, cl[c].second} \cup cl[c].rest :
                                         as[var(p)] = p /\ lv[var(p)] = 0
  PROVE  CoveredOK(as, lv, dl, vt, pb)
<1>1. SameBinaries(wt, vt)
  BY RemoveParts
<1>2. SUFFICES ASSUME NEW ps \in pb
               PROVE  \/ \E p \in ps : - p \in ps
                      \/ \E p \in ps : as[var(p)] = p /\ lv[var(p)] = 0
                      \/ \E c \in Address : dl[c] # Free /\ ~ dl[c].learnt
                                            /\ {dl[c].first, dl[c].second} \cup dl[c].rest \subseteq ps
                      \/ \E p, q \in ps : Literal(q) \in vt[- p]
  BY DEF CoveredOK
<1>3. CASE \/ \E p \in ps : - p \in ps
           \/ \E p \in ps : as[var(p)] = p /\ lv[var(p)] = 0
  BY <1>3
<1>4. ASSUME NEW c \in Address, cl[c] # Free /\ ~ cl[c].learnt,
             {cl[c].first, cl[c].second} \cup cl[c].rest \subseteq ps
      PROVE  \/ \E p \in ps : as[var(p)] = p /\ lv[var(p)] = 0
             \/ dl[c] # Free /\ ~ dl[c].learnt /\ {dl[c].first, dl[c].second} \cup dl[c].rest \subseteq ps
  <2>1. CASE c \in D
    <3>1. PICK p \in {cl[c].first, cl[c].second} \cup cl[c].rest : as[var(p)] = p /\ lv[var(p)] = 0
      BY <1>4, <2>1
    <3>2. p \in ps
      BY <1>4, <3>1
    <3>3. QED
      BY <3>1, <3>2
  <2>2. CASE c \notin D
    <3>1. dl[c] = cl[c]
      BY <2>2 DEF RemoveTo
    <3>2. QED
      BY <1>4, <3>1
  <2>3. QED
    BY <2>1, <2>2
<1>5. CASE \E c \in Address : cl[c] # Free /\ ~ cl[c].learnt
                              /\ {cl[c].first, cl[c].second} \cup cl[c].rest \subseteq ps
  BY <1>4, <1>5
<1>6. CASE \E p, q \in ps : Literal(q) \in wt[- p]
  <2>1. PICK p \in ps, q \in ps : Literal(q) \in wt[- p]
    BY <1>6
  <2>2. p \in Lit /\ q \in Lit
    OBVIOUS
  <2>3. - p \in Lit
    BY <2>2, LitFacts
  <2>4. Literal(q) \in vt[- p]
    BY <1>1, <2>1, <2>2, <2>3 DEF SameBinaries
  <2>5. QED
    BY <2>4
<1>7. QED
  BY <1>3, <1>5, <1>6 DEF CoveredOK

(***************************************************************************)
(* At the root the lists of the new facts N are cleared, and the binary    *)
(* clauses they satisfy taken out of the other lists; those of the facts C *)
(* are clear. Every watch of a true literal has seen to it.                *)
(***************************************************************************)
ClearTo(wt, vt, N) ==
  \A p \in Lit : vt[p] = IF p \in N \/ - p \in N THEN {} ELSE wt[p] \ {Literal(q) : q \in N}

AtRoot(as, lv, wt, cl, C, N) ==
  /\ C \subseteq Lit /\ N \subseteq Lit
  /\ \A p \in N : as[var(p)] = p
  /\ \A p \in Lit : as[var(p)] = p =>
       /\ p \in C \cup N /\ lv[var(p)] = 0
       /\ \A w \in wt[p] : as[var(OtherWatch(w, p, cl))] = OtherWatch(w, p, cl)

LEMMA RootIs ==
  ASSUME NEW as, NEW lv, NEW tr \in Seq(Lit), TrailOK(as, tr), NEW wt, NEW cl,
         NEW C, NEW N, C \subseteq Lit, N \subseteq Lit,
         \A i \in 1 .. Len(tr) : lv[var(tr[i])] = 0 /\ tr[i] \in C \cup N,
         \A p \in N : \E i \in 1 .. Len(tr) : tr[i] = p,
         WatchOK(as, lv, tr, wt, cl, Len(tr), {}, 1)
  PROVE  AtRoot(as, lv, wt, cl, C, N)
<1>0. Placed(as, tr)
  BY OnTrail
<1>1. \A p \in N : as[var(p)] = p
  BY <1>0 DEF Placed
<1>2. ASSUME NEW p \in Lit, as[var(p)] = p
      PROVE  /\ p \in C \cup N /\ lv[var(p)] = 0
             /\ \A w \in wt[p] : as[var(OtherWatch(w, p, cl))] = OtherWatch(w, p, cl)
  <2>1. var(p) \in Var /\ as[var(p)] # l_Undef
    BY <1>2, LitFacts DEF l_Undef
  <2>2. PICK i \in 1 .. Len(tr) : tr[i] = p
    BY <1>0, <1>2, <2>1 DEF Placed
  <2>3. i <= Len(tr) /\ \A w : ~ (i = Len(tr) /\ w \in {})
    BY LenProperties
  <2>4. lv[var(tr[i])] = 0 /\ lv[var(tr[i])] < 1
    OBVIOUS
  <2>5. ASSUME NEW w \in wt[tr[i]]
        PROVE  as[var(OtherWatch(w, tr[i], cl))] = OtherWatch(w, tr[i], cl)
    BY <2>3, <2>4, Zenon DEF WatchOK
  <2>6. QED
    BY <2>2, <2>5
<1>3. QED
  BY <1>1, <1>2 DEF AtRoot

LEMMA ClearParts ==
  ASSUME NEW as, NEW lv, NEW wt, NEW vt, NEW cl, NEW C, NEW N, ClearTo(wt, vt, N)
  PROVE  /\ PointersOK(wt, cl) => PointersOK(vt, cl)
         /\ AllOld(cl, wt, cl, vt)
         /\ \A tr \in Seq(Lit) : \A qh, td, u :
              WatchOK(as, lv, tr, wt, cl, qh, td, u) => WatchOK(as, lv, tr, vt, cl, qh, td, u)
<1>1. \A p \in Lit : vt[p] \subseteq wt[p]
  BY DEF ClearTo
<1>2. PointersOK(wt, cl) => PointersOK(vt, cl)
  BY <1>1 DEF PointersOK
<1>3. AllOld(cl, wt, cl, vt)
  BY <1>1 DEF AllOld
<1>4. ASSUME NEW tr \in Seq(Lit), NEW qh, NEW td, NEW u, WatchOK(as, lv, tr, wt, cl, qh, td, u)
      PROVE  WatchOK(as, lv, tr, vt, cl, qh, td, u)
  <2>1. \A i \in 1 .. Len(tr) : tr[i] \in Lit
    BY ElementOfSeq
  <2>2. QED
    BY <1>1, <1>4, <2>1 DEF WatchOK
<1>5. QED
  BY <1>2, <1>3, <1>4

LEMMA ClearBinary ==
  ASSUME NEW as, NEW lv, NEW rs, NEW wt, NEW vt, NEW cl, NEW C, NEW N, ClearTo(wt, vt, N),
         AtRoot(as, lv, wt, cl, C, N), BinaryOK(wt), SweptOK(as, lv, rs, cl, wt, C)
  PROVE  BinaryOK(vt)
<1>1. SUFFICES ASSUME NEW p \in Lit, NEW q \in Lit, Literal(q) \in vt[p]
               PROVE  q # - p /\ Literal(- p) \in vt[- q]
  BY DEF BinaryOK
<1>2. p \notin N /\ - p \notin N /\ Literal(q) \in wt[p] /\ q \notin N
  <2>1. vt[p] = IF p \in N \/ - p \in N THEN {} ELSE wt[p] \ {Literal(r) : r \in N}
    BY DEF ClearTo
  <2>2. ~ (p \in N \/ - p \in N) /\ Literal(q) \in wt[p] \ {Literal(r) : r \in N}
    BY <1>1, <2>1
  <2>3. QED
    BY <2>2
<1>3. q # - p /\ Literal(- p) \in wt[- q]
  BY <1>2 DEF BinaryOK
<1>4. - p \in Lit /\ - q \in Lit /\ - (- q) = q /\ - (- p) = p
  BY LitFacts
<1>5. - q \notin N
  <2>1. SUFFICES ASSUME - q \in N PROVE FALSE
    OBVIOUS
  <2>2. as[var(- q)] = - q
    BY <2>1 DEF AtRoot
  <2>3. as[var(OtherWatch(Literal(- p), - q, cl))] = OtherWatch(Literal(- p), - q, cl)
    BY <1>3, <1>4, <2>2 DEF AtRoot
  <2>4. OtherWatch(Literal(- p), - q, cl) = - p
    BY TagsDiffer DEF OtherWatch
  <2>5. - p \in C
    BY <1>2, <1>4, <2>3, <2>4 DEF AtRoot
  <2>6. wt[- (- p)] = {}
    BY <2>5 DEF SweptOK
  <2>7. QED
    BY <1>2, <1>4, <2>6
<1>6. Literal(- p) \notin {Literal(r) : r \in N}
  BY <1>2, TagsDiffer
<1>7. Literal(- p) \in vt[- q]
  BY <1>2, <1>3, <1>4, <1>5, <1>6 DEF ClearTo
<1>8. QED
  BY <1>3, <1>7

LEMMA ClearSwept ==
  ASSUME NEW as, NEW lv, NEW rs, NEW wt, NEW vt, NEW cl \in [Address -> Clauses \cup {Free}],
         NEW C, NEW N, ClearTo(wt, vt, N),
         AtRoot(as, lv, wt, cl, C, N), LockedTrue(as, rs, cl), SweptOK(as, lv, rs, cl, wt, C),
         \A c \in Address : cl[c] # Free =>
            \/ rs[var(cl[c].first)] = Pointer(c)
            \/ \A p \in {cl[c].first, cl[c].second} \cup cl[c].rest : as[var(p)] # p
  PROVE  SweptOK(as, lv, rs, cl, vt, C \cup N)
<1>1. \A p \in Lit : vt[p] \subseteq wt[p]
  BY DEF ClearTo
<1>2. ASSUME NEW p \in C \cup N
      PROVE  as[var(p)] = p /\ lv[var(p)] = 0 /\ vt[p] = {} /\ vt[- p] = {}
  <2>1. p \in Lit /\ - p \in Lit /\ - (- p) = p
    BY LitFacts DEF AtRoot
  <2>2. CASE p \in C
    <3>1. as[var(p)] = p /\ lv[var(p)] = 0 /\ wt[p] = {} /\ wt[- p] = {}
      BY <2>2 DEF SweptOK
    <3>2. QED
      BY <1>1, <2>1, <3>1
  <2>3. CASE p \in N
    <3>1. as[var(p)] = p
      BY <2>3 DEF AtRoot
    <3>2. lv[var(p)] = 0
      BY <2>1, <3>1 DEF AtRoot
    <3>3. vt[p] = {} /\ vt[- p] = {}
      BY <2>1, <2>3 DEF ClearTo
    <3>4. QED
      BY <3>1, <3>2, <3>3
  <2>4. QED
    BY <2>2, <2>3
<1>3. ASSUME NEW c, NEW p \in Lit, Held(wt, C, c, p) PROVE Held(vt, C \cup N, c, p)
  <2>1. CASE p \in C \cup N \/ - p \in C \cup N
    BY <2>1 DEF Held
  <2>2. CASE p \notin C \cup N /\ - p \notin C \cup N
    <3>1. - p \in Lit /\ - (- p) = p
      BY LitFacts
    <3>2. Pointer(c) \in wt[- p]
      BY <1>3, <2>2 DEF Held
    <3>3. Pointer(c) \notin {Literal(q) : q \in N}
      BY TagsDiffer
    <3>4. Pointer(c) \in vt[- p]
      BY <2>2, <3>1, <3>2, <3>3 DEF ClearTo
    <3>5. QED
      BY <3>4 DEF Held
  <2>3. QED
    BY <2>1, <2>2
<1>4. ASSUME NEW c \in Address, cl[c] # Free, ~ Retired(as, lv, rs, cl, c)
      PROVE  /\ \A p \in {cl[c].first, cl[c].second} \cup cl[c].rest : p \notin C \cup N
             /\ - cl[c].first \notin C \cup N /\ - cl[c].second \notin C \cup N
  <2>1. cl[c].first \in Lit /\ cl[c].second \in Lit
    BY <1>4, ClauseType
  <2>2. /\ - cl[c].first \notin C /\ - cl[c].second \notin C
        /\ cl[c].first \notin C /\ cl[c].second \notin C
    BY <1>4 DEF SweptOK
  <2>3. rs[var(cl[c].first)] # Pointer(c)
    <3>1. SUFFICES ASSUME rs[var(cl[c].first)] = Pointer(c) PROVE FALSE
      OBVIOUS
    <3>2. var(cl[c].first) \in Var
      BY <2>1, LitFacts
    <3>3. as[var(cl[c].first)] = cl[c].first
      BY <3>1, <3>2 DEF LockedTrue
    <3>4. lv[var(cl[c].first)] = 0
      BY <2>1, <3>3 DEF AtRoot
    <3>5. QED
      BY <1>4, <3>1, <3>3, <3>4 DEF Retired
  <2>4. \A p \in {cl[c].first, cl[c].second} \cup cl[c].rest : as[var(p)] # p
    BY <1>4, <2>3
  <2>5. \A p \in {cl[c].first, cl[c].second} \cup cl[c].rest : p \notin C \cup N
    BY <1>2, <2>4
  <2>6. as[var(cl[c].first)] # cl[c].first /\ as[var(cl[c].second)] # cl[c].second
    BY <2>4
  <2>7. Pointer(c) \in wt[- cl[c].first] /\ Pointer(c) \in wt[- cl[c].second]
    <3>1. Held(wt, C, c, cl[c].first) /\ Held(wt, C, c, cl[c].second)
      BY <1>4 DEF SweptOK
    <3>2. QED
      BY <2>2, <3>1 DEF Held
  <2>8. \A p : OtherWatch(Pointer(c), p, cl) \in {cl[c].first, cl[c].second}
    BY TagsDiffer DEF OtherWatch
  <2>9. ASSUME NEW p \in Lit, p \in N, Pointer(c) \in wt[p] PROVE FALSE
    <3>1. as[var(p)] = p
      BY <2>9 DEF AtRoot
    <3>2. as[var(OtherWatch(Pointer(c), p, cl))] = OtherWatch(Pointer(c), p, cl)
      BY <2>9, <3>1 DEF AtRoot
    <3>3. QED
      BY <2>6, <2>8, <3>2
  <2>10. - cl[c].first \in Lit /\ - cl[c].second \in Lit
    BY <2>1, LitFacts
  <2>11. QED
    BY <2>2, <2>5, <2>7, <2>9, <2>10
<1>5. ASSUME NEW c \in Address, cl[c] # Free
      PROVE  Held(vt, C \cup N, c, cl[c].first) /\ Held(vt, C \cup N, c, cl[c].second)
  <2>1. cl[c].first \in Lit /\ cl[c].second \in Lit
    BY <1>5, ClauseType
  <2>2. Held(wt, C, c, cl[c].first) /\ Held(wt, C, c, cl[c].second)
    BY <1>5 DEF SweptOK
  <2>3. QED
    BY <1>3, <2>1, <2>2
<1>6. QED
  BY <1>2, <1>4, <1>5 DEF SweptOK

LEMMA ClearCovered ==
  ASSUME NEW as, NEW lv, NEW wt, NEW vt, NEW cl, NEW C, NEW N, ClearTo(wt, vt, N),
         AtRoot(as, lv, wt, cl, C, N), NEW pb \in SUBSET SUBSET Lit, CoveredOK(as, lv, cl, wt, pb)
  PROVE  CoveredOK(as, lv, cl, vt, pb)
<1>1. ASSUME NEW ps \in pb, NEW p \in ps, NEW q \in ps, Literal(q) \in wt[- p]
      PROVE  (\E r \in ps : as[var(r)] = r /\ lv[var(r)] = 0) \/ Literal(q) \in vt[- p]
  <2>1. p \in Lit /\ q \in Lit /\ - p \in Lit /\ - (- p) = p
    BY LitFacts
  <2>2. CASE p \in N \/ q \in N
    <3>1. PICK r \in ps : r \in N /\ r \in Lit
      BY <2>1, <2>2
    <3>2. as[var(r)] = r
      BY <3>1 DEF AtRoot
    <3>3. lv[var(r)] = 0
      BY <3>1, <3>2 DEF AtRoot
    <3>4. QED
      BY <3>2, <3>3
  <2>3. CASE - p \in N
    <3>1. as[var(- p)] = - p
      BY <2>3 DEF AtRoot
    <3>2. as[var(OtherWatch(Literal(q), - p, cl))] = OtherWatch(Literal(q), - p, cl)
      BY <1>1, <2>1, <3>1 DEF AtRoot
    <3>3. OtherWatch(Literal(q), - p, cl) = q
      BY TagsDiffer DEF OtherWatch
    <3>4. as[var(q)] = q
      BY <3>2, <3>3
    <3>5. lv[var(q)] = 0
      BY <2>1, <3>4 DEF AtRoot
    <3>6. QED
      BY <3>4, <3>5
  <2>4. CASE p \notin N /\ q \notin N /\ - p \notin N
    <3>1. Literal(q) \notin {Literal(r) : r \in N}
      BY <2>4, TagsDiffer
    <3>2. Literal(q) \in vt[- p]
      BY <1>1, <2>1, <2>4, <3>1 DEF ClearTo
    <3>3. QED
      BY <3>2
  <2>5. QED
    BY <2>2, <2>3, <2>4
<1>2. SUFFICES ASSUME NEW ps \in pb
               PROVE  \/ \E p \in ps : - p \in ps
                      \/ \E p \in ps : as[var(p)] = p /\ lv[var(p)] = 0
                      \/ \E c \in Address : cl[c] # Free /\ ~ cl[c].learnt
                                            /\ {cl[c].first, cl[c].second} \cup cl[c].rest \subseteq ps
                      \/ \E p, q \in ps : Literal(q) \in vt[- p]
  BY DEF CoveredOK
<1>3. \/ \E p \in ps : - p \in ps
      \/ \E p \in ps : as[var(p)] = p /\ lv[var(p)] = 0
      \/ \E c \in Address : cl[c] # Free /\ ~ cl[c].learnt
                            /\ {cl[c].first, cl[c].second} \cup cl[c].rest \subseteq ps
      \/ \E p, q \in ps : Literal(q) \in wt[- p]
  BY DEF CoveredOK
<1>4. QED
  BY <1>1, <1>3

-----------------------------------------------------------------------------
(* What the changes keep, together.                                        *)

LEMMA SoundIs ==
  ASSUME NEW as, NEW lv, NEW rs, NEW tr, NEW tl, NEW cl, NEW wt, NEW C, NEW pb,
         Sound(as, lv, rs, tr, tl, cl, wt, C, pb)
  PROVE  /\ Typed(as, lv, rs, tr, tl, cl, wt, C, pb)
         /\ TrailOK(as, tr) /\ LevelsOK(lv, tr, tl) /\ DecisionsOK(lv, rs, tr, tl)
         /\ ReasonsOK(as, lv, rs, tr, cl) /\ ClausesOK(cl) /\ BinaryOK(wt) /\ PointersOK(wt, cl)
         /\ SweptOK(as, lv, rs, cl, wt, C)
         /\ KnownClausesOK(pb, cl, wt) /\ KnownFactsOK(pb, lv, rs, tr)
BY DEF Sound

LEMMA SoundMore ==
  ASSUME NEW as, NEW lv, NEW rs, NEW tr, NEW tl, NEW cl, NEW wt, NEW C, NEW pb,
         Sound(as, lv, rs, tr, tl, cl, wt, C, pb), NEW qb \in SUBSET SUBSET Lit, pb \subseteq qb
  PROVE  Sound(as, lv, rs, tr, tl, cl, wt, C, qb)
<1>0. \A ps : ImpliedBy(pb, ps) => ImpliedBy(qb, ps)
  BY ImpliedMore
<1>1. KnownClausesOK(pb, cl, wt) => KnownClausesOK(qb, cl, wt)
  BY <1>0 DEF KnownClausesOK
<1>2. KnownFactsOK(pb, lv, rs, tr) => KnownFactsOK(qb, lv, rs, tr)
  BY <1>0 DEF KnownFactsOK
<1>3. Typed(as, lv, rs, tr, tl, cl, wt, C, qb)
  BY DEF Sound, Typed
<1>4. QED
  BY <1>1, <1>2, <1>3 DEF Sound

LEMMA SoundPush ==
  ASSUME NEW as, NEW lv, NEW rs, NEW tr, NEW tl, NEW cl, NEW wt, NEW C, NEW pb,
         Sound(as, lv, rs, tr, tl, cl, wt, C, pb),
         NEW bs, NEW mv, NEW qs, NEW br, Typed(bs, mv, qs, br, tl, cl, wt, C, pb), TrailOK(bs, br),
         NEW p, NEW r, Pushed(as, lv, rs, tr, bs, mv, qs, br, p, Len(tl), r),
         r = NULL => Len(tl) = 0, r # NULL => Unit(as, lv, cl, r, p, Len(tl)),
         Len(tl) = 0 => ImpliedBy(pb, {p}), r[1] = "lit" => ImpliedBy(pb, {p, - r[2]})
  PROVE  Sound(bs, mv, qs, br, tl, cl, wt, C, pb)
<1>1. /\ rs \in [Var -> GClauses] /\ tr \in Seq(Lit) /\ tl \in Seq(Nat)
      /\ cl \in [Address -> Clauses \cup {Free}] /\ C \subseteq Lit
  BY DEF Sound, Typed
<1>2. /\ TrailOK(as, tr) /\ LevelsOK(lv, tr, tl) /\ DecisionsOK(lv, rs, tr, tl)
      /\ ReasonsOK(as, lv, rs, tr, cl) /\ SweptOK(as, lv, rs, cl, wt, C)
      /\ KnownFactsOK(pb, lv, rs, tr)
  BY SoundIs
<1>3. LevelsOK(mv, br, tl)
  BY <1>1, <1>2, LevelsPush
<1>4. DecisionsOK(mv, qs, br, tl)
  BY <1>1, <1>2, DecisionsPush
<1>5. r # NULL => ReasonOK(bs, mv, br, cl, r, Len(br))
  BY <1>1, <1>2, UnitIsReason
<1>6. ReasonsOK(bs, mv, qs, br, cl)
  BY <1>1, <1>2, <1>5, ReasonsPush
<1>7. RootsKept(as, lv, rs, bs, mv, qs)
  BY PushKeepsRoots
<1>8. SweptOK(bs, mv, qs, cl, wt, C)
  BY <1>1, <1>2, <1>7, SweptAssign
<1>9. KnownFactsOK(pb, mv, qs, br)
  BY <1>2, FactsPush
<1>10. QED
  BY <1>3, <1>4, <1>6, <1>8, <1>9, SoundIs DEF Sound

LEMMA SoundDecide ==
  ASSUME NEW as, NEW lv, NEW rs, NEW tr, NEW tl, NEW cl, NEW wt, NEW C, NEW pb,
         Sound(as, lv, rs, tr, tl, cl, wt, C, pb),
         NEW bs, NEW mv, NEW qs, NEW br, NEW bl, Typed(bs, mv, qs, br, bl, cl, wt, C, pb),
         TrailOK(bs, br), bl = Append(tl, Len(tr)),
         NEW p, Pushed(as, lv, rs, tr, bs, mv, qs, br, p, Len(tl) + 1, NULL)
  PROVE  Sound(bs, mv, qs, br, bl, cl, wt, C, pb)
<1>1. /\ rs \in [Var -> GClauses] /\ tr \in Seq(Lit) /\ tl \in Seq(Nat)
      /\ cl \in [Address -> Clauses \cup {Free}] /\ C \subseteq Lit
  BY DEF Sound, Typed
<1>2. /\ TrailOK(as, tr) /\ LevelsOK(lv, tr, tl) /\ DecisionsOK(lv, rs, tr, tl)
      /\ ReasonsOK(as, lv, rs, tr, cl) /\ SweptOK(as, lv, rs, cl, wt, C)
      /\ KnownFactsOK(pb, lv, rs, tr)
  BY SoundIs
<1>3. LevelsOK(mv, br, bl)
  BY <1>1, <1>2, LevelsDecide
<1>4. DecisionsOK(mv, qs, br, bl)
  BY <1>1, <1>2, DecisionsDecide
<1>5. ReasonsOK(bs, mv, qs, br, cl)
  BY <1>1, <1>2, ReasonsPush
<1>6. RootsKept(as, lv, rs, bs, mv, qs)
  BY PushKeepsRoots
<1>7. SweptOK(bs, mv, qs, cl, wt, C)
  BY <1>1, <1>2, <1>6, SweptAssign
<1>8. Len(tl) + 1 # 0
  BY <1>1, LenProperties
<1>9. KnownFactsOK(pb, mv, qs, br)
  BY <1>2, <1>8, TagsDiffer, FactsPush
<1>10. QED
  BY <1>3, <1>4, <1>5, <1>7, <1>9, SoundIs DEF Sound

LEMMA SoundCut ==
  ASSUME NEW as, NEW lv, NEW rs, NEW tr, NEW tl, NEW cl, NEW wt, NEW C, NEW pb,
         Sound(as, lv, rs, tr, tl, cl, wt, C, pb),
         NEW bs, NEW qs, NEW br, NEW bl, Typed(bs, lv, qs, br, bl, cl, wt, C, pb), TrailOK(bs, br),
         NEW n, CutTo(as, lv, rs, tr, tl, bs, qs, br, bl, n)
  PROVE  Sound(bs, lv, qs, br, bl, cl, wt, C, pb)
<1>1. /\ rs \in [Var -> GClauses] /\ tr \in Seq(Lit) /\ tl \in Seq(Nat)
      /\ cl \in [Address -> Clauses \cup {Free}] /\ C \subseteq Lit
  BY DEF Sound, Typed
<1>2. /\ LevelsOK(lv, tr, tl) /\ DecisionsOK(lv, rs, tr, tl)
      /\ ReasonsOK(as, lv, rs, tr, cl) /\ SweptOK(as, lv, rs, cl, wt, C)
      /\ KnownFactsOK(pb, lv, rs, tr)
  BY SoundIs
<1>3. LevelsOK(lv, br, bl)
  BY <1>1, <1>2, LevelsCut
<1>4. DecisionsOK(lv, qs, br, bl)
  BY <1>1, <1>2, DecisionsCut
<1>5. ReasonsOK(bs, lv, qs, br, cl)
  BY <1>1, <1>2, ReasonsCut
<1>6. RootsKept(as, lv, rs, bs, lv, qs)
  BY CutKeepsRoots
<1>7. SweptOK(bs, lv, qs, cl, wt, C)
  BY <1>1, <1>2, <1>6, SweptAssign
<1>8. KnownFactsOK(pb, lv, qs, br)
  BY <1>2, FactsCut
<1>9. QED
  BY <1>3, <1>4, <1>5, <1>7, <1>8, SoundIs DEF Sound

LEMMA SoundSwap ==
  ASSUME NEW as, NEW lv, NEW rs, NEW tr, NEW tl, NEW cl, NEW wt, NEW C, NEW pb,
         Sound(as, lv, rs, tr, tl, cl, wt, C, pb),
         NEW dl, Typed(as, lv, rs, tr, tl, dl, wt, C, pb), SwapTo(as, cl, dl)
  PROVE  Sound(as, lv, rs, tr, tl, dl, wt, C, pb) /\ AllOld(cl, wt, dl, wt)
<1>1. /\ rs \in [Var -> GClauses] /\ tr \in Seq(Lit)
      /\ cl \in [Address -> Clauses \cup {Free}] /\ C \subseteq Lit
  BY DEF Sound, Typed
<1>2. /\ TrailOK(as, tr) /\ ReasonsOK(as, lv, rs, tr, cl) /\ ClausesOK(cl) /\ PointersOK(wt, cl)
      /\ SweptOK(as, lv, rs, cl, wt, C) /\ KnownClausesOK(pb, cl, wt)
  BY SoundIs
<1>3. ReasonsOK(as, lv, rs, tr, dl)
  BY <1>1, <1>2, SwapReasons
<1>4. ClausesOK(dl) /\ PointersOK(wt, dl)
  BY <1>1, <1>2, SwapClauses, SwapPointers
<1>5. SweptOK(as, lv, rs, dl, wt, C)
  BY <1>1, <1>2, SwapSwept
<1>6. AllOld(cl, wt, dl, wt)
  <2>1. Alike(as, cl, dl)
    BY <1>1, SwapAlike
  <2>2. QED
    BY <2>1 DEF Alike, AllOld
<1>7. KnownClausesOK(pb, dl, wt)
  BY <1>2, <1>6, KnownOld
<1>8. QED
  BY <1>3, <1>4, <1>5, <1>6, <1>7, SoundIs DEF Sound

LEMMA SoundMove ==
  ASSUME NEW as, NEW lv, NEW rs, NEW tr, NEW tl, NEW cl, NEW wt, NEW C, NEW pb,
         Sound(as, lv, rs, tr, tl, cl, wt, C, pb),
         NEW dl, NEW vt, Typed(as, lv, rs, tr, tl, dl, vt, C, pb),
         NEW c, NEW q, MoveTo(as, cl, wt, dl, vt, c, q)
  PROVE  Sound(as, lv, rs, tr, tl, dl, vt, C, pb)
<1>1. /\ as \in [Var -> Lit \cup {l_Undef}] /\ rs \in [Var -> GClauses] /\ tr \in Seq(Lit)
      /\ cl \in [Address -> Clauses \cup {Free}] /\ C \subseteq Lit
  BY DEF Sound, Typed
<1>2. /\ TrailOK(as, tr) /\ ReasonsOK(as, lv, rs, tr, cl) /\ ClausesOK(cl) /\ PointersOK(wt, cl)
      /\ SweptOK(as, lv, rs, cl, wt, C) /\ KnownClausesOK(pb, cl, wt) /\ BinaryOK(wt)
  BY SoundIs
<1>3. ReasonsOK(as, lv, rs, tr, dl)
  BY <1>1, <1>2, MoveReasons
<1>4. ClausesOK(dl) /\ PointersOK(vt, dl)
  BY <1>1, <1>2, MoveClauses, MovePointers
<1>5. SweptOK(as, lv, rs, dl, vt, C)
  BY <1>1, <1>2, MoveSwept
<1>6. SameBinaries(wt, vt) /\ AllOld(cl, wt, dl, vt)
  BY MoveLits
<1>7. KnownClausesOK(pb, dl, vt) /\ BinaryOK(vt)
  BY <1>2, <1>6, KnownOld, BinaryKept
<1>8. QED
  BY <1>3, <1>4, <1>5, <1>7, SoundIs DEF Sound

LEMMA SoundAllocate ==
  ASSUME NEW as, NEW lv, NEW rs, NEW tr, NEW tl, NEW cl, NEW wt, NEW C, NEW pb,
         Sound(as, lv, rs, tr, tl, cl, wt, C, pb),
         NEW dl, NEW vt, Typed(as, lv, rs, tr, tl, dl, vt, C, pb),
         NEW c, NEW ln, NEW p, NEW q, NEW rest, AllocateTo(cl, wt, dl, vt, c, ln, p, q, rest),
         Outside(C, p, q, rest), ImpliedBy(pb, {p, q} \cup rest)
  PROVE  Sound(as, lv, rs, tr, tl, dl, vt, C, pb)
<1>1. /\ rs \in [Var -> GClauses] /\ tr \in Seq(Lit)
      /\ cl \in [Address -> Clauses \cup {Free}] /\ C \subseteq Lit
  BY DEF Sound, Typed
<1>2. /\ TrailOK(as, tr) /\ ReasonsOK(as, lv, rs, tr, cl) /\ ClausesOK(cl) /\ PointersOK(wt, cl)
      /\ SweptOK(as, lv, rs, cl, wt, C) /\ KnownClausesOK(pb, cl, wt) /\ BinaryOK(wt)
  BY SoundIs
<1>3. ReasonsOK(as, lv, rs, tr, dl)
  BY <1>1, <1>2, AllocateReasons
<1>4. ClausesOK(dl) /\ PointersOK(vt, dl) /\ SameBinaries(wt, vt) /\ AllKnown(pb, cl, wt, dl, vt)
  BY <1>2, AllocateParts
<1>5. SweptOK(as, lv, rs, dl, vt, C)
  BY <1>1, <1>2, AllocateSwept
<1>6. KnownClausesOK(pb, dl, vt) /\ BinaryOK(vt)
  BY <1>2, <1>4, KnownKept, BinaryKept
<1>7. QED
  BY <1>3, <1>4, <1>5, <1>6, SoundIs DEF Sound

LEMMA SoundBinary ==
  ASSUME NEW as, NEW lv, NEW rs, NEW tr, NEW tl, NEW cl, NEW wt, NEW C, NEW pb,
         Sound(as, lv, rs, tr, tl, cl, wt, C, pb),
         NEW vt, Typed(as, lv, rs, tr, tl, cl, vt, C, pb),
         NEW p, NEW q, BinaryTo(wt, vt, p, q),
         p \notin C, q \notin C, - p \notin C, - q \notin C, ImpliedBy(pb, {p, q})
  PROVE  Sound(as, lv, rs, tr, tl, cl, vt, C, pb)
<1>1. cl \in [Address -> Clauses \cup {Free}] /\ C \subseteq Lit
  BY DEF Sound, Typed
<1>2. /\ PointersOK(wt, cl) /\ SweptOK(as, lv, rs, cl, wt, C) /\ KnownClausesOK(pb, cl, wt) /\ BinaryOK(wt)
  BY SoundIs
<1>3. PointersOK(vt, cl) /\ BinaryOK(vt) /\ AllKnown(pb, cl, wt, cl, vt)
  BY <1>2, BinaryParts
<1>4. SweptOK(as, lv, rs, cl, vt, C)
  BY <1>1, <1>2, BinarySwept
<1>5. KnownClausesOK(pb, cl, vt)
  BY <1>2, <1>3, KnownKept
<1>6. QED
  BY <1>3, <1>4, <1>5, SoundIs DEF Sound

LEMMA SoundRemove ==
  ASSUME NEW as, NEW lv, NEW rs, NEW tr, NEW tl, NEW cl, NEW wt, NEW C, NEW pb,
         Sound(as, lv, rs, tr, tl, cl, wt, C, pb),
         NEW dl, NEW vt, Typed(as, lv, rs, tr, tl, dl, vt, C, pb),
         NEW D, RemoveTo(rs, cl, wt, dl, vt, D)
  PROVE  Sound(as, lv, rs, tr, tl, dl, vt, C, pb)
<1>1. /\ rs \in [Var -> GClauses] /\ tr \in Seq(Lit)
      /\ cl \in [Address -> Clauses \cup {Free}] /\ C \subseteq Lit
  BY DEF Sound, Typed
<1>2. /\ TrailOK(as, tr) /\ ReasonsOK(as, lv, rs, tr, cl) /\ ClausesOK(cl) /\ PointersOK(wt, cl)
      /\ SweptOK(as, lv, rs, cl, wt, C) /\ KnownClausesOK(pb, cl, wt) /\ BinaryOK(wt)
  BY SoundIs
<1>3. ReasonsOK(as, lv, rs, tr, dl)
  BY <1>1, <1>2, RemoveReasons
<1>4. ClausesOK(dl) /\ PointersOK(vt, dl) /\ SameBinaries(wt, vt) /\ AllOld(cl, wt, dl, vt)
  BY <1>2, RemoveParts
<1>5. SweptOK(as, lv, rs, dl, vt, C)
  BY <1>1, <1>2, RemoveSwept
<1>6. KnownClausesOK(pb, dl, vt) /\ BinaryOK(vt)
  BY <1>2, <1>4, KnownOld, BinaryKept
<1>7. QED
  BY <1>3, <1>4, <1>5, <1>6, SoundIs DEF Sound

LEMMA SoundClear ==
  ASSUME NEW as, NEW lv, NEW rs, NEW tr, NEW tl, NEW cl, NEW wt, NEW C, NEW pb,
         Sound(as, lv, rs, tr, tl, cl, wt, C, pb),
         NEW vt, NEW N, Typed(as, lv, rs, tr, tl, cl, vt, C \cup N, pb), ClearTo(wt, vt, N),
         AtRoot(as, lv, wt, cl, C, N),
         \A c \in Address : cl[c] # Free =>
            \/ rs[var(cl[c].first)] = Pointer(c)
            \/ \A p \in {cl[c].first, cl[c].second} \cup cl[c].rest : as[var(p)] # p
  PROVE  Sound(as, lv, rs, tr, tl, cl, vt, C \cup N, pb)
<1>1. /\ tr \in Seq(Lit) /\ cl \in [Address -> Clauses \cup {Free}]
  BY DEF Sound, Typed
<1>2. /\ TrailOK(as, tr) /\ ReasonsOK(as, lv, rs, tr, cl) /\ PointersOK(wt, cl)
      /\ SweptOK(as, lv, rs, cl, wt, C) /\ KnownClausesOK(pb, cl, wt) /\ BinaryOK(wt)
  BY SoundIs
<1>3. LockedTrue(as, rs, cl)
  BY <1>1, <1>2, ReasonIsTrue
<1>4. SweptOK(as, lv, rs, cl, vt, C \cup N)
  BY <1>1, <1>2, <1>3, ClearSwept
<1>5. PointersOK(vt, cl) /\ AllOld(cl, wt, cl, vt)
  BY <1>2, ClearParts
<1>6. KnownClausesOK(pb, cl, vt)
  BY <1>2, <1>5, KnownOld
<1>7. BinaryOK(vt)
  BY <1>2, ClearBinary
<1>8. QED
  BY <1>4, <1>5, <1>6, <1>7, SoundIs DEF Sound

-----------------------------------------------------------------------------
(* The steps. What the invariant says between two of them.                 *)

LEMMA LevelRange ==
  ASSUME NEW as, NEW tr \in Seq(Lit), TrailOK(as, tr), NEW lv, NEW tl, LevelsOK(lv, tr, tl),
         NEW x \in Var, as[x] # l_Undef
  PROVE  lv[x] \in 0 .. Len(tl) /\ \E i \in 1 .. Len(tr) : tr[i] = as[x] /\ var(tr[i]) = x
<1>1. Placed(as, tr)
  BY OnTrail
<1>2. PICK i \in 1 .. Len(tr) : tr[i] = as[x] /\ var(tr[i]) = x
  BY <1>1 DEF Placed
<1>3. QED
  BY <1>2 DEF LevelsOK

LEMMA Between ==
  ASSUME IInv
  PROVE  /\ TypeOK
         /\ Typed(assigns, level, reason, trail, trail_lim, clause, watches, Cleared, problem)
         /\ TrailOK(assigns, trail) /\ Placed(assigns, trail)
         /\ LevelsOK(level, trail, trail_lim)
         /\ Len(trail) \in Nat /\ Len(trail_lim) \in Nat
         /\ decisionLevel = Len(trail_lim)
<1>1. /\ TypeOK /\ TrailOK(assigns, trail) /\ LevelsOK(level, trail, trail_lim)
      /\ Typed(assigns, level, reason, trail, trail_lim, clause, watches, Cleared, problem)
  BY DEF IInv, Sound
<1>2. trail \in Seq(Lit) /\ trail_lim \in Seq(Nat)
  BY <1>1 DEF TypeOK
<1>3. Placed(assigns, trail)
  BY <1>1, <1>2, OnTrail
<1>4. QED
  BY <1>1, <1>2, <1>3, LenProperties DEF decisionLevel

(* What a step that does not change the variables keeps.                   *)
LEMMA SoundSame ==
  ASSUME IInv, UNCHANGED <<assigns, level, reason, trail, trail_lim, clause, watches, problem>>,
         UNCHANGED simpDB_assigns
  PROVE  Sound(assigns', level', reason', trail', trail_lim', clause', watches', Cleared', problem')
<1>1. Cleared' = Cleared
  BY DEF Cleared
<1>2. QED
  BY <1>1 DEF IInv

LEMMA NoAnalysis ==
  ASSUME at' \notin {"analyze", "learn"}, seen' = {}, out_learnt' = {}, index' = 0
  PROVE  AnalysisOK'
BY DEF AnalysisOK

LEMMA NotAnalyzing ==
  ASSUME IInv, at \notin {"analyze", "learn"}
  PROVE  seen = {} /\ out_learnt = {} /\ index = 0
BY DEF IInv, AnalysisOK

LEMMA PositiveSame ==
  ASSUME IInv, at' \notin {"analyze", "learn", "unsatisfiable"}, UNCHANGED <<ok, problem>>,
         PositiveClauses(problem, clause, watches) => PositiveClauses(problem, clause', watches'),
         PositiveFacts(problem, level, reason, trail)
           => PositiveFacts(problem, level', reason', trail')
  PROVE  PositiveOK'
<1>1. IsPositive' => IsPositive
  BY DEF IsPositive
<1>2. PositiveOK
  BY DEF IInv
<1>3. QED
  BY <1>1, <1>2 DEF PositiveOK

-----------------------------------------------------------------------------
(* solve begins; propagate takes the next literal off the queue.           *)

LEMMA SolveStep ==
  ASSUME IInv, solve
  PROVE  IInv'
<1>0. /\ at = "adding" /\ at' = IF ok THEN "propagate" ELSE "unsatisfiable"
      /\ UNCHANGED <<input, problem, nVars, ok, clause, watches, simpDB_assigns, assigns, level,
                     reason, trail, trail_lim, qhead, order, todo, seen, look, index, out_learnt,
                     asserting, model, upkeep>>
  BY DEF solve, given, database, assignment, analysis
<1>1. TypeOK'
  BY <1>0 DEF IInv, TypeOK
<1>2. Sound(assigns', level', reason', trail', trail_lim', clause', watches', Cleared', problem')
  BY <1>0, SoundSame
<1>3. /\ QueueOK(level', trail', trail_lim', qhead', todo')
      /\ HeapOK(assigns', nVars', order')
      /\ TodoOK(watches', trail', qhead', todo')
      /\ ok' => CoveredOK(assigns', level', clause', watches', problem')
  BY <1>0 DEF IInv
<1>4. PhaseOK
  BY DEF IInv
<1>5. WatchOK(assigns', level', trail', watches', clause', qhead', todo', Upto')
  <2>1. qhead' = 0 /\ \A i \in 1 .. Len(trail) : ~ (i <= 0)
    BY <1>0, <1>4 DEF PhaseOK
  <2>2. QED
    BY <1>0, <2>1 DEF WatchOK
<1>6. AnalysisOK'
  BY <1>0, NotAnalyzing, NoAnalysis
<1>7. PhaseOK'
  BY <1>0, <1>4 DEF PhaseOK, IInv, TypeOK
<1>8. PositiveOK'
  <2>1. PositiveOK
    BY DEF IInv
  <2>2. IsPositive' => IsPositive
    BY <1>0 DEF IsPositive
  <2>3. QED
    BY <1>0, <2>1, <2>2 DEF PositiveOK
<1>9. QED
  BY <1>1, <1>2, <1>3, <1>5, <1>6, <1>7, <1>8 DEF IInv

LEMMA DequeueStep ==
  ASSUME IInv, Dequeue
  PROVE  IInv'
<1>0. /\ at = "propagate" /\ at' = at /\ todo = {} /\ qhead < Len(trail)
      /\ qhead' = qhead + 1 /\ todo' = watches[trail[qhead']]
      /\ UNCHANGED <<input, problem, nVars, ok, clause, watches, simpDB_assigns, assigns, level,
                     reason, trail, trail_lim, order, seen, look, index, out_learnt,
                     asserting, model, upkeep>>
  BY DEF Dequeue, given, database, analysis
<1>a. /\ qhead \in Nat /\ qhead' \in 1 .. Len(trail) /\ trail[qhead'] \in Lit
      /\ Len(trail) \in Nat
  <2>1. qhead \in 0 .. Len(trail) /\ Len(trail) \in Nat /\ Placed(assigns, trail)
    BY Between DEF TypeOK
  <2>2. qhead' \in 1 .. Len(trail)
    BY <1>0, <2>1
  <2>3. QED
    BY <2>1, <2>2 DEF Placed
<1>1. TypeOK'
  <2>1. todo' \subseteq GClauses \ {NULL}
    BY <1>0, <1>a DEF IInv, TypeOK
  <2>2. qhead' \in 0 .. Len(trail')
    BY <1>0, <1>a
  <2>3. QED
    BY <1>0, <2>1, <2>2 DEF IInv, TypeOK
<1>2. Sound(assigns', level', reason', trail', trail_lim', clause', watches', Cleared', problem')
  BY <1>0, SoundSame
<1>3. HeapOK(assigns', nVars', order') /\ (ok' => CoveredOK(assigns', level', clause', watches', problem'))
  BY <1>0 DEF IInv
<1>4. QueueOK(level', trail', trail_lim', qhead', todo')
  <2>1. \A i \in 1 .. Len(trail) : i > qhead => level[var(trail[i])] = Len(trail_lim)
    BY DEF IInv, QueueOK
  <2>2. ASSUME NEW i \in 1 .. Len(trail), i > qhead' \/ i = qhead'
        PROVE  level[var(trail[i])] = Len(trail_lim)
    BY <1>0, <1>a, <2>1, <2>2
  <2>3. qhead' > 0
    BY <1>a
  <2>4. QED
    BY <1>0, <2>2, <2>3 DEF QueueOK
<1>5. TodoOK(watches', trail', qhead', todo')
  BY <1>0 DEF TodoOK
<1>6. WatchOK(assigns', level', trail', watches', clause', qhead', todo', Upto')
  <2>1. Upto' = Upto
    BY <1>0 DEF Upto, decisionLevel
  <2>2. WatchOK(assigns, level, trail, watches, clause, qhead, todo, Upto)
    BY DEF IInv
  <2>3. ASSUME NEW i \in 1 .. Len(trail), NEW w \in watches[trail[i]],
               i <= qhead', ~ (i = qhead' /\ w \in todo')
        PROVE  i <= qhead /\ ~ (i = qhead /\ w \in todo)
    <3>1. i # qhead'
      BY <1>0, <2>3
    <3>2. i <= qhead
      BY <1>0, <1>a, <2>3, <3>1
    <3>3. QED
      BY <1>0, <3>2
  <2>4. QED
    BY <1>0, <2>1, <2>2, <2>3 DEF WatchOK
<1>7. AnalysisOK'
  BY <1>0, NotAnalyzing, NoAnalysis
<1>8. PhaseOK'
  BY <1>0 DEF PhaseOK, IInv
<1>9. PositiveOK'
  BY <1>0, PositiveSame
<1>10. QED
  BY <1>1, <1>2, <1>3, <1>4, <1>5, <1>6, <1>7, <1>8, <1>9 DEF IInv

-----------------------------------------------------------------------------
(* propagate visits a watch.                                               *)

(* The clauses with that of w turned.                                      *)
Turning(w) == IF w[1] = "lit" THEN clause ELSE [clause EXCEPT ![w[2]] = Turned(w[2])]

LEMMA AtHand ==
  ASSUME IInv, NEW w \in todo
  PROVE  /\ qhead \in 1 .. Len(trail) /\ trail[qhead] \in Lit /\ IsTrue(trail[qhead])
         /\ level[var(trail[qhead])] = decisionLevel
         /\ w \in watches[trail[qhead]] /\ w \in GClauses \ {NULL}
         /\ First(w) = OtherWatch(w, trail[qhead], clause) /\ First(w) \in Lit
<1>0. /\ TypeOK /\ Typed(assigns, level, reason, trail, trail_lim, clause, watches, Cleared, problem)
      /\ Placed(assigns, trail) /\ Len(trail) \in Nat /\ decisionLevel = Len(trail_lim)
  BY Between
<1>1. w \in GClauses \ {NULL} /\ qhead \in 0 .. Len(trail)
  BY <1>0 DEF TypeOK
<1>2. QueueOK(level, trail, trail_lim, qhead, todo) /\ TodoOK(watches, trail, qhead, todo)
  BY DEF IInv
<1>3. qhead \in 1 .. Len(trail) /\ w \in watches[trail[qhead]]
  BY <1>0, <1>1, <1>2 DEF QueueOK, TodoOK
<1>4. trail[qhead] \in Lit /\ assigns[var(trail[qhead])] = trail[qhead]
  BY <1>0, <1>3 DEF Placed
<1>5. level[var(trail[qhead])] = decisionLevel
  BY <1>0, <1>2, <1>3 DEF QueueOK
<1>6. First(w) = OtherWatch(w, trail[qhead], clause)
  BY DEF First, OtherWatch, Turned
<1>7. First(w) \in Lit
  BY <1>0, <1>3, <1>4, <1>6, OtherType DEF Typed, IInv, Sound
<1>8. QED
  BY <1>1, <1>3, <1>4, <1>5, <1>6, <1>7 DEF IsTrue

(* The clause of a pointer at hand, and what it becomes.                   *)
LEMMA ClauseAtHand ==
  ASSUME IInv, NEW w \in todo, NEW c \in Address, w = Pointer(c)
  PROVE  /\ clause[c] # Free /\ clause[c].rest \subseteq Lit /\ clause[c].learnt \in BOOLEAN
         /\ Turned(c) \in Clauses /\ Turned(c).learnt = clause[c].learnt
         /\ Turned(c).first = First(w) /\ Turned(c).second = - trail[qhead]
         /\ Turned(c).rest = clause[c].rest /\ Rest(w) = clause[c].rest
         /\ First(w) # - trail[qhead] /\ First(w) \notin clause[c].rest
         /\ - trail[qhead] \notin clause[c].rest
         /\ {First(w), - trail[qhead]} = {clause[c].first, clause[c].second}
         /\ \/ Turned(c) = clause[c]
            \/ clause[c].first = - trail[qhead] /\ clause[c].second = First(w)
<1>0. /\ clause \in [Address -> Clauses \cup {Free}] /\ PointersOK(watches, clause) /\ ClausesOK(clause)
  BY DEF IInv, Sound, Typed
<1>1. w[1] = "clause" /\ w[2] = c
  BY TagsDiffer
<1>2. trail[qhead] \in Lit /\ Pointer(c) \in watches[trail[qhead]]
  BY AtHand
<1>3. clause[c] # Free /\ - trail[qhead] \in {clause[c].first, clause[c].second}
  BY <1>0, <1>2 DEF PointersOK
<1>4. /\ clause[c] \in Clauses /\ clause[c].first \in Lit /\ clause[c].second \in Lit
      /\ clause[c].rest \subseteq Lit /\ clause[c].learnt \in BOOLEAN
  BY <1>0, <1>3 DEF Clauses
<1>5. clause[c].first # clause[c].second /\ clause[c].first \notin clause[c].rest /\ clause[c].second \notin clause[c].rest
  BY <1>0, <1>3 DEF ClausesOK
<1>6. First(w) = Turned(c).first /\ Rest(w) = Turned(c).rest
  BY <1>1 DEF First, Rest
<1>7. CASE clause[c].first = - trail[qhead]
  <2>1. Turned(c) = [clause[c] EXCEPT !.first = clause[c].second, !.second = - trail[qhead]]
    BY <1>7 DEF Turned
  <2>2. /\ Turned(c) \in Clauses /\ Turned(c).learnt = clause[c].learnt
        /\ Turned(c).first = clause[c].second /\ Turned(c).second = - trail[qhead]
        /\ Turned(c).rest = clause[c].rest
    BY <1>4, <1>7, <2>1 DEF Clauses
  <2>3. QED
    BY <1>3, <1>4, <1>5, <1>6, <1>7, <2>2
<1>8. CASE clause[c].first # - trail[qhead]
  <2>1. Turned(c) = clause[c] /\ clause[c].second = - trail[qhead]
    BY <1>3, <1>8 DEF Turned
  <2>2. QED
    BY <1>3, <1>4, <1>5, <1>6, <2>1
<1>9. QED
  BY <1>7, <1>8

LEMMA TurningIs ==
  ASSUME IInv, NEW w \in todo
  PROVE  /\ Typed(assigns, level, reason, trail, trail_lim, Turning(w), watches, Cleared, problem)
         /\ SwapTo(assigns, clause, Turning(w))
         /\ Sound(assigns, level, reason, trail, trail_lim, Turning(w), watches, Cleared, problem)
         /\ AllOld(clause, watches, Turning(w), watches)
         /\ SameOthers(watches, clause, Turning(w))
         /\ WatchOK(assigns, level, trail, watches, Turning(w), qhead, todo, Upto)
         /\ ok => CoveredOK(assigns, level, Turning(w), watches, problem)
         /\ First(w) = OtherWatch(w, trail[qhead], Turning(w))
<1>0. /\ Typed(assigns, level, reason, trail, trail_lim, clause, watches, Cleared, problem)
      /\ Sound(assigns, level, reason, trail, trail_lim, clause, watches, Cleared, problem)
      /\ PointersOK(watches, clause) /\ ClausesOK(clause)
  BY DEF IInv, Sound
<1>1. clause \in [Address -> Clauses \cup {Free}] /\ watches \in [Lit -> SUBSET (GClauses \ {NULL})]
  BY <1>0 DEF Typed
<1>2. w \in GClauses \ {NULL} /\ IsTrue(trail[qhead]) /\ trail[qhead] \in Lit /\ w \in watches[trail[qhead]]
  BY AtHand
<1>3. Turning(w) \in [Address -> Clauses \cup {Free}] /\ SwapTo(assigns, clause, Turning(w))
  <2>1. CASE w[1] = "lit"
    BY <1>1, <2>1 DEF Turning, SwapTo
  <2>2. ASSUME NEW c \in Address, w = Pointer(c)
        PROVE  Turning(w) \in [Address -> Clauses \cup {Free}] /\ SwapTo(assigns, clause, Turning(w))
    <3>1. Turning(w) = [clause EXCEPT ![c] = Turned(c)]
      BY <2>2, TagsDiffer DEF Turning
    <3>2. /\ clause[c] # Free /\ Turned(c) \in Clauses /\ Turned(c).learnt = clause[c].learnt
          /\ Turned(c).first = First(w) /\ Turned(c).second = - trail[qhead]
          /\ Turned(c).rest = clause[c].rest
          /\ \/ Turned(c) = clause[c]
             \/ clause[c].first = - trail[qhead] /\ clause[c].second = First(w)
      BY <2>2, ClauseAtHand
    <3>3. Turned(c) # Free
      BY <3>2, LitFacts DEF Clauses, Free
    <3>4. assigns[var(- trail[qhead])] = - (- trail[qhead])
      BY <1>2, LitFacts DEF IsTrue
    <3>5. \A d \in Address : Turning(w)[d] = IF d = c THEN Turned(c) ELSE clause[d]
      BY <1>1, <3>1
    <3>6. SwapTo(assigns, clause, Turning(w))
      BY <3>2, <3>3, <3>4, <3>5 DEF SwapTo
    <3>7. QED
      BY <1>1, <3>1, <3>2, <3>6
  <2>3. QED
    BY <1>2, <2>1, <2>2, WatchIs
<1>4. Typed(assigns, level, reason, trail, trail_lim, Turning(w), watches, Cleared, problem)
  BY <1>0, <1>3 DEF Typed
<1>5. /\ Sound(assigns, level, reason, trail, trail_lim, Turning(w), watches, Cleared, problem)
      /\ AllOld(clause, watches, Turning(w), watches)
  BY <1>0, <1>3, <1>4, SoundSwap
<1>6. SameOthers(watches, clause, Turning(w))
  BY <1>0, <1>1, <1>3, SwapWatch
<1>7. WatchOK(assigns, level, trail, watches, Turning(w), qhead, todo, Upto)
  <2>1. trail \in Seq(Lit) /\ WatchOK(assigns, level, trail, watches, clause, qhead, todo, Upto)
    BY <1>0 DEF Typed, IInv
  <2>2. QED
    BY <1>0, <1>1, <1>3, <2>1, SwapWatches
<1>8. ok => CoveredOK(assigns, level, Turning(w), watches, problem)
  BY <1>1, <1>3, SwapCovered DEF IInv
<1>9. First(w) = OtherWatch(w, trail[qhead], Turning(w))
  BY <1>2, <1>6, AtHand DEF SameOthers
<1>10. QED
  BY <1>3, <1>4, <1>5, <1>6, <1>7, <1>8, <1>9

(* The watch is on a literal that is true: it stays.                       *)
LEMMA KeepStep ==
  ASSUME IInv, NEW w \in todo, at = "propagate", Visit(w), KeepWatch(w)
  PROVE  IInv'
<1>0. /\ at' = at /\ todo' = todo \ {w} /\ clause' = Turning(w) /\ IsTrue(First(w))
      /\ UNCHANGED <<input, problem, nVars, ok, watches, simpDB_assigns, assigns, level,
                     reason, trail, trail_lim, qhead, order, seen, look, index, out_learnt,
                     asserting, model, upkeep>>
  BY DEF Visit, KeepWatch, Turn, Turning, given, assignment, analysis
<1>1. /\ Typed(assigns, level, reason, trail, trail_lim, Turning(w), watches, Cleared, problem)
      /\ Sound(assigns, level, reason, trail, trail_lim, Turning(w), watches, Cleared, problem)
      /\ AllOld(clause, watches, Turning(w), watches)
      /\ WatchOK(assigns, level, trail, watches, Turning(w), qhead, todo, Upto)
      /\ ok => CoveredOK(assigns, level, Turning(w), watches, problem)
      /\ First(w) = OtherWatch(w, trail[qhead], Turning(w))
  BY TurningIs
<1>2. TypeOK'
  BY <1>0, <1>1 DEF IInv, TypeOK, Typed
<1>3. Sound(assigns', level', reason', trail', trail_lim', clause', watches', Cleared', problem')
  BY <1>0, <1>1 DEF Cleared
<1>4. /\ QueueOK(level', trail', trail_lim', qhead', todo')
      /\ TodoOK(watches', trail', qhead', todo')
      /\ HeapOK(assigns', nVars', order')
      /\ ok' => CoveredOK(assigns', level', clause', watches', problem')
  BY <1>0, <1>1 DEF IInv, QueueOK, TodoOK
<1>5. WatchOK(assigns', level', trail', watches', clause', qhead', todo', Upto')
  <2>1. Upto' = Upto
    BY <1>0 DEF Upto, decisionLevel
  <2>2. assigns[var(First(w))] = First(w) /\ level[var(First(w))] <= level[var(trail[qhead])]
    <3>1. /\ First(w) \in Lit /\ level[var(trail[qhead])] = Len(trail_lim)
          /\ trail \in Seq(Lit) /\ TrailOK(assigns, trail) /\ LevelsOK(level, trail, trail_lim)
      BY AtHand, Between DEF Typed
    <3>2. assigns[var(First(w))] = First(w)
      BY <1>0 DEF IsTrue
    <3>3. var(First(w)) \in Var /\ First(w) # l_Undef
      BY <3>1, LitFacts DEF l_Undef
    <3>4. level[var(First(w))] \in 0 .. Len(trail_lim)
      BY <3>1, <3>2, <3>3, LevelRange
    <3>5. QED
      BY <3>1, <3>2, <3>4
  <2>3. WatchOK(assigns, level, trail, watches, Turning(w), qhead, todo \ {w}, Upto)
    BY <1>1, <2>2, WatchVisited
  <2>4. QED
    BY <1>0, <2>1, <2>3
<1>6. AnalysisOK'
  BY <1>0, NotAnalyzing, NoAnalysis
<1>7. PhaseOK'
  BY <1>0 DEF PhaseOK, IInv
<1>8. PositiveOK'
  <2>1. PositiveClauses(problem, clause, watches) => PositiveClauses(problem, clause', watches')
    BY <1>0, <1>1, KnownOld
  <2>2. QED
    BY <1>0, <2>1, PositiveSame
<1>9. QED
  BY <1>2, <1>3, <1>4, <1>5, <1>6, <1>7, <1>8 DEF IInv

(* The clause watches another literal.                                     *)
LEMMA NewStep ==
  ASSUME IInv, NEW w \in todo, at = "propagate", Visit(w), NewWatch(w)
  PROVE  IInv'
<1>0. /\ at' = at /\ todo' = todo \ {w} /\ ~ IsTrue(First(w))
      /\ UNCHANGED <<input, problem, nVars, ok, simpDB_assigns, assigns, level,
                     reason, trail, trail_lim, qhead, order, seen, look, index, out_learnt,
                     asserting, model, upkeep>>
  BY DEF Visit, NewWatch, given, assignment, analysis
<1>1. PICK q \in Rest(w) :
        /\ ~ IsFalse(q)
        /\ clause' = [clause EXCEPT ![w[2]] = [Turned(w[2]) EXCEPT
                        !.second = q, !.rest = (@ \ {q}) \cup {- trail[qhead]}]]
        /\ watches' = [watches EXCEPT ![- (- trail[qhead])] = @ \ {w}, ![- q] = @ \cup {w}]
  BY DEF NewWatch
<1>2. PICK c \in Address : w = Pointer(c) /\ w[1] = "clause" /\ w[2] = c
  <2>1. w[1] # "lit"
    BY <1>1 DEF Rest
  <2>2. QED
    BY <2>1, AtHand, WatchIs
<1>3. /\ qhead \in 1 .. Len(trail) /\ trail[qhead] \in Lit /\ IsTrue(trail[qhead])
      /\ w \in watches[trail[qhead]] /\ w \in GClauses \ {NULL} /\ First(w) \in Lit
  BY AtHand
<1>4. /\ clause[c] # Free /\ clause[c].rest \subseteq Lit /\ Turned(c) \in Clauses
      /\ Turned(c).first = First(w) /\ Turned(c).second = - trail[qhead]
      /\ Turned(c).rest = clause[c].rest /\ Rest(w) = clause[c].rest
      /\ First(w) # - trail[qhead] /\ First(w) \notin clause[c].rest
      /\ - trail[qhead] \notin clause[c].rest
  BY <1>2, ClauseAtHand
<1>5. /\ Typed(assigns, level, reason, trail, trail_lim, Turning(w), watches, Cleared, problem)
      /\ Sound(assigns, level, reason, trail, trail_lim, Turning(w), watches, Cleared, problem)
      /\ AllOld(clause, watches, Turning(w), watches)
      /\ WatchOK(assigns, level, trail, watches, Turning(w), qhead, todo, Upto)
      /\ ok => CoveredOK(assigns, level, Turning(w), watches, problem)
  BY TurningIs
<1>6. /\ clause \in [Address -> Clauses \cup {Free}] /\ watches \in [Lit -> SUBSET (GClauses \ {NULL})]
      /\ trail \in Seq(Lit) /\ TrailOK(assigns, trail)
      /\ Turning(w) \in [Address -> Clauses \cup {Free}] /\ problem \in SUBSET SUBSET Lit
  BY <1>5, Between DEF Typed
<1>7. Turning(w)[c] = Turned(c) /\ \A d \in Address : d # c => Turning(w)[d] = clause[d]
  BY <1>2, <1>6 DEF Turning
<1>8. /\ q \in Lit /\ - q \in Lit /\ - trail[qhead] \in Lit /\ - (- trail[qhead]) = trail[qhead]
      /\ - q # trail[qhead]
  <2>1. q \in Lit /\ q # - trail[qhead]
    BY <1>1, <1>4
  <2>2. QED
    BY <1>3, <2>1, LitFacts
<1> DEFINE k == [Turned(c) EXCEPT !.second = q, !.rest = (@ \ {q}) \cup {- trail[qhead]}]
<1>9. /\ k \in Clauses /\ k.learnt = Turned(c).learnt /\ k.first = First(w) /\ k.second = q
      /\ k.rest = (clause[c].rest \ {q}) \cup {- trail[qhead]}
  BY <1>4, <1>8 DEF Clauses
<1>10. k # Free
  BY <1>9, LitFacts DEF Clauses, Free
<1>11. clause' = [clause EXCEPT ![c] = k]
  BY <1>1, <1>2
<1> HIDE DEF k
<1>12. clause' \in [Address -> Clauses \cup {Free}]
  BY <1>6, <1>9, <1>11
<1>13. watches' = [watches EXCEPT ![trail[qhead]] = @ \ {w}, ![- q] = @ \cup {w}]
  BY <1>1, <1>8
<1>14. watches' \in [Lit -> SUBSET (GClauses \ {NULL})]
  BY <1>3, <1>6, <1>8, <1>13
<1>15. MoveTo(assigns, Turning(w), watches, clause', watches', c, q)
  <2>1. /\ Turning(w)[c] # Free /\ q \in Turning(w)[c].rest
        /\ assigns[var(Turning(w)[c].first)] # Turning(w)[c].first
    BY <1>0, <1>1, <1>3, <1>4, <1>7, LitFacts DEF IsTrue, Clauses, Free
  <2>2. /\ assigns[var(q)] # - q
        /\ assigns[var(Turning(w)[c].second)] = - Turning(w)[c].second
    BY <1>1, <1>3, <1>4, <1>7, <1>8, LitFacts DEF IsTrue, IsFalse
  <2>3. \A d \in Address : clause'[d] = IF d = c THEN k ELSE Turning(w)[d]
    BY <1>6, <1>7, <1>11
  <2>4. \A p \in Lit : watches'[p] = IF p = - Turning(w)[c].second THEN watches[p] \ {Pointer(c)}
                                     ELSE IF p = - q THEN watches[p] \cup {Pointer(c)} ELSE watches[p]
    BY <1>2, <1>3, <1>4, <1>6, <1>7, <1>8, <1>13
  <2>5. /\ clause'[c] # Free /\ clause'[c].learnt = Turning(w)[c].learnt
        /\ clause'[c].first = Turning(w)[c].first /\ clause'[c].second = q
        /\ clause'[c].rest = (Turning(w)[c].rest \ {q}) \cup {Turning(w)[c].second}
    BY <1>4, <1>7, <1>9, <1>10, <2>3
  <2>6. QED
    BY <2>1, <2>2, <2>3, <2>4, <2>5 DEF MoveTo
<1>16. TypeOK'
  BY <1>0, <1>12, <1>14 DEF IInv, TypeOK
<1>17. Typed(assigns, level, reason, trail, trail_lim, clause', watches', Cleared, problem)
  BY <1>5, <1>12, <1>14 DEF Typed
<1>18. Sound(assigns, level, reason, trail, trail_lim, clause', watches', Cleared, problem)
  BY <1>5, <1>15, <1>17, SoundMove
<1>19. Sound(assigns', level', reason', trail', trail_lim', clause', watches', Cleared', problem')
  BY <1>0, <1>18 DEF Cleared
<1>20. StillThere(Turning(w), watches, clause', watches') /\ AllOld(Turning(w), watches, clause', watches')
  BY <1>15, MoveLits
<1>21. ok' => CoveredOK(assigns', level', clause', watches', problem')
  BY <1>0, <1>5, <1>6, <1>20, CoveredKept
<1>22. QueueOK(level', trail', trail_lim', qhead', todo') /\ HeapOK(assigns', nVars', order')
  BY <1>0 DEF IInv, QueueOK
<1>23. TodoOK(watches', trail', qhead', todo')
  <2>1. watches'[trail[qhead]] = watches[trail[qhead]] \ {w}
    BY <1>3, <1>6, <1>8, <1>13
  <2>2. QED
    BY <1>0, <2>1 DEF IInv, TodoOK
<1>24. WatchOK(assigns', level', trail', watches', clause', qhead', todo', Upto')
  <2>1. Upto' = Upto
    BY <1>0 DEF Upto, decisionLevel
  <2>2. ClausesOK(Turning(w)) /\ PointersOK(watches, Turning(w))
    BY <1>5, SoundIs
  <2>3. Turning(w)[c].second = - trail[qhead]
    BY <1>4, <1>7
  <2>4. WatchOK(assigns, level, trail, watches', clause', qhead, todo \ {Pointer(c)}, Upto)
    BY <1>3, <1>5, <1>6, <1>15, <2>2, <2>3, MoveWatches
  <2>5. QED
    BY <1>0, <1>2, <2>1, <2>4
<1>25. AnalysisOK'
  BY <1>0, NotAnalyzing, NoAnalysis
<1>26. PhaseOK'
  BY <1>0 DEF PhaseOK, IInv
<1>27. PositiveOK'
  <2>1. PositiveClauses(problem, clause, watches) => PositiveClauses(problem, clause', watches')
    BY <1>5, <1>20, KnownOld
  <2>2. QED
    BY <1>0, <2>1, PositiveSame
<1>28. QED
  BY <1>16, <1>19, <1>21, <1>22, <1>23, <1>24, <1>25, <1>26, <1>27 DEF IInv

(* The clause of a watch follows, and only First(w) may not be false.      *)
LEMMA WatchedClause ==
  ASSUME IInv, NEW w \in todo, UnitUnder(w)
  PROVE  /\ {First(w), - trail[qhead]} \cup Rest(w) \subseteq Lit
         /\ ImpliedBy(problem, {First(w), - trail[qhead]} \cup Rest(w))
         /\ PositiveClauses(problem, clause, watches)
              => {First(w), - trail[qhead]} \cup Rest(w) \in problem
         /\ \A q \in {- trail[qhead]} \cup Rest(w) : IsFalse(q)
         /\ First(w) \notin {- trail[qhead]} \cup Rest(w)
<1>1. /\ trail[qhead] \in Lit /\ IsTrue(trail[qhead]) /\ First(w) \in Lit
      /\ w \in watches[trail[qhead]] /\ w \in GClauses \ {NULL}
  BY AtHand
<1>2. IsFalse(- trail[qhead]) /\ - trail[qhead] \in Lit
  BY <1>1, LitFacts DEF IsTrue, IsFalse
<1>3. \A q \in {- trail[qhead]} \cup Rest(w) : IsFalse(q)
  BY <1>2 DEF UnitUnder
<1>4. KnownClausesOK(problem, clause, watches) /\ BinaryOK(watches)
  BY DEF IInv, Sound
<1>5. CASE w[1] = "lit" /\ w[2] \in Lit /\ w = Literal(w[2])
  <2>1. First(w) = w[2] /\ Rest(w) = {}
    BY <1>5 DEF First, Rest
  <2>2. ImpliedBy(problem, {- trail[qhead], w[2]}) /\ w[2] # - trail[qhead]
    BY <1>1, <1>4, <1>5 DEF KnownClausesOK, BinaryOK
  <2>3. {First(w), - trail[qhead]} \cup Rest(w) = {- trail[qhead], w[2]}
    BY <2>1
  <2>4. PositiveClauses(problem, clause, watches) => {- trail[qhead], w[2]} \in problem
    BY <1>1, <1>5 DEF PositiveClauses
  <2>5. QED
    BY <1>2, <1>3, <1>5, <2>1, <2>2, <2>3, <2>4
<1>6. ASSUME NEW c \in Address, w = Pointer(c)
      PROVE  /\ {First(w), - trail[qhead]} \cup Rest(w) \subseteq Lit
             /\ ImpliedBy(problem, {First(w), - trail[qhead]} \cup Rest(w))
             /\ PositiveClauses(problem, clause, watches)
                  => {First(w), - trail[qhead]} \cup Rest(w) \in problem
             /\ First(w) \notin {- trail[qhead]} \cup Rest(w)
  <2>1. /\ clause[c] # Free /\ clause[c].rest \subseteq Lit /\ Rest(w) = clause[c].rest
        /\ First(w) # - trail[qhead] /\ First(w) \notin clause[c].rest
        /\ {First(w), - trail[qhead]} = {clause[c].first, clause[c].second}
    BY <1>6, ClauseAtHand
  <2>2. {First(w), - trail[qhead]} \cup Rest(w) = {clause[c].first, clause[c].second} \cup clause[c].rest
    BY <2>1
  <2>3. ImpliedBy(problem, {clause[c].first, clause[c].second} \cup clause[c].rest)
    BY <1>4, <2>1 DEF KnownClausesOK
  <2>4. PositiveClauses(problem, clause, watches)
          => {clause[c].first, clause[c].second} \cup clause[c].rest \in problem
    BY <2>1 DEF PositiveClauses
  <2>5. QED
    BY <1>1, <1>2, <2>1, <2>2, <2>3, <2>4
<1>7. QED
  BY <1>1, <1>3, <1>5, <1>6, WatchIs

(* At the root the literals that are false are refuted.                    *)
LEMMA RootRefuted ==
  ASSUME IInv, Len(trail_lim) = 0, NEW q \in Lit, IsFalse(q)
  PROVE  ImpliedBy(problem, {- q})
<1>1. /\ trail \in Seq(Lit) /\ TrailOK(assigns, trail) /\ LevelsOK(level, trail, trail_lim)
      /\ KnownFactsOK(problem, level, reason, trail)
  BY Between DEF IInv, Sound, Typed
<1>2. - q \in Lit /\ var(- q) = var(q) /\ var(q) \in Var /\ - q # l_Undef
  BY LitFacts DEF l_Undef
<1>3. assigns[var(- q)] = - q
  BY <1>2 DEF IsFalse
<1>4. level[var(- q)] \in 0 .. Len(trail_lim)
  BY <1>1, <1>2, <1>3, LevelRange
<1>5. level[var(- q)] = 0
  BY <1>4
<1>6. QED
  BY <1>1, <1>2, <1>3, <1>5, RootImplied

LEMMA EnqueueIs ==
  ASSUME IInv, NEW p \in Lit, IsUndef(p), NEW from \in GClauses,
         enqueue(p, from), UNCHANGED simpDB_assigns
  PROVE  /\ Pushed(assigns, level, reason, trail, assigns', level', reason', trail', p, Len(trail_lim), from)
         /\ TrailOK(assigns', trail')
         /\ assigns' \in [Var -> Lit \cup {l_Undef}] /\ level' \in [Var -> Nat \cup {-1}]
         /\ reason' \in [Var -> GClauses] /\ trail' \in Seq(Lit) /\ Len(trail') = Len(trail) + 1
         /\ Cleared' = Cleared
         /\ \A x \in Var : assigns'[x] = l_Undef => assigns[x] = l_Undef
<1>1. /\ assigns' = [assigns EXCEPT ![var(p)] = p]
      /\ level' = [level EXCEPT ![var(p)] = Len(trail_lim)]
      /\ reason' = [reason EXCEPT ![var(p)] = from]
      /\ trail' = Append(trail, p)
  BY DEF enqueue, decisionLevel
<1>2. /\ assigns \in [Var -> Lit \cup {l_Undef}] /\ level \in [Var -> Nat \cup {-1}]
      /\ reason \in [Var -> GClauses] /\ trail \in Seq(Lit) /\ TrailOK(assigns, trail)
      /\ Len(trail_lim) \in Nat /\ Len(trail) \in Nat
  BY Between DEF Typed
<1>3. assigns[var(p)] = l_Undef /\ var(p) \in Var
  BY LitFacts DEF IsUndef
<1>4. Pushed(assigns, level, reason, trail, assigns', level', reason', trail', p, Len(trail_lim), from)
  BY <1>1, <1>2, <1>3, PushIs
<1>5. TrailOK(assigns', trail')
  BY <1>1, <1>2, <1>3, TrailPush
<1>6. trail' \in Seq(Lit) /\ Len(trail') = Len(trail) + 1 /\ \A i \in 1 .. Len(trail) : trail'[i] = trail[i]
  BY <1>1, <1>2, Appended
<1>7. Cleared' = Cleared
  <2>1. simpDB_assigns \in Nat /\ simpDB_assigns <= Len(trail)
    BY DEF IInv, PhaseOK, TypeOK
  <2>2. 1 .. simpDB_assigns \subseteq 1 .. Len(trail)
    BY <1>2, <2>1
  <2>3. \A i \in 1 .. simpDB_assigns : trail'[i] = trail[i]
    BY <1>6, <2>2
  <2>4. QED
    BY <2>3 DEF Cleared
<1>8. /\ assigns' \in [Var -> Lit \cup {l_Undef}] /\ level' \in [Var -> Nat \cup {-1}]
      /\ reason' \in [Var -> GClauses]
  BY <1>1, <1>2
<1>9. \A x \in Var : assigns'[x] = l_Undef => assigns[x] = l_Undef
  BY <1>1, <1>2, LitFacts DEF l_Undef
<1>10. QED
  BY <1>4, <1>5, <1>6, <1>7, <1>8, <1>9

LEMMA PositivePush ==
  ASSUME NEW pb, NEW as, NEW lv, NEW rs, NEW tr, PositiveFacts(pb, lv, rs, tr),
         NEW bs, NEW mv, NEW qs, NEW br, NEW p, NEW l, NEW r,
         Pushed(as, lv, rs, tr, bs, mv, qs, br, p, l, r),
         p < 0 => l > 0 /\ r = NULL,
         ~ (p < 0) /\ r = NULL => {p} \in pb,
         ~ (p < 0) /\ r[1] = "lit" => {p, - r[2]} \in pb
  PROVE  PositiveFacts(pb, mv, qs, br)
<1>1. /\ Len(tr) \in Nat /\ Len(br) = Len(tr) + 1 /\ br[Len(tr) + 1] = p
      /\ mv[var(p)] = l /\ qs[var(p)] = r
  BY DEF Pushed
<1>2. \A i \in 1 .. Len(tr) : br[i] = tr[i] /\ mv[var(tr[i])] = lv[var(tr[i])] /\ qs[var(tr[i])] = rs[var(tr[i])]
  BY DEF Pushed
<1>3. \A i \in 1 .. Len(br) : i \in 1 .. Len(tr) \/ i = Len(tr) + 1
  BY <1>1
<1>4. SUFFICES ASSUME NEW i \in 1 .. Len(br)
               PROVE  IF br[i] < 0 THEN mv[var(br[i])] > 0 /\ qs[var(br[i])] = NULL
                      ELSE /\ qs[var(br[i])] = NULL => {br[i]} \in pb
                           /\ qs[var(br[i])][1] = "lit" => {br[i], - qs[var(br[i])][2]} \in pb
  BY DEF PositiveFacts
<1>5. CASE i = Len(tr) + 1
  BY <1>1, <1>5
<1>6. CASE i \in 1 .. Len(tr)
  BY <1>2, <1>6 DEF PositiveFacts
<1>7. QED
  BY <1>3, <1>5, <1>6

(* All the others are false: the literal is implied.                       *)
LEMMA ImplyStep ==
  ASSUME IInv, NEW w \in todo, at = "propagate", Visit(w), Imply(w)
  PROVE  IInv'
<1> DEFINE p == First(w)
           from == IF w[1] = "lit" THEN Literal(trail[qhead]) ELSE w
<1>0. /\ at' = at /\ todo' = todo \ {w} /\ clause' = Turning(w) /\ IsUndef(p) /\ UnitUnder(w)
      /\ enqueue(p, from)
      /\ UNCHANGED <<input, problem, nVars, ok, watches, simpDB_assigns, trail_lim, qhead, order,
                     seen, look, index, out_learnt, asserting, model, upkeep>>
  BY DEF Visit, Imply, Turn, Turning, enqueue, given, analysis
<1>1. /\ qhead \in 1 .. Len(trail) /\ trail[qhead] \in Lit /\ IsTrue(trail[qhead])
      /\ level[var(trail[qhead])] = Len(trail_lim)
      /\ w \in watches[trail[qhead]] /\ w \in GClauses \ {NULL} /\ p \in Lit
      /\ var(trail[qhead]) \in Var /\ assigns[var(trail[qhead])] # l_Undef
  BY AtHand, LitFacts DEF decisionLevel, IsTrue, l_Undef
<1>2. /\ Typed(assigns, level, reason, trail, trail_lim, Turning(w), watches, Cleared, problem)
      /\ Sound(assigns, level, reason, trail, trail_lim, Turning(w), watches, Cleared, problem)
      /\ AllOld(clause, watches, Turning(w), watches)
      /\ WatchOK(assigns, level, trail, watches, Turning(w), qhead, todo, Upto)
      /\ ok => CoveredOK(assigns, level, Turning(w), watches, problem)
      /\ p = OtherWatch(w, trail[qhead], Turning(w))
  BY TurningIs
<1>3. /\ trail_lim \in Seq(Nat) /\ Turning(w) \in [Address -> Clauses \cup {Free}]
      /\ watches \in [Lit -> SUBSET (GClauses \ {NULL})] /\ Cleared \subseteq Lit
      /\ problem \in SUBSET SUBSET Lit /\ trail \in Seq(Lit)
      /\ Len(trail) \in Nat /\ Len(trail_lim) \in Nat
  BY <1>2, Between DEF Typed
<1>4. from \in GClauses /\ from # NULL
  BY <1>1, TagsDiffer DEF GClauses
<1>5. from[1] = "lit" => w[1] = "lit" /\ from = Literal(trail[qhead]) /\ from[2] = trail[qhead]
  BY <1>1, TagsDiffer
<1>6. /\ {p, - trail[qhead]} \cup Rest(w) \subseteq Lit
      /\ ImpliedBy(problem, {p, - trail[qhead]} \cup Rest(w))
      /\ PositiveClauses(problem, clause, watches) => {p, - trail[qhead]} \cup Rest(w) \in problem
      /\ \A q \in {- trail[qhead]} \cup Rest(w) : IsFalse(q)
  BY <1>0, WatchedClause
<1>7. w[1] = "lit" => Rest(w) = {}
  BY DEF Rest
<1>8. Unit(assigns, level, Turning(w), from, p, Len(trail_lim))
  <2>1. CASE w[1] = "lit"
    <3>1. from = Literal(trail[qhead]) /\ from[1] = "lit" /\ from[2] = trail[qhead]
      BY <2>1, TagsDiffer
    <3>2. OthersIn(from, Turning(w)) = {trail[qhead]}
      BY <3>1 DEF OthersIn
    <3>3. QED
      BY <1>1, <3>1, <3>2 DEF Unit, IsTrue
  <2>2. ASSUME NEW c \in Address, w = Pointer(c)
        PROVE  Unit(assigns, level, Turning(w), from, p, Len(trail_lim))
    <3>1. w[1] = "clause" /\ w[2] = c /\ from = w
      BY <2>2, TagsDiffer
    <3>2. /\ Turned(c).first = p /\ Turned(c).second = - trail[qhead]
          /\ Turned(c).rest = Rest(w) /\ Turned(c) \in Clauses
      BY <2>2, ClauseAtHand
    <3>3. Turning(w)[c] = Turned(c)
      BY <3>1, <1>3, Between DEF Turning, Typed
    <3>4. Turned(c) # Free
      BY <3>2, <1>1, LitFacts DEF Free
    <3>5. OthersIn(from, Turning(w)) = {- trail[qhead]} \cup Rest(w)
      BY <3>1, <3>2, <3>3 DEF OthersIn
    <3>6. \A q \in {- trail[qhead]} \cup Rest(w) :
            assigns[var(q)] = - q /\ var(q) \in Var /\ assigns[var(q)] # l_Undef
      <4>1. \A q \in {- trail[qhead]} \cup Rest(w) : q \in Lit /\ IsFalse(q)
        BY <1>6
      <4>2. QED
        BY <4>1, LitFacts DEF IsFalse, l_Undef
    <3>7. level[var(- trail[qhead])] = Len(trail_lim)
      BY <1>1, LitFacts
    <3>8. QED
      BY <3>1, <3>2, <3>3, <3>4, <3>5, <3>6, <3>7 DEF Unit
  <2>3. QED
    BY <1>1, <2>1, <2>2, WatchIs
<1>9. Len(trail_lim) = 0 => ImpliedBy(problem, {p})
  <2>1. SUFFICES ASSUME Len(trail_lim) = 0 PROVE ImpliedBy(problem, {p})
    OBVIOUS
  <2>2. \A q \in ({p, - trail[qhead]} \cup Rest(w)) \ {p} : ImpliedBy(problem, {- q})
    BY <1>6, <2>1, RootRefuted
  <2>3. QED
    BY <1>6, <2>2, Resolved
<1>10. from[1] = "lit" => ImpliedBy(problem, {p, - from[2]})
  <2>1. SUFFICES ASSUME from[1] = "lit" PROVE ImpliedBy(problem, {p, - from[2]})
    OBVIOUS
  <2>2. {p, - trail[qhead]} \cup Rest(w) = {p, - from[2]}
    BY <1>5, <1>7, <2>1
  <2>3. QED
    BY <1>6, <2>2
<1> HIDE DEF p, from
<1>11. /\ Pushed(assigns, level, reason, trail, assigns', level', reason', trail', p, Len(trail_lim), from)
       /\ TrailOK(assigns', trail')
       /\ assigns' \in [Var -> Lit \cup {l_Undef}] /\ level' \in [Var -> Nat \cup {-1}]
       /\ reason' \in [Var -> GClauses] /\ trail' \in Seq(Lit) /\ Len(trail') = Len(trail) + 1
       /\ Cleared' = Cleared
       /\ \A x \in Var : assigns'[x] = l_Undef => assigns[x] = l_Undef
  BY <1>0, <1>1, <1>4, EnqueueIs
<1>12. TypeOK'
  <2>1. qhead' \in 0 .. Len(trail') /\ index' \in 0 .. Len(trail')
    BY <1>0, <1>3, <1>11 DEF IInv, TypeOK
  <2>2. QED
    BY <1>0, <1>3, <1>11, <2>1 DEF IInv, TypeOK
<1>13. Typed(assigns', level', reason', trail', trail_lim, Turning(w), watches, Cleared, problem)
  BY <1>3, <1>11 DEF Typed
<1>14. Sound(assigns', level', reason', trail', trail_lim, Turning(w), watches, Cleared, problem)
  <2>1. from = NULL => Len(trail_lim) = 0
    BY <1>4
  <2>2. from # NULL => Unit(assigns, level, Turning(w), from, p, Len(trail_lim))
    BY <1>8
  <2>3. /\ Sound(assigns, level, reason, trail, trail_lim, Turning(w), watches, Cleared, problem)
        /\ Pushed(assigns, level, reason, trail, assigns', level', reason', trail', p, Len(trail_lim), from)
        /\ TrailOK(assigns', trail')
    BY <1>2, <1>11
  <2>4. QED
    BY <1>9, <1>10, <1>13, <2>1, <2>2, <2>3, SoundPush, Zenon
<1>15. Sound(assigns', level', reason', trail', trail_lim', clause', watches', Cleared', problem')
  BY <1>0, <1>11, <1>14
<1>16. QueueOK(level', trail', trail_lim', qhead', todo')
  <2>1. QueueOK(level', trail', trail_lim, qhead, todo)
    BY <1>11, QueuePush DEF IInv
  <2>2. QED
    BY <1>0, <2>1 DEF QueueOK
<1>17. HeapOK(assigns', nVars', order')
  <2>1. nVars \in 0 .. NVars
    BY DEF IInv, TypeOK
  <2>2. 1 .. nVars \subseteq Var
    BY <2>1, SolverAssumption DEF Var
  <2>3. QED
    BY <1>0, <1>11, <2>2 DEF HeapOK, IInv
<1>18. trail'[qhead] = trail[qhead] /\ var(trail[qhead]) # var(p)
  BY <1>1, <1>11 DEF Pushed
<1>19. TodoOK(watches', trail', qhead', todo')
  BY <1>0, <1>18 DEF TodoOK, IInv
<1>20. WatchOK(assigns', level', trail', watches', clause', qhead', todo', Upto')
  <2>1. Upto' = Upto
    BY <1>0 DEF Upto, decisionLevel
  <2>2. PointersOK(watches, Turning(w))
    BY <1>2, SoundIs
  <2>3. WatchOK(assigns', level', trail', watches, Turning(w), qhead, todo, Upto)
    BY <1>1, <1>2, <1>3, <1>11, <2>2, WatchPush
  <2>4. p = OtherWatch(w, trail'[qhead], Turning(w))
    BY <1>2, <1>18
  <2>5. assigns'[var(p)] = p /\ level'[var(p)] <= level'[var(trail'[qhead])]
    BY <1>1, <1>3, <1>11, <1>18 DEF Pushed
  <2>6. WatchOK(assigns', level', trail', watches, Turning(w), qhead, todo \ {w}, Upto)
    BY <2>3, <2>4, <2>5, WatchVisited
  <2>7. QED
    BY <1>0, <2>1, <2>6
<1>21. ok' => CoveredOK(assigns', level', clause', watches', problem')
  <2>1. RootsKept(assigns, level, reason, assigns', level', reason')
    BY <1>11, PushKeepsRoots
  <2>2. QED
    BY <1>0, <1>2, <1>3, <2>1, CoveredAssign
<1>22. AnalysisOK'
  BY <1>0, NotAnalyzing, NoAnalysis
<1>23. PhaseOK'
  BY <1>0, <1>3, <1>11 DEF PhaseOK, IInv, TypeOK
<1>24. PositiveOK'
  <2>1. PositiveClauses(problem, clause, watches) => PositiveClauses(problem, clause', watches')
    BY <1>0, <1>2, KnownOld
  <2>2. SUFFICES ASSUME IsPositive', PositiveOK PROVE PositiveOK'
    BY DEF PositiveOK, IInv
  <2>3. IsPositive /\ PositiveClauses(problem, clause, watches) /\ PositiveFacts(problem, level, reason, trail)
    BY <1>0, <2>2 DEF IsPositive, PositiveOK
  <2>4. {p, - trail[qhead]} \cup Rest(w) \in problem
    BY <1>6, <2>3 DEF p
  <2>5. ~ (p < 0)
    <3>1. p \in Var
      BY <2>3, <2>4 DEF IsPositive
    <3>2. QED
      BY <3>1, VarFacts
  <2>6. from[1] = "lit" => {p, - from[2]} \in problem
    <3>1. SUFFICES ASSUME from[1] = "lit" PROVE {p, - from[2]} \in problem
      OBVIOUS
    <3>2. from[2] = trail[qhead] /\ Rest(w) = {}
      BY <1>5, <1>7, <3>1
    <3>3. {p, - trail[qhead]} \cup Rest(w) = {p, - from[2]}
      BY <3>2
    <3>4. QED
      BY <2>4, <3>3
  <2>7. PositiveFacts(problem, level', reason', trail')
    BY <1>4, <1>11, <2>3, <2>5, <2>6, PositivePush
  <2>8. QED
    BY <1>0, <2>1, <2>2, <2>3, <2>7 DEF PositiveOK
<1>25. QED
  BY <1>12, <1>15, <1>16, <1>17, <1>19, <1>20, <1>21, <1>22, <1>23, <1>24 DEF IInv

-----------------------------------------------------------------------------
(* Conflicts. Without negation in the problem there is none: the watches   *)
(* would be two decisions, and the earlier one has seen to the clause.     *)

LEMMA NoConflict ==
  ASSUME IInv, NEW w \in todo, at = "propagate", UnitUnder(w), IsFalse(First(w)), IsPositive
  PROVE  FALSE
<1> DEFINE o == First(w)
           t == trail[qhead]
<1>1. /\ qhead \in 1 .. Len(trail) /\ t \in Lit /\ assigns[var(t)] = t
      /\ level[var(t)] = Len(trail_lim)
      /\ w \in watches[t] /\ w \in GClauses \ {NULL} /\ o \in Lit
  BY AtHand DEF decisionLevel, IsTrue
<1>2. /\ PositiveClauses(problem, clause, watches) /\ PositiveFacts(problem, level, reason, trail)
  BY DEF IInv, PositiveOK
<1>3. {o, - t} \cup Rest(w) \in problem /\ o # - t
  BY <1>2, WatchedClause
<1>4. o \in Var /\ - t \in Var
  BY <1>3 DEF IsPositive
<1>5. o > 0 /\ t < 0
  <2>1. o > 0 /\ - t > 0 /\ t \in Int
    BY <1>1, <1>4, VarFacts, LitFacts
  <2>2. QED
    BY <2>1
<1>6. /\ trail \in Seq(Lit) /\ TrailOK(assigns, trail) /\ Placed(assigns, trail)
      /\ LevelsOK(level, trail, trail_lim) /\ DecisionsOK(level, reason, trail, trail_lim)
      /\ QueueOK(level, trail, trail_lim, qhead, todo) /\ Len(trail_lim) \in Nat /\ Len(trail) \in Nat
  BY Between DEF IInv, Sound, Typed
<1>7. assigns[var(o)] = - o /\ - o \in Lit /\ - (- o) = o /\ - o # l_Undef /\ var(o) \in Var /\ - o < 0
      /\ - (- t) = t /\ - t \in Lit
  BY <1>1, <1>5, LitFacts DEF IsFalse, l_Undef
<1>8. PICK j \in 1 .. Len(trail) : trail[j] = - o /\ var(trail[j]) = var(o)
  BY <1>6, <1>7, LevelRange
<1>9. j # qhead
  <2>1. trail[j] # t
    BY <1>3, <1>7, <1>8
  <2>2. QED
    BY <2>1
<1>10. level[var(t)] > 0 /\ reason[var(t)] = NULL
  BY <1>1, <1>2, <1>5 DEF PositiveFacts
<1>11. level[var(trail[j])] > 0 /\ reason[var(trail[j])] = NULL
  BY <1>2, <1>7, <1>8 DEF PositiveFacts
<1>12. qhead = trail_lim[level[var(t)]] + 1
  BY <1>1, <1>6, <1>10 DEF DecisionsOK
<1>13. j = trail_lim[level[var(trail[j])]] + 1
  BY <1>6, <1>11 DEF DecisionsOK
<1>14. j < qhead
  <2>1. CASE j > qhead
    <3>1. level[var(trail[j])] = Len(trail_lim)
      BY <1>6, <2>1 DEF QueueOK
    <3>2. QED
      BY <1>1, <1>9, <1>12, <1>13, <3>1
  <2>2. QED
    BY <1>1, <1>6, <1>9, <2>1
<1>15. /\ WatchOK(assigns, level, trail, watches, clause, qhead, todo, Upto)
       /\ level[var(trail[j])] < Upto
  <2>1. Upto = Len(trail_lim) + 1
    BY DEF Upto, decisionLevel
  <2>2. level[var(trail[j])] \in 0 .. Len(trail_lim)
    BY <1>6 DEF LevelsOK
  <2>3. QED
    BY <1>6, <2>1, <2>2 DEF IInv
<1>16. ASSUME NEW v \in watches[- o], OtherWatch(v, - o, clause) = - t PROVE FALSE
  <2>1. v \in watches[trail[j]] /\ j <= qhead /\ ~ (j = qhead /\ v \in todo)
    BY <1>1, <1>6, <1>8, <1>14
  <2>2. assigns[var(OtherWatch(v, trail[j], clause))] = OtherWatch(v, trail[j], clause)
    BY <1>15, <2>1 DEF WatchOK
  <2>3. assigns[var(- t)] = - t
    BY <1>8, <1>16, <2>2
  <2>4. QED
    BY <1>1, <2>3, LitFacts
<1>17. CASE w[1] = "lit" /\ w[2] \in Lit /\ w = Literal(w[2])
  <2>1. o = w[2]
    BY <1>17 DEF First
  <2>2. BinaryOK(watches)
    BY DEF IInv, Sound
  <2>3. Literal(- t) \in watches[- o]
    BY <1>1, <1>17, <2>1, <2>2 DEF BinaryOK
  <2>4. OtherWatch(Literal(- t), - o, clause) = - t
    BY TagsDiffer DEF OtherWatch
  <2>5. QED
    BY <1>16, <2>3, <2>4
<1>18. ASSUME NEW c \in Address, w = Pointer(c) PROVE FALSE
  <2>1. clause[c] # Free /\ {o, - t} = {clause[c].first, clause[c].second}
    BY <1>18, ClauseAtHand
  <2>2. /\ SweptOK(assigns, level, reason, clause, watches, Cleared)
    BY DEF IInv, Sound
  <2>3. Held(watches, Cleared, c, clause[c].first) /\ Held(watches, Cleared, c, clause[c].second)
    BY <2>1, <2>2 DEF SweptOK
  <2>4. Held(watches, Cleared, c, o)
    BY <2>1, <2>3
  <2>5. o \notin Cleared
    <3>1. SUFFICES ASSUME o \in Cleared PROVE FALSE
      OBVIOUS
    <3>2. assigns[var(o)] = o
      BY <2>2, <3>1 DEF SweptOK
    <3>3. QED
      BY <1>1, <1>7, <3>2, LitFacts
  <2>6. - o \notin Cleared
    <3>1. SUFFICES ASSUME - o \in Cleared PROVE FALSE
      OBVIOUS
    <3>2. level[var(- o)] = 0
      BY <2>2, <3>1 DEF SweptOK
    <3>3. QED
      BY <1>8, <1>11, <3>2
  <2>7. Pointer(c) \in watches[- o]
    BY <2>4, <2>5, <2>6 DEF Held
  <2>8. OtherWatch(Pointer(c), - o, clause) = - t
    <3>1. OtherWatch(Pointer(c), - o, clause) = IF clause[c].first = o THEN clause[c].second ELSE clause[c].first
      BY <1>7, TagsDiffer DEF OtherWatch
    <3>2. QED
      BY <1>3, <2>1, <3>1
  <2>9. QED
    BY <1>16, <2>7, <2>8
<1>19. QED
  BY <1>1, <1>17, <1>18, WatchIs

LEMMA ConflictStep ==
  ASSUME IInv, NEW w, Conflict(w)
  PROVE  IInv'
<1>0. /\ w \in todo /\ at = "propagate" /\ IsFalse(First(w)) /\ UnitUnder(w)
      /\ todo' = {} /\ qhead' = Len(trail) /\ clause' = Turning(w)
      /\ UNCHANGED <<input, problem, nVars, watches, simpDB_assigns, assigns, level, reason,
                     trail, trail_lim, order, seen, out_learnt, asserting, model, upkeep>>
      /\ IF Len(trail_lim) = 0
         THEN ok' = FALSE /\ at' = "unsatisfiable" /\ UNCHANGED <<look, index>>
         ELSE /\ at' = "analyze" /\ look' = {First(w), - trail[qhead]} \cup Rest(w)
              /\ index' = Len(trail) /\ UNCHANGED ok
  BY DEF Conflict, Turn, Turning, given, analysis, decisionLevel
<1>1. /\ Typed(assigns, level, reason, trail, trail_lim, Turning(w), watches, Cleared, problem)
      /\ Sound(assigns, level, reason, trail, trail_lim, Turning(w), watches, Cleared, problem)
      /\ WatchOK(assigns, level, trail, watches, Turning(w), qhead, todo, Upto)
      /\ ok => CoveredOK(assigns, level, Turning(w), watches, problem)
  BY <1>0, TurningIs
<1>2. /\ LevelsOK(level, trail, trail_lim) /\ Len(trail) \in Nat /\ Len(trail_lim) \in Nat
      /\ QueueOK(level, trail, trail_lim, qhead, todo)
  BY Between DEF IInv
<1>3. /\ {First(w), - trail[qhead]} \cup Rest(w) \subseteq Lit
      /\ ImpliedBy(problem, {First(w), - trail[qhead]} \cup Rest(w))
      /\ \A q \in {First(w), - trail[qhead]} \cup Rest(w) : IsFalse(q)
  BY <1>0, WatchedClause
<1>4. TypeOK'
  <2>1. look' \subseteq Lit /\ index' \in 0 .. Len(trail')
    BY <1>0, <1>2, <1>3 DEF IInv, TypeOK
  <2>2. clause' \in [Address -> Clauses \cup {Free}]
    BY <1>0, <1>1 DEF Typed
  <2>3. qhead' \in 0 .. Len(trail')
    BY <1>0, <1>2
  <2>4. QED
    BY <1>0, <2>1, <2>2, <2>3 DEF IInv, TypeOK
<1>5. Sound(assigns', level', reason', trail', trail_lim', clause', watches', Cleared', problem')
  BY <1>0, <1>1 DEF Cleared
<1>6. QueueOK(level', trail', trail_lim', qhead', todo')
  <2>1. \A i \in 1 .. Len(trail) : ~ (i > Len(trail))
    BY <1>2
  <2>2. QED
    BY <1>0, <2>1 DEF QueueOK
<1>7. TodoOK(watches', trail', qhead', todo') /\ HeapOK(assigns', nVars', order')
  BY <1>0 DEF TodoOK, IInv
<1>8. ok' => CoveredOK(assigns', level', clause', watches', problem')
  BY <1>0, <1>1
<1>9. WatchOK(assigns', level', trail', watches', clause', qhead', todo', Upto')
  <2>1. Upto' = Len(trail_lim) /\ Upto = Len(trail_lim) + 1
    BY <1>0 DEF Upto, decisionLevel
  <2>2. ASSUME NEW i \in 1 .. Len(trail), level[var(trail[i])] < Len(trail_lim)
        PROVE  /\ level[var(trail[i])] < Upto /\ i <= qhead
               /\ \A v : ~ (i = qhead /\ v \in todo)
    <3>1. ~ (i > qhead \/ (i = qhead /\ todo # {}))
      BY <1>2, <2>2 DEF QueueOK
    <3>2. level[var(trail[i])] \in 0 .. Len(trail_lim) /\ qhead \in Nat
      BY <1>2 DEF LevelsOK, IInv, TypeOK
    <3>3. QED
      BY <1>2, <2>1, <2>2, <3>1, <3>2
  <2>3. QED
    BY <1>0, <1>1, <2>1, <2>2 DEF WatchOK
<1>10. seen = {} /\ out_learnt = {} /\ index = 0
  BY <1>0, NotAnalyzing
<1>11. AnalysisOK'
  <2>1. CASE Len(trail_lim) = 0
    BY <1>0, <1>10, <2>1, NoAnalysis
  <2>2. CASE Len(trail_lim) # 0
    <3> DEFINE S == {First(w), - trail[qhead]} \cup Rest(w)
    <3>1. at' = "analyze" /\ look' = S /\ index' = Len(trail) /\ decisionLevel' = Len(trail_lim)
      BY <1>0, <2>2 DEF decisionLevel
    <3>2. \A q \in S : q \in Lit /\ assigns[var(q)] = - q /\ - (- q) = q
      BY <1>3, LitFacts DEF IsFalse
    <3>3. level[var(- trail[qhead])] = Len(trail_lim)
      BY <1>0, AtHand, LitFacts DEF decisionLevel
    <3>4. - trail[qhead] \in S
      OBVIOUS
    <3> HIDE DEF S
    <3>5. Pending' = {var(q) : q \in S}
      BY <1>0, <1>10, <3>1 DEF Pending
    <3>6. {- assigns[x] : x \in {var(q) : q \in S}} = S
      BY <3>2
    <3>7. Negated(Pending)' = S
      BY <1>0, <3>5, <3>6 DEF Negated
    <3>8. Implied(Negated(Pending))'
      BY <1>0, <1>3, <3>7 DEF Implied, ImpliedBy, S
    <3>9. \A q \in look' : IsFalse(q)'
      BY <1>0, <1>3, <3>1 DEF IsFalse, S
    <3>10. \A i \in 1 .. Len(trail') : i <= index'
      BY <1>0, <1>2, <3>1
    <3>11. \E q \in look' : level'[var(q)] = decisionLevel'
      BY <1>0, <3>1, <3>3, <3>4
    <3>12. out_learnt' = {- assigns'[x] : x \in {x \in seen' : level'[x] < decisionLevel'}}
      BY <1>0, <1>10
    <3>13. seen' = {}
      BY <1>0, <1>10
    <3>14. QED
      BY <3>1, <3>8, <3>9, <3>10, <3>11, <3>12, <3>13 DEF AnalysisOK
  <2>3. QED
    BY <2>1, <2>2
<1>12. PhaseOK'
  <2>1. PhaseOK
    BY DEF IInv
  <2>2. ok' = FALSE => ImpliedBy(problem', {})
    <3>1. CASE Len(trail_lim) = 0
      <4>1. \A q \in ({First(w), - trail[qhead]} \cup Rest(w)) \ {} : ImpliedBy(problem, {- q})
        BY <1>3, <3>1, RootRefuted
      <4>2. ImpliedBy(problem, {})
        BY <1>3, <4>1, Resolved
      <4>3. QED
        BY <1>0, <4>2
    <3>2. CASE Len(trail_lim) # 0
      BY <1>0, <2>1, <3>2 DEF PhaseOK
    <3>3. QED
      BY <3>1, <3>2
  <2>3. trail_lim = <<>> => Len(trail_lim) = 0
    OBVIOUS
  <2>4. QED
    BY <1>0, <2>1, <2>2, <2>3 DEF PhaseOK
<1>13. PositiveOK'
  <2>1. ~ IsPositive
    BY <1>0, NoConflict
  <2>2. QED
    BY <1>0, <2>1 DEF PositiveOK, IsPositive
<1>14. QED
  BY <1>4, <1>5, <1>6, <1>7, <1>8, <1>9, <1>11, <1>12, <1>13 DEF IInv

-----------------------------------------------------------------------------
(* analyze. The variables that count: all but those of level 0.            *)
Counted == seen \cup {var(q) : q \in Marked}

LEMMA CountedIs ==
  ASSUME IInv, at = "analyze"
  PROVE  /\ Counted \subseteq Pending
         /\ \A x \in Counted : x \in Var /\ assigns[x] # l_Undef /\ level[x] \in 1 .. Len(trail_lim)
         /\ \A x \in Pending : x \in Var /\ assigns[x] # l_Undef
         /\ \A x \in Pending \ Counted : level[x] = 0
         /\ \A q \in Marked : q \in Lit /\ (level[var(q)] < Len(trail_lim) => q = - assigns[var(q)])
         /\ Len(trail_lim) > 0
<1>0. /\ trail \in Seq(Lit) /\ TrailOK(assigns, trail) /\ LevelsOK(level, trail, trail_lim)
      /\ Len(trail_lim) \in Nat /\ seen \subseteq Var /\ look \subseteq Lit /\ trail_lim \in Seq(Nat)
      /\ decisionLevel = Len(trail_lim)
  BY Between DEF TypeOK
<1>1. /\ \A x \in seen : assigns[x] # l_Undef /\ level[x] > 0
      /\ \A q \in look : IsFalse(q) \/ (IsTrue(q) /\ level[var(q)] = decisionLevel)
  BY DEF IInv, AnalysisOK
<1>2. \A q \in look : var(q) \in Var /\ assigns[var(q)] # l_Undef
  BY <1>0, <1>1, LitFacts DEF IsFalse, IsTrue, l_Undef
<1>3. \A x \in Pending : x \in Var /\ assigns[x] # l_Undef
  BY <1>0, <1>1, <1>2 DEF Pending
<1>4. \A x \in Pending : level[x] \in 0 .. Len(trail_lim)
  BY <1>0, <1>3, LevelRange
<1>5. Counted \subseteq Pending
  BY DEF Counted, Pending, Marked
<1>6. \A x \in Counted : level[x] > 0
  BY <1>1 DEF Counted, Marked
<1>7. \A x \in Counted : level[x] \in 1 .. Len(trail_lim)
  BY <1>0, <1>4, <1>5, <1>6
<1>8. ASSUME NEW x \in Pending \ Counted PROVE level[x] = 0
  <2>1. ~ (level[x] > 0)
    BY DEF Pending, Counted, Marked
  <2>2. QED
    BY <1>0, <1>4, <2>1
<1>9. ASSUME NEW q \in Marked
      PROVE  q \in Lit /\ (level[var(q)] < Len(trail_lim) => q = - assigns[var(q)])
  <2>1. q \in look /\ q \in Lit
    BY <1>0 DEF Marked
  <2>2. level[var(q)] < Len(trail_lim) => IsFalse(q)
    BY <1>0, <1>1, <2>1
  <2>3. QED
    BY <2>1, <2>2, LitFacts DEF IsFalse
<1>10. Len(trail_lim) > 0
  <2>1. trail_lim # <<>>
    BY DEF IInv, PhaseOK
  <2>2. QED
    BY <1>0, <2>1, EmptySeq
<1>11. QED
  BY <1>3, <1>5, <1>7, <1>8, <1>9, <1>10

(* The last of them on the trail is of the current level.                  *)
LEMMA LastSeenIs ==
  ASSUME IInv, at = "analyze"
  PROVE  /\ LastSeen \in 1 .. index /\ LastSeen \in 1 .. Len(trail)
         /\ var(trail[LastSeen]) \in Counted
         /\ level[var(trail[LastSeen])] = Len(trail_lim)
         /\ \A i \in 1 .. Len(trail) :
              var(trail[i]) \in Counted /\ level[var(trail[i])] = Len(trail_lim) => i <= LastSeen
<1> DEFINE T == {i \in 1 .. index : var(trail[i]) \in Counted}
<1>0. /\ trail \in Seq(Lit) /\ TrailOK(assigns, trail) /\ LevelsOK(level, trail, trail_lim)
      /\ Len(trail_lim) \in Nat /\ Len(trail) \in Nat /\ trail_lim \in Seq(Nat)
      /\ index \in 0 .. Len(trail) /\ look \subseteq Lit
      /\ decisionLevel = Len(trail_lim)
  BY Between DEF TypeOK
<1>1. /\ \A i \in 1 .. Len(trail) :
            var(trail[i]) \in Pending /\ level[var(trail[i])] = Len(trail_lim) => i <= index
      /\ \E q \in look : level[var(q)] = Len(trail_lim)
  BY <1>0 DEF IInv, AnalysisOK
<1>2. /\ Counted \subseteq Pending /\ Len(trail_lim) > 0
      /\ \A x \in Counted : level[x] \in 1 .. Len(trail_lim)
      /\ \A x \in Pending : x \in Var /\ assigns[x] # l_Undef
      /\ \A x \in Pending \ Counted : level[x] = 0
  BY CountedIs
<1>3. PICK i \in T : level[var(trail[i])] = Len(trail_lim)
  <2>1. PICK q \in look : level[var(q)] = Len(trail_lim)
    BY <1>1
  <2>2. var(q) \in Pending
    BY DEF Pending
  <2>3. var(q) \in Counted
    BY <1>2, <2>1, <2>2
  <2>4. PICK i \in 1 .. Len(trail) : var(trail[i]) = var(q)
    BY <1>0, <1>2, <2>2, LevelRange
  <2>5. i \in 1 .. index
    BY <1>0, <1>1, <2>1, <2>2, <2>4
  <2>6. QED
    BY <2>1, <2>3, <2>4, <2>5
<1>4. T \subseteq 0 .. index /\ index \in Nat /\ T # {}
  BY <1>0, <1>3
<1>5. PICK k \in T : \A j \in T : j <= k
  BY <1>4, Greatest
<1>6. /\ LastSeen \in 1 .. index
      /\ var(trail[LastSeen]) \in Counted
      /\ \A j \in LastSeen + 1 .. index : var(trail[j]) \notin Counted
  <2>1. \A j \in k + 1 .. index : var(trail[j]) \notin Counted
    <3>1. SUFFICES ASSUME NEW j \in k + 1 .. index, var(trail[j]) \in Counted PROVE FALSE
      OBVIOUS
    <3>2. k \in 1 .. index /\ index \in Nat
      BY <1>4
    <3>3. j \in 1 .. index /\ ~ (j <= k)
      BY <3>2
    <3>4. QED
      BY <1>5, <3>1, <3>3
  <2>2. k \in 1 .. index /\ var(trail[k]) \in Counted
    OBVIOUS
  <2>3. LastSeen = CHOOSE n \in 1 .. index :
                     /\ var(trail[n]) \in Counted
                     /\ \A j \in n + 1 .. index : var(trail[j]) \notin Counted
    BY DEF LastSeen, Counted
  <2>4. QED
    BY <2>1, <2>2, <2>3
<1>7. LastSeen \in 1 .. Len(trail)
  BY <1>0, <1>6
<1>8. i \in 1 .. index /\ i <= LastSeen
  <2>1. i \in 1 .. index /\ var(trail[i]) \in Counted
    BY <1>3
  <2>2. ~ (i \in LastSeen + 1 .. index)
    BY <1>6, <2>1
  <2>3. QED
    BY <1>0, <1>6, <2>1, <2>2
<1>9. level[var(trail[i])] <= level[var(trail[LastSeen])]
  <2>1. i \in 1 .. Len(trail)
    BY <1>0, <1>8
  <2>2. QED
    BY <1>0, <1>7, <1>8, <2>1, LevelsMonotone
<1>10. level[var(trail[LastSeen])] = Len(trail_lim)
  <2>1. level[var(trail[LastSeen])] \in 1 .. Len(trail_lim)
    BY <1>2, <1>6
  <2>2. QED
    BY <1>0, <1>3, <1>9, <2>1
<1>11. ASSUME NEW j \in 1 .. Len(trail), var(trail[j]) \in Counted, level[var(trail[j])] = Len(trail_lim)
       PROVE  j <= LastSeen
  <2>1. j <= index
    BY <1>1, <1>2, <1>11
  <2>2. ~ (j \in LastSeen + 1 .. index)
    BY <1>6, <1>11
  <2>3. QED
    BY <1>0, <1>6, <2>1, <2>2
<1>12. QED
  BY <1>6, <1>7, <1>10, <1>11

(* The reason of a literal, as a clause: the others are false.             *)
LEMMA ReasonFollows ==
  ASSUME IInv, NEW i \in 1 .. Len(trail), reason[var(trail[i])] # NULL
  PROVE  /\ Others(reason[var(trail[i])]) \subseteq Lit
         /\ ImpliedBy(problem, {trail[i]} \cup Negated({var(q) : q \in Others(reason[var(trail[i])])}))
         /\ \A q \in Others(reason[var(trail[i])]) :
              /\ \E j \in 1 .. i - 1 : var(trail[j]) = var(q)
              /\ \/ IsFalse(q)
                 \/ IsTrue(q) /\ level[var(q)] = level[var(trail[i])]
         /\ \E q \in Others(reason[var(trail[i])]) : level[var(q)] = level[var(trail[i])]
<1> DEFINE r == reason[var(trail[i])]
<1>0. /\ clause \in [Address -> Clauses \cup {Free}] /\ reason \in [Var -> GClauses]
      /\ Placed(assigns, trail)
      /\ KnownClausesOK(problem, clause, watches) /\ KnownFactsOK(problem, level, reason, trail)
  BY Between DEF IInv, Sound, Typed
<1>1. trail[i] \in Lit /\ r \in GClauses /\ assigns[var(trail[i])] = trail[i]
  BY <1>0 DEF Placed
<1>2. ReasonOK(assigns, level, trail, clause, r, i)
  BY DEF IInv, Sound, ReasonsOK
<1>3. Others(r) = OthersIn(r, clause)
  BY DEF Others, OthersIn
<1> HIDE DEF r
<1>4. /\ \A q \in Others(r) : \E j \in 1 .. i - 1 : var(trail[j]) = var(q)
      /\ \E q \in Others(r) : level[var(q)] = level[var(trail[i])]
  BY <1>2, <1>3 DEF ReasonOK
<1>5. CASE r[1] = "lit" /\ r[2] \in Lit
  <2>1. Others(r) = {r[2]}
    BY <1>5 DEF Others
  <2>2. IsTrue(r[2]) /\ level[var(r[2])] = level[var(trail[i])]
    BY <1>2, <1>4, <1>5, <2>1 DEF ReasonOK, IsTrue
  <2>3. ImpliedBy(problem, {trail[i], - r[2]})
    BY <1>0, <1>5 DEF KnownFactsOK, r
  <2>4. {trail[i], - r[2]} = {trail[i]} \cup Negated({var(q) : q \in Others(r)})
    BY <2>1, <2>2 DEF Negated, IsTrue
  <2>5. ImpliedBy(problem, {trail[i]} \cup Negated({var(q) : q \in Others(r)}))
    BY <2>3, <2>4
  <2>6. QED
    BY <1>4, <1>5, <2>1, <2>2, <2>5 DEF r
<1>6. CASE r[1] = "clause" /\ r[2] \in Address
  <2> DEFINE c == r[2]
  <2>1. /\ clause[c] # Free /\ clause[c].first = trail[i]
        /\ \A q \in Others(r) : assigns[var(q)] = - q
    BY <1>2, <1>3, <1>6 DEF ReasonOK
  <2>2. Others(r) = {clause[c].second} \cup clause[c].rest
    BY <1>6 DEF Others
  <2>3. Others(r) \subseteq Lit
    BY <1>0, <1>6, <2>1, <2>2, ClauseType
  <2>4. ImpliedBy(problem, {clause[c].first, clause[c].second} \cup clause[c].rest)
    BY <1>0, <1>6, <2>1 DEF KnownClausesOK
  <2>5. Negated({var(q) : q \in Others(r)}) = Others(r)
    <3>1. \A q \in Others(r) : - assigns[var(q)] = q
      BY <2>1, <2>3, LitFacts
    <3>2. QED
      BY <3>1 DEF Negated
  <2>6. {clause[c].first, clause[c].second} \cup clause[c].rest = {trail[i]} \cup Negated({var(q) : q \in Others(r)})
    BY <2>1, <2>2, <2>5
  <2>7. ImpliedBy(problem, {trail[i]} \cup Negated({var(q) : q \in Others(r)}))
    BY <2>4, <2>6
  <2>8. \A q \in Others(r) : IsFalse(q)
    BY <2>1 DEF IsFalse
  <2>9. QED
    BY <1>4, <2>3, <2>7, <2>8 DEF r
<1>7. r # NULL
  BY DEF r
<1>8. QED
  BY <1>1, <1>5, <1>6, <1>7, GClauseIs

(* The variables of level 0 are resolved away.                             *)
LEMMA CountedImplied ==
  ASSUME IInv, at = "analyze"
  PROVE  ImpliedBy(problem, Negated(Counted))
<1>0. /\ trail \in Seq(Lit) /\ TrailOK(assigns, trail) /\ KnownFactsOK(problem, level, reason, trail)
      /\ assigns \in [Var -> Lit \cup {l_Undef}]
  BY Between DEF IInv, Sound, Typed
<1>1. ImpliedBy(problem, Negated(Pending))
  BY DEF IInv, AnalysisOK, Implied, ImpliedBy
<1>2. /\ \A x \in Pending : x \in Var /\ assigns[x] # l_Undef
      /\ \A x \in Pending \ Counted : level[x] = 0
  BY CountedIs
<1>3. \A x \in Pending : assigns[x] \in Lit /\ var(assigns[x]) = x /\ - assigns[x] \in Lit /\ - (- assigns[x]) = assigns[x]
  BY <1>0, <1>2, LitFacts DEF TrailOK
<1>4. Negated(Pending) \subseteq Lit
  BY <1>3 DEF Negated
<1>5. ASSUME NEW q \in Negated(Pending) \ Negated(Counted)
      PROVE  ImpliedBy(problem, {- q})
  <2>1. PICK x \in Pending : q = - assigns[x]
    BY DEF Negated
  <2>2. x \notin Counted
    BY <2>1, <1>5 DEF Negated
  <2>3. level[x] = 0
    BY <1>2, <2>2
  <2>4. assigns[var(assigns[x])] = assigns[x] /\ level[var(assigns[x])] = 0
    BY <1>3, <2>3
  <2>5. ImpliedBy(problem, {assigns[x]})
    BY <1>0, <1>3, <2>4, RootImplied
  <2>6. QED
    BY <1>3, <2>1, <2>5
<1>6. QED
  BY <1>1, <1>4, <1>5, Resolved

LEMMA AnalyzeStep ==
  ASSUME IInv, analyze
  PROVE  IInv'
<1> DEFINE K == LastSeen
           p == trail[K]
           marks == Counted \ {var(p)}
           pathC == {x \in marks : level[x] = decisionLevel}
           r == reason[var(p)]
           dl == Len(trail_lim)
<1>0. /\ at = "analyze"
      /\ out_learnt' = out_learnt \cup {q \in Marked : level[var(q)] < decisionLevel}
      /\ seen' = marks /\ index' = K - 1 /\ look' = Others(r)
      /\ IF pathC = {} THEN at' = "learn" /\ asserting' = - p ELSE UNCHANGED <<at, asserting>>
      /\ UNCHANGED <<input, problem, nVars, ok, clause, watches, simpDB_assigns, assigns, level,
                     reason, trail, trail_lim, qhead, order, todo, model, upkeep>>
  BY DEF analyze, Counted, given, database, assignment
<1>1. /\ K \in 1 .. index /\ K \in 1 .. Len(trail) /\ var(p) \in Counted /\ level[var(p)] = dl
      /\ \A i \in 1 .. Len(trail) : var(trail[i]) \in Counted /\ level[var(trail[i])] = dl => i <= K
  BY <1>0, LastSeenIs
<1>2. /\ Counted \subseteq Pending
      /\ \A x \in Counted : x \in Var /\ assigns[x] # l_Undef /\ level[x] \in 1 .. dl
      /\ \A x \in Pending : x \in Var /\ assigns[x] # l_Undef
      /\ \A x \in Pending \ Counted : level[x] = 0
      /\ \A q \in Marked : q \in Lit /\ (level[var(q)] < dl => q = - assigns[var(q)])
      /\ dl > 0
  BY <1>0, CountedIs
<1>3. /\ trail \in Seq(Lit) /\ trail_lim \in Seq(Nat) /\ TrailOK(assigns, trail) /\ Placed(assigns, trail)
      /\ LevelsOK(level, trail, trail_lim) /\ DecisionsOK(level, reason, trail, trail_lim)
      /\ Len(trail) \in Nat /\ dl \in Nat /\ decisionLevel = dl /\ index \in 0 .. Len(trail)
      /\ reason \in [Var -> GClauses] /\ assigns \in [Var -> Lit \cup {l_Undef}]
      /\ decisionLevel' = dl
  BY <1>0, Between DEF IInv, Sound, Typed, TypeOK, decisionLevel
<1>4. p \in Lit /\ var(p) \in Var /\ assigns[var(p)] = p /\ r \in GClauses
      /\ - p \in Lit /\ - p # 0 /\ assigns[var(- p)] = - (- p) /\ var(- p) = var(p)
  BY <1>1, <1>3, LitFacts DEF Placed
<1>5. /\ out_learnt = {- assigns[x] : x \in {x \in seen : level[x] < dl}}
      /\ \A i \in 1 .. Len(trail) : var(trail[i]) \in Pending /\ level[var(trail[i])] = dl => i <= index
  BY <1>0, <1>3 DEF IInv, AnalysisOK
<1>6. ImpliedBy(problem, Negated(Counted))
  BY <1>0, CountedImplied
<1>7. r # NULL =>
        /\ Others(r) \subseteq Lit
        /\ ImpliedBy(problem, {p} \cup Negated({var(q) : q \in Others(r)}))
        /\ \A q \in Others(r) : /\ \E j \in 1 .. K - 1 : var(trail[j]) = var(q)
                                /\ IsFalse(q) \/ (IsTrue(q) /\ level[var(q)] = dl)
        /\ \E q \in Others(r) : level[var(q)] = dl
  BY <1>1, ReasonFollows
<1>8. r = NULL => Others(r) = {}
  BY DEF Others, NULL
<1> HIDE DEF K, p
<1>9. pathC # {} => r # NULL
  <2>1. SUFFICES ASSUME r = NULL, NEW x \in pathC PROVE FALSE
    OBVIOUS
  <2>2. x \in Counted /\ x # var(p) /\ level[x] = dl
    BY <1>3
  <2>3. PICK j \in 1 .. Len(trail) : var(trail[j]) = x
    BY <1>2, <1>3, <2>2, LevelRange
  <2>4. j <= K
    BY <1>1, <2>2, <2>3
  <2>5. K = trail_lim[dl] + 1
    BY <1>1, <1>2, <1>3, <2>1 DEF DecisionsOK, p
  <2>6. trail_lim[dl] < j
    <3>1. dl \in 1 .. dl
      BY <1>2, <1>3
    <3>2. QED
      BY <1>3, <2>2, <2>3, <3>1 DEF LevelsOK
  <2>7. trail_lim[dl] \in Nat
    BY <1>2, <1>3, ElementOfSeq
  <2>8. j = K
    BY <1>1, <1>3, <2>4, <2>5, <2>6, <2>7
  <2>9. QED
    BY <2>2, <2>3, <2>8 DEF p
<1>10. out_learnt' = {- assigns[x] : x \in {x \in marks : level[x] < dl}}
  <2>1. {x \in marks : level[x] < dl} = {x \in seen : level[x] < dl} \cup {x \in {var(q) : q \in Marked} : level[x] < dl}
    <3>1. level[var(p)] = dl /\ ~ (dl < dl)
      BY <1>1, <1>3
    <3>2. QED
      BY <3>1 DEF Counted
  <2>2. {q \in Marked : level[var(q)] < dl} = {- assigns[x] : x \in {x \in {var(q) : q \in Marked} : level[x] < dl}}
    BY <1>2
  <2>3. out_learnt' = out_learnt \cup {q \in Marked : level[var(q)] < dl}
    BY <1>0, <1>3
  <2>4. QED
    BY <1>5, <2>1, <2>2, <2>3
<1>11. \A x \in marks : x \in Var /\ assigns[x] # l_Undef /\ level[x] \in 1 .. dl /\ level[x] > 0
  BY <1>2, <1>3
<1>12. look' \subseteq Lit
  BY <1>0, <1>7, <1>8
<1>13. out_learnt' \subseteq Lit
  <2>1. \A x \in marks : - assigns[x] \in Lit
    BY <1>3, <1>11, LitFacts
  <2>2. QED
    BY <1>10, <2>1
<1> HIDE DEF r
<1>14. TypeOK'
  <2>1. index' \in 0 .. Len(trail')
    BY <1>0, <1>1, <1>3
  <2>2. seen' \subseteq Var
    BY <1>0, <1>11
  <2>3. at' \in {"analyze", "learn"} /\ asserting' \in Lit \cup {0}
    BY <1>0, <1>4 DEF IInv, TypeOK
  <2>4. QED
    BY <1>0, <1>12, <1>13, <2>1, <2>2, <2>3 DEF IInv, TypeOK
<1>15. Sound(assigns', level', reason', trail', trail_lim', clause', watches', Cleared', problem')
  BY <1>0, SoundSame
<1>16. /\ QueueOK(level', trail', trail_lim', qhead', todo') /\ TodoOK(watches', trail', qhead', todo')
       /\ HeapOK(assigns', nVars', order')
       /\ ok' => CoveredOK(assigns', level', clause', watches', problem')
  BY <1>0 DEF IInv
<1>17. at' \in {"analyze", "learn"}
  BY <1>0
<1>18. WatchOK(assigns', level', trail', watches', clause', qhead', todo', Upto')
  <2>1. Upto' = Upto
    BY <1>0, <1>3, <1>17 DEF Upto
  <2>2. QED
    BY <1>0, <2>1 DEF IInv
<1>19. /\ \A x \in seen' : assigns'[x] # l_Undef /\ level'[x] > 0
       /\ out_learnt' = {- assigns'[x] : x \in {x \in seen' : level'[x] < decisionLevel'}}
  BY <1>0, <1>3, <1>10, <1>11
<1>20. ASSUME pathC # {} PROVE AnalysisOK'
  <2>1. at' = "analyze" /\ r # NULL
    BY <1>0, <1>9, <1>20
  <2>2. \A q \in look' : IsFalse(q)' \/ (IsTrue(q)' /\ level'[var(q)] = decisionLevel')
    BY <1>0, <1>3, <1>7, <2>1 DEF IsFalse, IsTrue
  <2>3. \E q \in look' : level'[var(q)] = decisionLevel'
    BY <1>0, <1>3, <1>7, <2>1
  <2>4. Pending' = marks \cup {var(q) : q \in Others(r)}
    BY <1>0 DEF Pending, marks
  <2>5. ASSUME NEW i \in 1 .. Len(trail), var(trail[i]) \in Pending', level[var(trail[i])] = dl
        PROVE  i <= index'
    <3>1. CASE var(trail[i]) \in marks
      <4>1. i <= K
        BY <1>1, <2>5, <3>1
      <4>2. i # K
        BY <3>1 DEF p
      <4>3. QED
        BY <1>0, <1>1, <1>3, <4>1, <4>2
    <3>2. CASE var(trail[i]) \in {var(q) : q \in Others(r)}
      <4>1. PICK j \in 1 .. K - 1 : var(trail[j]) = var(trail[i])
        BY <1>7, <2>1, <3>2
      <4>2. j \in 1 .. Len(trail) /\ j <= K - 1
        BY <1>1, <1>3
      <4>3. i = j
        BY <1>3, <4>1, <4>2 DEF Placed
      <4>4. QED
        BY <1>0, <4>2, <4>3
    <3>3. QED
      BY <2>4, <2>5, <3>1, <3>2
  <2>6. ImpliedBy(problem, Negated(Pending'))
    <3> DEFINE O == {var(q) : q \in Others(r)}
    <3>1. ImpliedBy(problem, {p} \cup Negated(O))
      BY <1>7, <2>1
    <3>2. \A x \in Counted : x = var(p) \/ x \in marks
      OBVIOUS
    <3>3. /\ Negated(O) \subseteq Negated(Pending')
          /\ \A x \in marks : - assigns[x] \in Negated(Pending')
      BY <2>4 DEF Negated
    <3>4. SUFFICES ASSUME NEW A \in Assignments, Satisfies(A, problem)
                   PROVE  Negated(Pending') \cap A # {}
      BY DEF ImpliedBy
    <3>5. PICK x \in Counted : - assigns[x] \in A
      BY <1>6, <3>4 DEF ImpliedBy, Negated
    <3>6. CASE x \in marks
      BY <3>3, <3>5, <3>6
    <3>7. CASE x = var(p)
      <4>1. p \notin A
        BY <1>4, <3>5, <3>7, AssignmentIs
      <4>2. Negated(O) \cap A # {}
        BY <3>1, <3>4, <4>1 DEF ImpliedBy
      <4>3. QED
        BY <3>3, <4>2
    <3>8. QED
      BY <3>2, <3>6, <3>7
  <2>7. Negated(Pending)' = Negated(Pending')
    BY <1>0 DEF Negated
  <2>8. Implied(Negated(Pending))'
    BY <1>0, <2>6, <2>7 DEF Implied, ImpliedBy
  <2>9. \A i \in 1 .. Len(trail') : var(trail'[i]) \in Pending' /\ level'[var(trail'[i])] = decisionLevel' => i <= index'
    BY <1>0, <1>3, <2>5
  <2>10. AnalysisOK'
    BY <1>19, <2>1, <2>2, <2>3, <2>8, <2>9 DEF AnalysisOK
  <2>11. QED
    BY <2>10
<1>21. ASSUME pathC = {} PROVE AnalysisOK'
  <2>1. at' = "learn" /\ asserting' = - p
    BY <1>0, <1>21
  <2>2. asserting' # 0 /\ IsFalse(asserting)' /\ level'[var(asserting')] = decisionLevel'
    BY <1>0, <1>1, <1>3, <1>4, <2>1 DEF IsFalse
  <2>3. \A x \in marks : level[x] < dl
    <3>1. \A x \in marks : level[x] # dl
      BY <1>3, <1>21
    <3>2. QED
      BY <1>3, <1>11, <3>1
  <2>4. Negated(Counted) \subseteq out_learnt' \cup {asserting'}
    <3>1. SUFFICES ASSUME NEW x \in Counted PROVE - assigns[x] \in out_learnt' \cup {asserting'}
      BY DEF Negated
    <3>2. CASE x = var(p)
      BY <1>4, <2>1, <3>2
    <3>3. CASE x \in marks
      BY <1>10, <2>3, <3>3
    <3>4. QED
      BY <3>2, <3>3
  <2>5. ImpliedBy(problem, out_learnt' \cup {asserting'})
    BY <1>6, <2>4, ImpliedMore
  <2>6. Implied(out_learnt \cup {asserting})'
    BY <1>0, <2>5 DEF Implied, ImpliedBy
  <2>7. \A x \in seen' : level'[x] < decisionLevel'
    BY <1>0, <1>3, <2>3
  <2>8. AnalysisOK'
    BY <1>19, <2>1, <2>2, <2>6, <2>7 DEF AnalysisOK
  <2>9. QED
    BY <2>8
<1>22. AnalysisOK'
  BY <1>20, <1>21
<1>23. PhaseOK'
  BY <1>0, <1>17 DEF PhaseOK, IInv
<1>24. PositiveOK'
  BY <1>0 DEF IInv, PositiveOK, IsPositive
<1>25. QED
  BY <1>14, <1>15, <1>16, <1>18, <1>22, <1>23, <1>24 DEF IInv

-----------------------------------------------------------------------------
(* What minimization leaves of the clause.                                 *)

LEMMA LearntIs ==
  ASSUME IInv, at = "learn"
  PROVE  /\ asserting \in Lit /\ IsFalse(asserting) /\ level[var(asserting)] = Len(trail_lim)
         /\ LearntVars = seen /\ out_learnt = Negated(seen)
         /\ \A x \in seen : /\ x \in Var /\ assigns[x] # l_Undef /\ level[x] \in 1 .. Len(trail_lim)
                            /\ level[x] < Len(trail_lim) /\ assigns[x] \in Lit /\ var(- assigns[x]) = x
         /\ ImpliedBy(problem, out_learnt \cup {asserting})
         /\ Len(trail_lim) \in Nat /\ Len(trail_lim) > 0
<1>0. /\ trail \in Seq(Lit) /\ TrailOK(assigns, trail) /\ LevelsOK(level, trail, trail_lim)
      /\ Len(trail_lim) \in Nat /\ decisionLevel = Len(trail_lim) /\ trail_lim \in Seq(Nat)
      /\ assigns \in [Var -> Lit \cup {l_Undef}] /\ seen \subseteq Var /\ asserting \in Lit \cup {0}
  BY Between DEF Typed, TypeOK
<1>1. /\ \A x \in seen : assigns[x] # l_Undef /\ level[x] > 0 /\ level[x] < Len(trail_lim)
      /\ out_learnt = {- assigns[x] : x \in {x \in seen : level[x] < Len(trail_lim)}}
      /\ asserting # 0 /\ IsFalse(asserting) /\ level[var(asserting)] = Len(trail_lim)
      /\ ImpliedBy(problem, out_learnt \cup {asserting})
  BY <1>0 DEF IInv, AnalysisOK, Implied, ImpliedBy
<1>2. \A x \in seen : x \in Var /\ level[x] \in 0 .. Len(trail_lim)
  BY <1>0, <1>1, LevelRange
<1>3. \A x \in seen : level[x] \in 1 .. Len(trail_lim)
  BY <1>0, <1>1, <1>2
<1>4. \A x \in seen : assigns[x] \in Lit /\ var(assigns[x]) = x
  BY <1>0, <1>1 DEF TrailOK
<1>5. \A x \in seen : var(- assigns[x]) = x
  BY <1>4, LitFacts
<1>6. out_learnt = Negated(seen)
  BY <1>1 DEF Negated
<1>7. LearntVars = seen
  BY <1>5, <1>6 DEF LearntVars, Negated
<1>8. Len(trail_lim) > 0
  <2>1. trail_lim # <<>>
    BY DEF IInv, PhaseOK
  <2>2. QED
    BY <1>0, <2>1, EmptySeq
<1>9. QED
  BY <1>0, <1>1, <1>2, <1>3, <1>4, <1>5, <1>6, <1>7, <1>8

LEMMA RedundantIs ==
  ASSUME NEW x \in Redundant
  PROVE  /\ x \in Var /\ assigns[x] # l_Undef /\ reason[x] # NULL
         /\ \A q \in Others(reason[x]) : level[var(q)] = 0 \/ var(q) \in LearntVars \/ var(q) \in Redundant
<1> DEFINE Within == {y \in Var : /\ assigns[y] # l_Undef /\ reason[y] # NULL
                                  /\ \E z \in LearntVars : (level[y] - level[z]) % 32 = 0}
           Closed(R) == \A y \in R : \A z \in Antecedents(y) : level[z] = 0 \/ z \in LearntVars \/ z \in R
<1>1. Redundant = UNION {R \in SUBSET Within : Closed(R)}
  BY DEF Redundant
<1>2. PICK R \in SUBSET Within : Closed(R) /\ x \in R
  BY <1>1
<1>3. R \subseteq Redundant
  BY <1>1, <1>2
<1>4. x \in Within
  BY <1>2
<1>5. \A z \in Antecedents(x) : level[z] = 0 \/ z \in LearntVars \/ z \in Redundant
  BY <1>2, <1>3
<1>6. \A q \in Others(reason[x]) : var(q) \in Antecedents(x)
  BY DEF Antecedents
<1>7. QED
  BY <1>4, <1>5, <1>6

(* The literals left out follow from the others, in the order of the       *)
(* trail.                                                                  *)
LEMMA MinimizedImplied ==
  ASSUME IInv, at = "learn"
  PROVE  ImpliedBy(problem, Minimized \cup {asserting})
<1>0. /\ trail \in Seq(Lit) /\ TrailOK(assigns, trail) /\ Placed(assigns, trail)
      /\ KnownFactsOK(problem, level, reason, trail) /\ Len(trail) \in Nat
      /\ assigns \in [Var -> Lit \cup {l_Undef}]
  BY Between DEF IInv, Sound, Typed
<1>1. /\ LearntVars = seen /\ out_learnt = Negated(seen)
      /\ \A x \in seen : x \in Var /\ assigns[x] # l_Undef /\ assigns[x] \in Lit /\ var(- assigns[x]) = x
      /\ ImpliedBy(problem, out_learnt \cup {asserting})
  BY LearntIs
<1>2. SUFFICES ASSUME NEW A \in Assignments, Satisfies(A, problem), (Minimized \cup {asserting}) \cap A = {}
               PROVE  FALSE
  BY DEF ImpliedBy
<1>3. \A x \in seen : x \notin Redundant => - assigns[x] \notin A
  <2>1. SUFFICES ASSUME NEW x \in seen, x \notin Redundant PROVE - assigns[x] \in Minimized
    BY <1>2
  <2>2. - assigns[x] \in out_learnt /\ var(- assigns[x]) = x
    BY <1>1 DEF Negated
  <2>3. QED
    BY <2>1, <2>2 DEF Minimized
<1> DEFINE T == {i \in 1 .. Len(trail) : var(trail[i]) \in Redundant /\ - trail[i] \in A}
<1>4. T # {}
  <2>1. PICK x \in seen : - assigns[x] \in A
    BY <1>1, <1>2 DEF ImpliedBy, Negated
  <2>2. x \in Redundant
    BY <1>3, <2>1
  <2>3. PICK i \in 1 .. Len(trail) : trail[i] = assigns[x] /\ var(trail[i]) = x
    BY <1>0, <1>1 DEF Placed
  <2>4. QED
    BY <2>1, <2>2, <2>3
<1>5. T \subseteq Nat
  OBVIOUS
<1>6. PICK i \in T : \A j \in T : i <= j
  BY <1>4, <1>5, Least
<1>7. i \in 1 .. Len(trail) /\ var(trail[i]) \in Redundant /\ - trail[i] \in A
  BY <1>6
<1> HIDE DEF T
<1>8. reason[var(trail[i])] # NULL
  BY <1>7, RedundantIs
<1> DEFINE O == {var(q) : q \in Others(reason[var(trail[i])])}
<1>9. /\ Others(reason[var(trail[i])]) \subseteq Lit
      /\ ImpliedBy(problem, {trail[i]} \cup Negated(O))
      /\ \A q \in Others(reason[var(trail[i])]) :
           /\ \E j \in 1 .. i - 1 : var(trail[j]) = var(q)
  BY <1>7, <1>8, ReasonFollows
<1>10. trail[i] \notin A
  BY <1>0, <1>7, AssignmentIs DEF Placed
<1>11. Negated(O) \cap A # {}
  BY <1>2, <1>9, <1>10 DEF ImpliedBy
<1>12. PICK y \in O : - assigns[y] \in A
  BY <1>11 DEF Negated
<1>13. PICK j \in 1 .. i - 1 : var(trail[j]) = y
  BY <1>9, <1>12
<1>14. j \in 1 .. Len(trail) /\ j < i
  BY <1>0, <1>7
<1>15. trail[j] = assigns[y] /\ trail[j] \in Lit /\ y \in Var
  BY <1>0, <1>13, <1>14 DEF Placed
<1>16. level[y] = 0 \/ y \in LearntVars \/ y \in Redundant
  BY <1>7, <1>12, RedundantIs
<1>17. y \notin Redundant
  <2>1. SUFFICES ASSUME y \in Redundant PROVE FALSE
    OBVIOUS
  <2>2. j \in T
    BY <1>12, <1>13, <1>14, <1>15, <2>1 DEF T
  <2>3. i <= j
    BY <1>6, <2>2
  <2>4. QED
    BY <1>0, <1>7, <1>14, <2>3
<1>18. y \notin LearntVars
  BY <1>1, <1>3, <1>12, <1>17
<1>19. level[y] = 0
  BY <1>16, <1>17, <1>18
<1>20. ImpliedBy(problem, {trail[j]})
  BY <1>0, <1>13, <1>14, <1>19 DEF KnownFactsOK
<1>21. assigns[y] \in A
  BY <1>2, <1>15, <1>20 DEF ImpliedBy
<1>22. QED
  BY <1>12, <1>15, <1>21, AssignmentIs

(* The level to go back to.                                                *)
LEMMA BackLevel ==
  ASSUME IInv, at = "learn"
  PROVE  /\ out_btlevel \in 0 .. Len(trail_lim) /\ out_btlevel < Len(trail_lim)
         /\ \A x \in seen : level[x] <= out_btlevel
         /\ out_btlevel = 0 \/ \E x \in seen : level[x] = out_btlevel
<1>1. /\ LearntVars = seen /\ Len(trail_lim) \in Nat /\ Len(trail_lim) > 0
      /\ \A x \in seen : level[x] \in 1 .. Len(trail_lim) /\ level[x] < Len(trail_lim)
  BY LearntIs
<1> DEFINE T == {0} \cup {level[x] : x \in seen}
<1>2. T \subseteq 0 .. Len(trail_lim) /\ T # {}
  BY <1>1
<1>3. PICK n \in T : \A m \in T : m <= n
  BY <1>1, <1>2, Greatest
<1>4. \A x \in seen : level[x] <= n
  BY <1>3
<1>5. out_btlevel = CHOOSE m \in T : \A x \in seen : level[x] <= m
  BY <1>1 DEF out_btlevel
<1>6. out_btlevel \in T /\ \A x \in seen : level[x] <= out_btlevel
  BY <1>4, <1>5
<1>7. out_btlevel < Len(trail_lim)
  BY <1>1, <1>6
<1>8. QED
  BY <1>2, <1>6, <1>7

(* One of its literals is kept.                                            *)
LEMMA BackLevelKept ==
  ASSUME IInv, at = "learn"
  PROVE  out_btlevel = 0 \/ \E q \in Minimized : level[var(q)] = out_btlevel
<1>0. Placed(assigns, trail) /\ Len(trail) \in Nat
  BY Between
<1>1. /\ LearntVars = seen /\ out_learnt = Negated(seen)
      /\ \A x \in seen : x \in Var /\ assigns[x] # l_Undef /\ assigns[x] \in Lit /\ var(- assigns[x]) = x
  BY LearntIs
<1>2. SUFFICES ASSUME out_btlevel # 0 PROVE \E q \in Minimized : level[var(q)] = out_btlevel
  OBVIOUS
<1>3. \A x \in seen : x \notin Redundant => - assigns[x] \in Minimized /\ var(- assigns[x]) = x
  BY <1>1 DEF Minimized, Negated
<1>4. PICK x \in seen : level[x] = out_btlevel
  BY <1>2, BackLevel
<1>5. CASE x \notin Redundant
  BY <1>3, <1>4, <1>5
<1>6. CASE x \in Redundant
  <2> DEFINE T == {i \in 1 .. Len(trail) : var(trail[i]) \in Redundant /\ level[var(trail[i])] = out_btlevel}
  <2>1. PICK k \in 1 .. Len(trail) : var(trail[k]) = x
    BY <1>0, <1>1 DEF Placed
  <2>2. T \subseteq Nat /\ T # {}
    BY <1>4, <1>6, <2>1
  <2>3. PICK i \in T : \A j \in T : i <= j
    BY <2>2, Least
  <2>4. i \in 1 .. Len(trail) /\ var(trail[i]) \in Redundant /\ level[var(trail[i])] = out_btlevel
    BY <2>3
  <2> HIDE DEF T
  <2>5. reason[var(trail[i])] # NULL
    BY <2>4, RedundantIs
  <2>6. /\ \A q \in Others(reason[var(trail[i])]) : \E j \in 1 .. i - 1 : var(trail[j]) = var(q)
        /\ \E q \in Others(reason[var(trail[i])]) : level[var(q)] = level[var(trail[i])]
    BY <2>4, <2>5, ReasonFollows
  <2>7. PICK q \in Others(reason[var(trail[i])]) : level[var(q)] = out_btlevel
    BY <2>4, <2>6
  <2>8. PICK j \in 1 .. i - 1 : var(trail[j]) = var(q)
    BY <2>6
  <2>9. j \in 1 .. Len(trail) /\ ~ (i <= j)
    BY <1>0, <2>4
  <2>10. var(q) \notin Redundant
    BY <2>3, <2>7, <2>8, <2>9 DEF T
  <2>11. var(q) \in seen
    BY <1>1, <1>2, <2>4, <2>7, <2>10, RedundantIs
  <2>12. QED
    BY <1>3, <2>7, <2>10, <2>11
<1>7. QED
  BY <1>5, <1>6

LEMMA MinimizedIs ==
  ASSUME IInv, at = "learn"
  PROVE  /\ out_btlevel \in 0 .. Len(trail_lim) /\ out_btlevel < Len(trail_lim) /\ Len(trail_lim) \in Nat
         /\ asserting \in Lit /\ IsFalse(asserting) /\ level[var(asserting)] = Len(trail_lim)
         /\ Minimized \subseteq out_learnt
         /\ \A q \in out_learnt : /\ q \in Lit /\ IsFalse(q) /\ level[var(q)] \in 1 .. out_btlevel
                                  /\ q # asserting
         /\ ImpliedBy(problem, Minimized \cup {asserting})
         /\ Minimized = {} => out_btlevel = 0
         /\ Minimized # {} => \E q \in Minimized : level[var(q)] = out_btlevel
<1>1. /\ asserting \in Lit /\ IsFalse(asserting) /\ level[var(asserting)] = Len(trail_lim)
      /\ LearntVars = seen /\ out_learnt = Negated(seen)
      /\ \A x \in seen : /\ x \in Var /\ assigns[x] # l_Undef /\ level[x] \in 1 .. Len(trail_lim)
                         /\ level[x] < Len(trail_lim) /\ assigns[x] \in Lit /\ var(- assigns[x]) = x
      /\ Len(trail_lim) \in Nat
  BY LearntIs
<1>2. /\ out_btlevel \in 0 .. Len(trail_lim) /\ out_btlevel < Len(trail_lim)
      /\ \A x \in seen : level[x] <= out_btlevel
  BY BackLevel
<1>3. out_btlevel = 0 \/ \E q \in Minimized : level[var(q)] = out_btlevel
  BY BackLevelKept
<1>4. Minimized \subseteq out_learnt
  BY DEF Minimized
<1>5. ASSUME NEW q \in out_learnt
      PROVE  q \in Lit /\ IsFalse(q) /\ level[var(q)] \in 1 .. out_btlevel /\ q # asserting
  <2>1. PICK x \in seen : q = - assigns[x]
    BY <1>1 DEF Negated
  <2>2. q \in Lit /\ var(q) = x /\ - q = assigns[x]
    BY <1>1, <2>1, LitFacts
  <2>3. level[var(q)] \in 1 .. out_btlevel
    BY <1>1, <1>2, <2>2
  <2>4. level[var(q)] # Len(trail_lim)
    BY <1>1, <2>2
  <2>5. QED
    BY <1>1, <2>2, <2>3, <2>4 DEF IsFalse
<1>6. Minimized # {} => out_btlevel # 0
  BY <1>2, <1>4, <1>5
<1>7. QED
  BY <1>1, <1>2, <1>3, <1>4, <1>5, <1>6, MinimizedImplied

-----------------------------------------------------------------------------
(* cancelUntil(n). Cut... are what it makes of the variables.              *)
CutAssigns(n) == [x \in Var |-> IF x \in Undone(n) THEN l_Undef ELSE assigns[x]]
CutReasons(n) == [x \in Var |-> IF x \in Undone(n) THEN NULL ELSE reason[x]]
CutTrail(n) == SubSeq(trail, 1, Kept(n))
CutLims(n) == SubSeq(trail_lim, 1, n)

LEMMA CutState ==
  ASSUME IInv, NEW n \in 0 .. Len(trail_lim)
  PROVE  /\ CutTo(assigns, level, reason, trail, trail_lim,
                  CutAssigns(n), CutReasons(n), CutTrail(n), CutLims(n), n)
         /\ Typed(CutAssigns(n), level, CutReasons(n), CutTrail(n), CutLims(n),
                  clause, watches, Cleared, problem)
         /\ Sound(CutAssigns(n), level, CutReasons(n), CutTrail(n), CutLims(n),
                  clause, watches, Cleared, problem)
         /\ Kept(n) \in 0 .. Len(trail) /\ Len(CutTrail(n)) = Kept(n) /\ Len(CutLims(n)) = n
         /\ ok => CoveredOK(CutAssigns(n), level, clause, watches, problem)
         /\ Undone(n) \subseteq Var
         /\ \A x \in Var : /\ assigns[x] # l_Undef /\ level[x] > n => CutAssigns(n)[x] = l_Undef
                           /\ CutAssigns(n)[x] = l_Undef => assigns[x] = l_Undef \/ x \in Undone(n)
<1>0. /\ Typed(assigns, level, reason, trail, trail_lim, clause, watches, Cleared, problem)
      /\ TrailOK(assigns, trail) /\ Placed(assigns, trail) /\ LevelsOK(level, trail, trail_lim)
      /\ Len(trail) \in Nat /\ Len(trail_lim) \in Nat /\ decisionLevel = Len(trail_lim)
  BY Between
<1>1. /\ assigns \in [Var -> Lit \cup {l_Undef}] /\ level \in [Var -> Nat \cup {-1}]
      /\ reason \in [Var -> GClauses] /\ trail \in Seq(Lit) /\ trail_lim \in Seq(Nat)
      /\ problem \in SUBSET SUBSET Lit
  BY <1>0 DEF Typed
<1>2. Kept(n) = KeptAt(trail, trail_lim, n)
  BY <1>0 DEF Kept, KeptAt
<1>3. Undone(n) = After(trail, KeptAt(trail, trail_lim, n))
  BY <1>2 DEF Undone, After
<1>4. /\ Kept(n) \in 0 .. Len(trail)
      /\ \A i \in 1 .. Len(trail) : i <= Kept(n) <=> level[var(trail[i])] <= n
  BY <1>0, <1>1, <1>2, KeptIs
<1>5. CutTo(assigns, level, reason, trail, trail_lim,
            CutAssigns(n), CutReasons(n), CutTrail(n), CutLims(n), n)
  BY <1>0, <1>1, <1>2, <1>3, CutIs DEF CutAssigns, CutReasons, CutTrail, CutLims
<1>6. TrailOK(CutAssigns(n), CutTrail(n))
  BY <1>0, <1>1, <1>2, <1>3, <1>4, TrailCut DEF Unassigned, CutAssigns, CutTrail
<1>7. CutTrail(n) \in Seq(Lit) /\ Len(CutTrail(n)) = Kept(n)
  BY <1>1, <1>4, Cut DEF CutTrail
<1>8. CutLims(n) \in Seq(Nat) /\ Len(CutLims(n)) = n
  BY <1>1, Cut DEF CutLims
<1>9. CutAssigns(n) \in [Var -> Lit \cup {l_Undef}]
  BY <1>1 DEF CutAssigns
<1>10. CutReasons(n) \in [Var -> GClauses]
  BY <1>1 DEF CutReasons, GClauses
<1>11. Typed(CutAssigns(n), level, CutReasons(n), CutTrail(n), CutLims(n),
             clause, watches, Cleared, problem)
  BY <1>0, <1>7, <1>8, <1>9, <1>10 DEF Typed
<1>12. Sound(assigns, level, reason, trail, trail_lim, clause, watches, Cleared, problem)
  BY DEF IInv
<1>13. Sound(CutAssigns(n), level, CutReasons(n), CutTrail(n), CutLims(n),
             clause, watches, Cleared, problem)
  BY <1>5, <1>6, <1>11, <1>12, SoundCut
<1>14. ASSUME ok PROVE CoveredOK(CutAssigns(n), level, clause, watches, problem)
  <2>1. RootsKept(assigns, level, reason, CutAssigns(n), level, CutReasons(n))
    BY <1>5, CutKeepsRoots
  <2>2. CoveredOK(assigns, level, clause, watches, problem)
    BY <1>14 DEF IInv
  <2>3. QED
    BY <1>1, <2>1, <2>2, CoveredAssign
<1>15. Undone(n) \subseteq Var
  BY <1>0, <1>1, <1>2, <1>3, <1>4, AfterIs
<1>16. ASSUME NEW x \in Var, assigns[x] # l_Undef, level[x] > n
       PROVE  CutAssigns(n)[x] = l_Undef
  <2>1. PICK i \in 1 .. Len(trail) : var(trail[i]) = x
    BY <1>0, <1>16 DEF Placed
  <2>2. ~ (i <= Kept(n))
    BY <1>1, <1>4, <1>16, <2>1
  <2>3. i > Kept(n)
    BY <1>0, <1>4, <2>2
  <2>4. x \in Undone(n)
    BY <1>0, <1>1, <1>2, <1>3, <1>4, <2>1, <2>3, AfterIs
  <2>5. QED
    BY <2>4 DEF CutAssigns
<1>17. \A x \in Var : CutAssigns(n)[x] = l_Undef => assigns[x] = l_Undef \/ x \in Undone(n)
  BY DEF CutAssigns
<1>18. QED
  BY <1>4, <1>5, <1>7, <1>8, <1>11, <1>13, <1>14, <1>15, <1>16, <1>17

(* The literals simplifyDB has looked at are of level 0, and stay.         *)
LEMMA CutKeepsCleared ==
  ASSUME IInv, NEW n \in 0 .. Len(trail_lim)
  PROVE  /\ simpDB_assigns <= Len(CutTrail(n))
         /\ Cleared = {CutTrail(n)[i] : i \in 1 .. simpDB_assigns}
<1>1. /\ CutTo(assigns, level, reason, trail, trail_lim,
               CutAssigns(n), CutReasons(n), CutTrail(n), CutLims(n), n)
      /\ Len(trail) \in Nat /\ Len(trail_lim) \in Nat
  BY CutState, Between
<1>2. simpDB_assigns \in Nat /\ simpDB_assigns <= Len(trail)
  BY DEF IInv, TypeOK, PhaseOK
<1>3. SweptOK(assigns, level, reason, clause, watches, Cleared)
  BY SoundIs DEF IInv
<1>4. ASSUME NEW i \in 1 .. simpDB_assigns PROVE i \in 1 .. Len(CutTrail(n)) /\ CutTrail(n)[i] = trail[i]
  <2>1. trail[i] \in Cleared
    BY DEF Cleared
  <2>2. level[var(trail[i])] = 0
    BY <1>3, <2>1 DEF SweptOK
  <2>3. i \in 1 .. Len(trail) /\ 0 <= n
    BY <1>1, <1>2
  <2>4. i <= Len(CutTrail(n)) /\ Len(CutTrail(n)) \in Nat
    BY <1>1, <2>2, <2>3 DEF CutTo
  <2>5. QED
    BY <1>1, <2>3, <2>4 DEF CutTo
<1>5. simpDB_assigns <= Len(CutTrail(n))
  <2>1. Len(CutTrail(n)) \in Nat
    BY <1>1 DEF CutTo
  <2>2. CASE simpDB_assigns = 0
    BY <2>1, <2>2
  <2>3. CASE simpDB_assigns > 0
    <3>1. simpDB_assigns \in 1 .. simpDB_assigns
      BY <1>2, <2>3
    <3>2. QED
      BY <1>2, <1>4, <2>1, <3>1
  <2>4. QED
    BY <1>2, <2>2, <2>3
<1>6. QED
  BY <1>4, <1>5 DEF Cleared

(* The watches of the levels that stay, once nothing is queued.            *)
LEMMA CutKeepsWatches ==
  ASSUME IInv, NEW n \in 0 .. Len(trail_lim), qhead = Len(trail), todo = {}, Upto \in Int, n < Upto
  PROVE  WatchOK(CutAssigns(n), level, CutTrail(n), watches, clause, Len(CutTrail(n)), {}, n + 1)
<1>1. CutTo(assigns, level, reason, trail, trail_lim,
            CutAssigns(n), CutReasons(n), CutTrail(n), CutLims(n), n)
  BY CutState
<1>2. Typed(assigns, level, reason, trail, trail_lim, clause, watches, Cleared, problem)
  BY Between
<1>3. PointersOK(watches, clause) /\ WatchOK(assigns, level, trail, watches, clause, Len(trail), {}, Upto)
  BY SoundIs DEF IInv
<1>4. QED
  BY <1>1, <1>2, <1>3, WatchCut DEF Typed

(* With clauses without negation, too, nothing else becomes false.         *)
LEMMA CutPositive ==
  ASSUME NEW pb, NEW as, NEW lv, NEW rs, NEW tr, NEW tl, PositiveFacts(pb, lv, rs, tr),
         NEW bs, NEW qs, NEW br, NEW bl, NEW n, CutTo(as, lv, rs, tr, tl, bs, qs, br, bl, n)
  PROVE  PositiveFacts(pb, lv, qs, br)
<1>1. ASSUME NEW i \in 1 .. Len(br)
      PROVE  i \in 1 .. Len(tr) /\ br[i] = tr[i] /\ qs[var(br[i])] = rs[var(tr[i])]
  <2>1. Len(tr) \in Nat /\ Len(br) \in 0 .. Len(tr)
    BY DEF CutTo
  <2>2. br[i] = tr[i] /\ qs[var(tr[i])] = rs[var(tr[i])]
    BY DEF CutTo
  <2>3. QED
    BY <2>1, <2>2
<1>2. QED
  BY <1>1 DEF PositiveFacts

LEMMA QueueEmpty ==
  ASSUME NEW lv, NEW tr, NEW tl, Len(tr) \in Nat
  PROVE  QueueOK(lv, tr, tl, Len(tr), {})
BY DEF QueueOK

-----------------------------------------------------------------------------
(* Learn. The literals of the learnt clause after the cut, and the enqueue *)
(* of the asserting one, for whatever reason.                              *)

LEMMA LearnCut ==
  ASSUME IInv, at = "learn"
  PROVE  /\ out_btlevel \in 0 .. Len(trail_lim) /\ out_btlevel \in Nat
         /\ asserting \in Lit /\ CutAssigns(out_btlevel)[var(asserting)] = l_Undef
         /\ \A q \in Minimized : /\ q \in Lit /\ q # asserting /\ CutAssigns(out_btlevel)[var(q)] = - q
                                 /\ level[var(q)] \in 1 .. out_btlevel
         /\ Minimized # {} => \E q \in Minimized : level[var(q)] = out_btlevel
         /\ ImpliedBy(problem, Minimized \cup {asserting})
         /\ out_btlevel = 0 => ImpliedBy(problem, {asserting})
         /\ Minimized = {} => out_btlevel = 0
<1>1. /\ out_btlevel \in 0 .. Len(trail_lim) /\ out_btlevel < Len(trail_lim) /\ Len(trail_lim) \in Nat
      /\ asserting \in Lit /\ IsFalse(asserting) /\ level[var(asserting)] = Len(trail_lim)
      /\ Minimized \subseteq out_learnt
      /\ \A q \in out_learnt : /\ q \in Lit /\ IsFalse(q) /\ level[var(q)] \in 1 .. out_btlevel
                               /\ q # asserting
      /\ ImpliedBy(problem, Minimized \cup {asserting})
      /\ Minimized = {} => out_btlevel = 0
      /\ Minimized # {} => \E q \in Minimized : level[var(q)] = out_btlevel
  BY MinimizedIs
<1>2. /\ CutTo(assigns, level, reason, trail, trail_lim, CutAssigns(out_btlevel),
               CutReasons(out_btlevel), CutTrail(out_btlevel), CutLims(out_btlevel), out_btlevel)
      /\ \A x \in Var : assigns[x] # l_Undef /\ level[x] > out_btlevel
                          => CutAssigns(out_btlevel)[x] = l_Undef
  BY <1>1, CutState
<1>3. CutAssigns(out_btlevel)[var(asserting)] = l_Undef
  <2>1. /\ var(asserting) \in Var /\ assigns[var(asserting)] # l_Undef
        /\ level[var(asserting)] > out_btlevel
    BY <1>1, LitFacts DEF IsFalse, l_Undef
  <2>2. QED
    BY <1>2, <2>1
<1>4. ASSUME NEW q \in Minimized
      PROVE  /\ q \in Lit /\ q # asserting /\ CutAssigns(out_btlevel)[var(q)] = - q
             /\ level[var(q)] \in 1 .. out_btlevel
  <2>1. q \in Lit /\ IsFalse(q) /\ level[var(q)] \in 1 .. out_btlevel /\ q # asserting
    BY <1>1
  <2>2. var(q) \in Var /\ assigns[var(q)] = - q /\ assigns[var(q)] # l_Undef
    BY <2>1, LitFacts DEF IsFalse, l_Undef
  <2>3. level[var(q)] <= out_btlevel
    BY <1>1, <2>1
  <2>4. CutAssigns(out_btlevel)[var(q)] = assigns[var(q)]
    BY <1>2, <2>2, <2>3 DEF CutTo
  <2>5. QED
    BY <2>1, <2>2, <2>4
<1>5. out_btlevel = 0 => Minimized = {}
  BY <1>1
<1>6. out_btlevel = 0 => ImpliedBy(problem, {asserting})
  <2>1. Minimized = {} => Minimized \cup {asserting} = {asserting}
    OBVIOUS
  <2>2. QED
    BY <1>1, <1>5, <2>1
<1>7. QED
  BY <1>1, <1>3, <1>4, <1>6

LEMMA LearnPush ==
  ASSUME IInv, at = "learn", NEW from \in GClauses,
         cancelAndEnqueue(out_btlevel, asserting, from, out_btlevel)
  PROVE  /\ Pushed(CutAssigns(out_btlevel), level, CutReasons(out_btlevel), CutTrail(out_btlevel),
                   assigns', level', reason', trail', asserting, out_btlevel, from)
         /\ TrailOK(assigns', trail')
         /\ assigns' \in [Var -> Lit \cup {l_Undef}] /\ level' \in [Var -> Nat \cup {-1}]
         /\ reason' \in [Var -> GClauses] /\ trail' \in Seq(Lit)
         /\ trail_lim' = CutLims(out_btlevel) /\ qhead' = Len(CutTrail(out_btlevel))
         /\ order' = order \cup Undone(out_btlevel)
<1> DEFINE n == out_btlevel
<1>1. n \in 0 .. Len(trail_lim) /\ n \in Nat /\ asserting \in Lit /\ CutAssigns(n)[var(asserting)] = l_Undef
  BY LearnCut
<1>2. /\ Typed(CutAssigns(n), level, CutReasons(n), CutTrail(n), CutLims(n),
               clause, watches, Cleared, problem)
      /\ Sound(CutAssigns(n), level, CutReasons(n), CutTrail(n), CutLims(n),
               clause, watches, Cleared, problem)
      /\ Len(CutTrail(n)) = Kept(n)
  BY <1>1, CutState
<1>3. TrailOK(CutAssigns(n), CutTrail(n))
  BY <1>2, SoundIs
<1>4. /\ CutAssigns(n) \in [Var -> Lit \cup {l_Undef}] /\ level \in [Var -> Nat \cup {-1}]
      /\ CutReasons(n) \in [Var -> GClauses] /\ CutTrail(n) \in Seq(Lit)
  BY <1>2 DEF Typed
<1>5. var(asserting) \in Var
  BY <1>1, LitFacts
<1>6. assigns' = [CutAssigns(n) EXCEPT ![var(asserting)] = asserting]
  BY <1>5 DEF cancelAndEnqueue, CutAssigns
<1>7. reason' = [CutReasons(n) EXCEPT ![var(asserting)] = from]
  BY <1>5 DEF cancelAndEnqueue, CutReasons
<1>8. /\ level' = [level EXCEPT ![var(asserting)] = n] /\ trail' = Append(CutTrail(n), asserting)
      /\ trail_lim' = CutLims(n) /\ qhead' = Kept(n) /\ order' = order \cup Undone(n)
  BY DEF cancelAndEnqueue, CutTrail, CutLims, QueueFrom, undo
<1> HIDE DEF n
<1>9. Pushed(CutAssigns(n), level, CutReasons(n), CutTrail(n),
             assigns', level', reason', trail', asserting, n, from)
  BY <1>1, <1>3, <1>4, <1>6, <1>7, <1>8, PushIs
<1>10. TrailOK(assigns', trail')
  BY <1>1, <1>3, <1>4, <1>6, <1>8, TrailPush
<1>11. /\ assigns' \in [Var -> Lit \cup {l_Undef}] /\ level' \in [Var -> Nat \cup {-1}]
       /\ reason' \in [Var -> GClauses] /\ trail' \in Seq(Lit)
  <2>1. trail' \in Seq(Lit)
    BY <1>1, <1>4, <1>8, Appended
  <2>2. QED
    BY <1>1, <1>4, <1>5, <1>6, <1>7, <1>8, <2>1
<1>12. QED
  BY <1>2, <1>8, <1>9, <1>10, <1>11 DEF n

(* Whatever clause was learnt, if the watches and reasons are sound.       *)
LEMMA LearnBy ==
  ASSUME IInv, Learn, NEW from \in GClauses,
         cancelAndEnqueue(out_btlevel, asserting, from, out_btlevel),
         clause' \in [Address -> Clauses \cup {Free}],
         watches' \in [Lit -> SUBSET (GClauses \ {NULL})],
         Sound(assigns', level', reason', trail', trail_lim', clause', watches', Cleared, problem),
         WatchOK(assigns', level', trail', watches', clause', qhead', {}, out_btlevel + 1),
         ok => CoveredOK(assigns', level', clause', watches', problem)
  PROVE  IInv'
<1> DEFINE n == out_btlevel
<1>0. /\ at = "learn" /\ at' = "propagate" /\ seen' = {} /\ look' = {} /\ index' = 0
      /\ out_learnt' = {} /\ asserting' = 0
      /\ UNCHANGED <<input, problem, nVars, ok, todo, simpDB_assigns, model, upkeep>>
  BY DEF Learn, given
<1>1. n \in 0 .. Len(trail_lim) /\ n \in Nat /\ asserting \in Lit /\ CutAssigns(n)[var(asserting)] = l_Undef
  BY LearnCut, <1>0
<1>2. /\ Pushed(CutAssigns(n), level, CutReasons(n), CutTrail(n),
                assigns', level', reason', trail', asserting, n, from)
      /\ assigns' \in [Var -> Lit \cup {l_Undef}] /\ level' \in [Var -> Nat \cup {-1}]
      /\ reason' \in [Var -> GClauses] /\ trail' \in Seq(Lit)
      /\ trail_lim' = CutLims(n) /\ qhead' = Len(CutTrail(n))
      /\ order' = order \cup Undone(n)
  BY <1>0, LearnPush
<1>3. /\ Typed(CutAssigns(n), level, CutReasons(n), CutTrail(n), CutLims(n),
               clause, watches, Cleared, problem)
      /\ Undone(n) \subseteq Var /\ Len(CutLims(n)) = n
      /\ \A x \in Var : CutAssigns(n)[x] = l_Undef => assigns[x] = l_Undef \/ x \in Undone(n)
  BY <1>1, CutState
<1>4. /\ simpDB_assigns <= Len(CutTrail(n))
      /\ Cleared = {CutTrail(n)[i] : i \in 1 .. simpDB_assigns}
  BY <1>1, CutKeepsCleared
<1> HIDE DEF n
<1>5. /\ Len(CutTrail(n)) \in Nat /\ Len(trail') = Len(CutTrail(n)) + 1
      /\ \A i \in 1 .. Len(CutTrail(n)) : trail'[i] = CutTrail(n)[i]
  BY <1>2 DEF Pushed
<1>6. todo = {} /\ ok
  BY <1>0 DEF IInv, PhaseOK
<1>7. TypeOK'
  <2>1. /\ qhead' \in 0 .. Len(trail') /\ index' \in 0 .. Len(trail')
    BY <1>0, <1>2, <1>5
  <2>2. trail_lim' \in Seq(Nat)
    BY <1>2, <1>3 DEF Typed
  <2>3. order' \subseteq Var
    BY <1>2, <1>3 DEF IInv, TypeOK
  <2>4. /\ input' \in Seq(SUBSET Lit) /\ problem' \subseteq SUBSET Lit /\ nVars' \in 0 .. NVars
        /\ ok' \in BOOLEAN /\ upkeep' \in 0 .. MaxUpkeep /\ simpDB_assigns' \in Nat
        /\ model' \in [Var -> Lit \cup {l_Undef}]
    BY <1>0 DEF IInv, TypeOK
  <2>5. QED
    BY <1>0, <1>2, <1>6, <2>1, <2>2, <2>3, <2>4 DEF TypeOK
<1>8. Cleared' = Cleared
  <2>1. simpDB_assigns \in Nat
    BY DEF IInv, TypeOK
  <2>2. \A i \in 1 .. simpDB_assigns : trail'[i] = CutTrail(n)[i]
    BY <1>4, <1>5, <2>1
  <2>3. QED
    BY <1>0, <1>4, <2>2 DEF Cleared
<1>9. Sound(assigns', level', reason', trail', trail_lim', clause', watches', Cleared', problem')
  BY <1>0, <1>8
<1>10. QueueOK(level', trail', trail_lim', qhead', todo')
  <2>1. QueueOK(level, CutTrail(n), CutLims(n), Len(CutTrail(n)), {})
    BY <1>5, QueueEmpty
  <2>2. QueueOK(level', trail', CutLims(n), Len(CutTrail(n)), {})
    BY <1>2, <1>3, <2>1, QueuePush
  <2>3. QED
    BY <1>0, <1>2, <1>6, <2>2
<1>11. HeapOK(assigns', nVars', order')
  <2>1. nVars \in 0 .. NVars
    BY DEF IInv, TypeOK
  <2>2. 1 .. nVars \subseteq Var
    BY <2>1, SolverAssumption DEF Var
  <2>3. ASSUME NEW x \in 1 .. nVars, assigns'[x] = l_Undef PROVE x \in order'
    <3>1. x \in Var /\ x # var(asserting)
      BY <1>2, <2>2, <2>3, LitFacts DEF Pushed, l_Undef
    <3>2. CutAssigns(n)[x] = l_Undef
      BY <1>2, <2>3, <3>1 DEF Pushed
    <3>3. CASE x \in Undone(n)
      BY <1>2, <3>3
    <3>4. CASE assigns[x] = l_Undef
      BY <1>0, <1>2, <3>4 DEF IInv, HeapOK
    <3>5. QED
      BY <1>3, <3>1, <3>2, <3>3, <3>4
  <2>4. QED
    BY <1>0, <2>3 DEF HeapOK
<1>12. TodoOK(watches', trail', qhead', todo')
  BY <1>0, <1>6 DEF TodoOK
<1>13. WatchOK(assigns', level', trail', watches', clause', qhead', todo', Upto')
  <2>1. Upto' = n + 1
    BY <1>0, <1>2, <1>3 DEF Upto, decisionLevel
  <2>2. QED
    BY <1>0, <1>6, <2>1 DEF n
<1>14. AnalysisOK'
  BY <1>0, NoAnalysis
<1>15. PhaseOK'
  <2>1. simpDB_assigns' <= Len(trail')
    <3>1. simpDB_assigns \in Nat
      BY DEF IInv, TypeOK
    <3>2. QED
      BY <1>0, <1>4, <1>5, <3>1
  <2>2. QED
    BY <1>0, <1>6, <2>1 DEF IInv, PhaseOK
<1>16. PositiveOK'
  <2>1. ~ IsPositive
    BY <1>0 DEF IInv, PositiveOK
  <2>2. QED
    BY <1>0, <2>1 DEF IsPositive, PositiveOK
<1>17. QED
  BY <1>0, <1>7, <1>9, <1>10, <1>11, <1>12, <1>13, <1>14, <1>15, <1>16 DEF IInv

LEMMA LearnKeeps ==
  ASSUME IInv, at = "learn", NEW from \in GClauses,
         cancelAndEnqueue(out_btlevel, asserting, from, out_btlevel)
  PROVE  /\ WatchOK(assigns', level', trail', watches, clause, qhead', {}, out_btlevel + 1)
         /\ ok => CoveredOK(assigns', level', clause, watches, problem)
         /\ \A cl, wt : Typed(CutAssigns(out_btlevel), level, CutReasons(out_btlevel),
                              CutTrail(out_btlevel), CutLims(out_btlevel), cl, wt, Cleared, problem)
              => Typed(assigns', level', reason', trail', trail_lim', cl, wt, Cleared, problem)
<1> DEFINE n == out_btlevel
<1>1. n \in 0 .. Len(trail_lim) /\ n \in Nat
  BY LearnCut
<1>2. /\ Pushed(CutAssigns(n), level, CutReasons(n), CutTrail(n),
                assigns', level', reason', trail', asserting, n, from)
      /\ assigns' \in [Var -> Lit \cup {l_Undef}] /\ level' \in [Var -> Nat \cup {-1}]
      /\ reason' \in [Var -> GClauses] /\ trail' \in Seq(Lit)
      /\ trail_lim' = CutLims(n) /\ qhead' = Len(CutTrail(n))
  BY LearnPush
<1>3. /\ Typed(CutAssigns(n), level, CutReasons(n), CutTrail(n), CutLims(n),
               clause, watches, Cleared, problem)
      /\ Sound(CutAssigns(n), level, CutReasons(n), CutTrail(n), CutLims(n),
               clause, watches, Cleared, problem)
      /\ Len(CutLims(n)) = n /\ Len(CutTrail(n)) = Kept(n)
      /\ ok => CoveredOK(CutAssigns(n), level, clause, watches, problem)
  BY <1>1, CutState
<1>4. WatchOK(CutAssigns(n), level, CutTrail(n), watches, clause, Len(CutTrail(n)), {}, n + 1)
  <2>1. Upto = Len(trail_lim) /\ Len(trail_lim) \in Nat /\ n < Len(trail_lim)
    BY MinimizedIs DEF Upto, decisionLevel
  <2>2. qhead = Len(trail) /\ todo = {}
    BY DEF IInv, PhaseOK
  <2>3. QED
    BY <1>1, <2>1, <2>2, CutKeepsWatches
<1> HIDE DEF n
<1>5. PointersOK(watches, clause)
  BY <1>3, SoundIs
<1>6. Len(CutTrail(n)) \in 0 .. Len(CutTrail(n))
  BY <1>2 DEF Pushed
<1>7. WatchOK(assigns', level', trail', watches, clause, Len(CutTrail(n)), {}, n + 1)
  BY <1>2, <1>3, <1>4, <1>5, <1>6, WatchPush DEF Typed
<1>8. ASSUME ok PROVE CoveredOK(assigns', level', clause, watches, problem)
  <2>1. RootsKept(CutAssigns(n), level, CutReasons(n), assigns', level', reason')
    BY <1>2, PushKeepsRoots
  <2>2. QED
    BY <1>3, <1>8, <2>1, CoveredAssign DEF Typed
<1>9. \A cl, wt : Typed(CutAssigns(n), level, CutReasons(n), CutTrail(n), CutLims(n), cl, wt, Cleared, problem)
              => Typed(assigns', level', reason', trail', trail_lim', cl, wt, Cleared, problem)
  BY <1>2 DEF Typed
<1>10. QED
  BY <1>2, <1>7, <1>8, <1>9 DEF n

(* The literals of the clause are not those of the cleared lists.          *)
LEMMA LearnOutside ==
  ASSUME IInv, at = "learn", NEW q \in Minimized \cup {asserting}
  PROVE  q \notin Cleared /\ - q \notin Cleared
<1>1. q \in Lit /\ level[var(q)] > 0 /\ level[var(q)] \in Nat
  BY MinimizedIs
<1>2. SweptOK(assigns, level, reason, clause, watches, Cleared)
  BY SoundIs DEF IInv
<1>3. level[var(- q)] = level[var(q)]
  BY <1>1, LitFacts
<1>4. QED
  BY <1>1, <1>2, <1>3 DEF SweptOK

LEMMA LearnUnitStep ==
  ASSUME IInv, Learn, LearnUnit
  PROVE  IInv'
<1> DEFINE n == out_btlevel
<1>1. /\ n \in 0 .. Len(trail_lim) /\ n \in Nat /\ asserting \in Lit
      /\ n = 0 /\ ImpliedBy(problem, {asserting}) /\ at = "learn"
  BY LearnCut DEF LearnUnit, Learn
<1>2. /\ cancelAndEnqueue(n, asserting, NULL, n) /\ clause' = clause /\ watches' = watches
      /\ NULL \in GClauses
  BY <1>1 DEF LearnUnit, GClauses
<1>3. /\ Pushed(CutAssigns(n), level, CutReasons(n), CutTrail(n),
                assigns', level', reason', trail', asserting, n, NULL)
      /\ TrailOK(assigns', trail') /\ trail_lim' = CutLims(n)
  BY <1>1, <1>2, LearnPush
<1>4. /\ Typed(CutAssigns(n), level, CutReasons(n), CutTrail(n), CutLims(n),
               clause, watches, Cleared, problem)
      /\ Sound(CutAssigns(n), level, CutReasons(n), CutTrail(n), CutLims(n),
               clause, watches, Cleared, problem)
      /\ Len(CutLims(n)) = n
  BY <1>1, CutState
<1>5. /\ WatchOK(assigns', level', trail', watches, clause, qhead', {}, n + 1)
      /\ ok => CoveredOK(assigns', level', clause, watches, problem)
      /\ Typed(assigns', level', reason', trail', trail_lim', clause, watches, Cleared, problem)
  BY <1>1, <1>2, <1>4, LearnKeeps
<1> HIDE DEF n
<1>6. Sound(assigns', level', reason', trail', CutLims(n), clause, watches, Cleared, problem)
  <2>1. NULL # NULL => Unit(CutAssigns(n), level, clause, NULL, asserting, Len(CutLims(n)))
    OBVIOUS
  <2>2. NULL[1] = "lit" => ImpliedBy(problem, {asserting, - NULL[2]})
    BY TagsDiffer
  <2>3. Len(CutLims(n)) = 0 => ImpliedBy(problem, {asserting})
    BY <1>1
  <2>4. NULL = NULL => Len(CutLims(n)) = 0
    BY <1>1, <1>4
  <2>5. Pushed(CutAssigns(n), level, CutReasons(n), CutTrail(n),
                assigns', level', reason', trail', asserting, Len(CutLims(n)), NULL)
    BY <1>3, <1>4
  <2>6. Typed(assigns', level', reason', trail', CutLims(n), clause, watches, Cleared, problem)
    BY <1>3, <1>5
  <2>7. /\ Sound(CutAssigns(n), level, CutReasons(n), CutTrail(n), CutLims(n),
                 clause, watches, Cleared, problem)
        /\ TrailOK(assigns', trail')
    BY <1>3, <1>4
  <2>8. QED
    BY <2>1, <2>2, <2>3, <2>4, <2>5, <2>6, <2>7, SoundPush, Zenon
<1>7. QED
  <2>1. /\ clause' \in [Address -> Clauses \cup {Free}]
        /\ watches' \in [Lit -> SUBSET (GClauses \ {NULL})]
    BY <1>2, <1>5 DEF Typed
  <2>2. Sound(assigns', level', reason', trail', trail_lim', clause', watches', Cleared, problem)
    BY <1>2, <1>3, <1>6
  <2>3. WatchOK(assigns', level', trail', watches', clause', qhead', {}, out_btlevel + 1)
    BY <1>2, <1>5 DEF n
  <2>4. ok => CoveredOK(assigns', level', clause', watches', problem)
    BY <1>2, <1>5
  <2>5. cancelAndEnqueue(out_btlevel, asserting, NULL, out_btlevel)
    BY <1>2 DEF n
  <2>6. QED
    BY <1>2, <2>1, <2>2, <2>3, <2>4, <2>5, LearnBy

LEMMA LitsFinite == IsFiniteSet(Lit) /\ \A S \in SUBSET Lit : IsFiniteSet(S)
<1>1. NVars \in Int /\ - NVars \in Int
  BY SolverAssumption
<1>2. IsFiniteSet(- NVars .. NVars)
  BY <1>1, FS_Interval
<1>3. Lit \in SUBSET (- NVars .. NVars)
  BY SolverAssumption DEF Lit, Var
<1>4. IsFiniteSet(Lit)
  BY <1>2, <1>3, FS_Subset
<1>5. QED
  BY <1>4, FS_Subset

(* The asserting literal and one of the level gone back to may be watched. *)
LEMMA LearnMayWatch ==
  ASSUME NEW as, NEW lv, NEW rs, NEW tr, NEW bs, NEW mv, NEW qs, NEW br, NEW p, NEW l, NEW r,
         Pushed(as, lv, rs, tr, bs, mv, qs, br, p, l, r), l \in Int,
         NEW q \in Lit, q # p, as[var(q)] = - q, lv[var(q)] = l
  PROVE  WatchesMayBe(bs, mv, br, Len(tr), p, q)
<1>1. ASSUME NEW i \in 1 .. Len(br), i <= Len(tr) PROVE br[i] # - p
  <2>1. i \in 1 .. Len(tr) /\ p \in Lit
    BY <1>1 DEF Pushed
  <2>2. var(br[i]) # var(p) /\ var(- p) = var(p)
    BY <2>1, LitFacts DEF Pushed
  <2>3. QED
    BY <2>2
<1>2. bs[var(p)] = p /\ mv[var(p)] = l /\ p \in Lit
  BY DEF Pushed
<1>3. mv[var(q)] = l
  BY <1>2, LitFacts DEF Pushed
<1>4. l <= l
  OBVIOUS
<1>5. QED
  BY <1>1, <1>2, <1>3, <1>4 DEF WatchesMayBe

LEMMA LearnBinaryStep ==
  ASSUME IInv, Learn, LearnBinary
  PROVE  IInv'
<1> DEFINE n == out_btlevel
           p == asserting
<1>1. PICK q \in Minimized : /\ WatchBinary(p, q)
                             /\ cancelAndEnqueue(n, p, Literal(- q), n)
  BY DEF LearnBinary
<1>2. /\ n \in 0 .. Len(trail_lim) /\ n \in Nat /\ p \in Lit /\ CutAssigns(n)[var(p)] = l_Undef
      /\ q \in Lit /\ q # p /\ CutAssigns(n)[var(q)] = - q /\ level[var(q)] \in 1 .. n
      /\ \E r \in Minimized : level[var(r)] = n
      /\ ImpliedBy(problem, Minimized \cup {p}) /\ at = "learn"
  BY LearnCut DEF Learn
<1>3. Minimized = {q}
  <2>1. Minimized \subseteq Lit
    BY <1>2, LearnCut
  <2>2. IsFiniteSet(Minimized) /\ Cardinality(Minimized) = 1
    BY <2>1, LitsFinite DEF LearnBinary
  <2>3. QED
    BY <2>2, FS_Singleton
<1>4. level[var(q)] = n /\ ImpliedBy(problem, {p, q})
  <2>1. Minimized \cup {p} = {p, q}
    BY <1>3
  <2>2. QED
    BY <1>2, <1>3, <2>1
<1>5. - q \in Lit /\ - (- q) = q /\ Literal(- q) \in GClauses /\ var(- q) = var(q) /\ var(q) \in Var
  BY <1>2, LitFacts DEF GClauses
<1>6. /\ Pushed(CutAssigns(n), level, CutReasons(n), CutTrail(n),
                assigns', level', reason', trail', p, n, Literal(- q))
      /\ TrailOK(assigns', trail') /\ trail_lim' = CutLims(n) /\ qhead' = Len(CutTrail(n))
      /\ trail' \in Seq(Lit)
  BY <1>1, <1>2, <1>5, LearnPush
<1>7. /\ Typed(CutAssigns(n), level, CutReasons(n), CutTrail(n), CutLims(n),
               clause, watches, Cleared, problem)
      /\ Sound(CutAssigns(n), level, CutReasons(n), CutTrail(n), CutLims(n),
               clause, watches, Cleared, problem)
      /\ Len(CutLims(n)) = n
  BY <1>2, CutState
<1>8. /\ WatchOK(assigns', level', trail', watches, clause, qhead', {}, n + 1)
      /\ ok => CoveredOK(assigns', level', clause, watches, problem)
      /\ Typed(assigns', level', reason', trail', trail_lim', clause, watches, Cleared, problem)
  BY <1>1, <1>2, <1>5, <1>7, LearnKeeps
<1>9. p \notin Cleared /\ - p \notin Cleared /\ q \notin Cleared /\ - q \notin Cleared
  BY <1>2, LearnOutside
<1>10. clause' = clause /\ WatchBinary(p, q)
  BY <1>1 DEF LearnBinary
<1> HIDE DEF n, p
<1>11. watches \in [Lit -> SUBSET (GClauses \ {NULL})] /\ problem \in SUBSET SUBSET Lit
  BY <1>7 DEF Typed
<1>12. BinaryTo(watches, watches', p, q) /\ watches' \in [Lit -> SUBSET (GClauses \ {NULL})]
  <2>1. - p \in Lit /\ - q \in Lit /\ - p # - q
    BY <1>2, LitFacts
  <2>2. Literal(p) \in GClauses \ {NULL} /\ Literal(q) \in GClauses \ {NULL}
    BY <1>2, TagsDiffer DEF GClauses
  <2>3. watches' = [watches EXCEPT ![- p] = @ \cup {Literal(q)}, ![- q] = @ \cup {Literal(p)}]
    BY <1>10 DEF WatchBinary
  <2>4. QED
    BY <1>2, <1>11, <2>1, <2>2, <2>3 DEF BinaryTo
<1>13. Sound(assigns', level', reason', trail', CutLims(n), clause, watches, Cleared, problem)
  <2>1. Literal(- q)[1] = "lit" /\ Literal(- q)[2] = - q /\ Literal(- q) # NULL
    BY TagsDiffer
  <2>2. Unit(CutAssigns(n), level, clause, Literal(- q), p, Len(CutLims(n)))
    <3>1. OthersIn(Literal(- q), clause) = {- q}
      BY <2>1 DEF OthersIn
    <3>2. CutAssigns(n)[var(- q)] = - q /\ - q # l_Undef
      BY <1>2, <1>5, LitFacts DEF l_Undef
    <3>3. QED
      BY <1>4, <1>5, <1>7, <2>1, <3>1, <3>2 DEF Unit
  <2>3. Literal(- q)[1] = "lit" => ImpliedBy(problem, {p, - Literal(- q)[2]})
    BY <1>4, <1>5, <2>1
  <2>4. Len(CutLims(n)) = 0 => ImpliedBy(problem, {p})
    BY <1>2, <1>7
  <2>5. Literal(- q) = NULL => Len(CutLims(n)) = 0
    BY <2>1
  <2>6. Pushed(CutAssigns(n), level, CutReasons(n), CutTrail(n),
               assigns', level', reason', trail', p, Len(CutLims(n)), Literal(- q))
    BY <1>6, <1>7
  <2>7. Typed(assigns', level', reason', trail', CutLims(n), clause, watches, Cleared, problem)
    BY <1>6, <1>8
  <2>8. /\ Sound(CutAssigns(n), level, CutReasons(n), CutTrail(n), CutLims(n),
                 clause, watches, Cleared, problem)
        /\ TrailOK(assigns', trail')
    BY <1>6, <1>7
  <2>9. QED
    BY <2>2, <2>3, <2>4, <2>5, <2>6, <2>7, <2>8, SoundPush, Zenon
<1>14. Typed(assigns', level', reason', trail', CutLims(n), clause, watches', Cleared, problem)
  BY <1>6, <1>8, <1>12 DEF Typed
<1>15. Sound(assigns', level', reason', trail', CutLims(n), clause, watches', Cleared, problem)
  BY <1>4, <1>9, <1>12, <1>13, <1>14, SoundBinary
<1>16. WatchOK(assigns', level', trail', watches', clause, qhead', {}, n + 1)
  <2>1. WatchesMayBe(assigns', level', trail', Len(CutTrail(n)), p, q)
    BY <1>2, <1>4, <1>6, LearnMayWatch
  <2>2. QED
    BY <1>6, <1>8, <1>12, <2>1, BinaryWatches
<1>17. ASSUME ok PROVE CoveredOK(assigns', level', clause, watches', problem)
  BY <1>8, <1>11, <1>12, <1>17, BinaryParts, CoveredKept
<1>18. QED
  <2>1. /\ clause' \in [Address -> Clauses \cup {Free}]
        /\ watches' \in [Lit -> SUBSET (GClauses \ {NULL})]
    BY <1>8, <1>10, <1>12 DEF Typed
  <2>2. Sound(assigns', level', reason', trail', trail_lim', clause', watches', Cleared, problem)
    BY <1>6, <1>10, <1>15
  <2>3. WatchOK(assigns', level', trail', watches', clause', qhead', {}, out_btlevel + 1)
    BY <1>10, <1>16 DEF n
  <2>4. ok => CoveredOK(assigns', level', clause', watches', problem)
    BY <1>10, <1>17
  <2>5. cancelAndEnqueue(out_btlevel, asserting, Literal(- q), out_btlevel)
    BY <1>1 DEF n, p
  <2>6. QED
    BY <1>5, <2>1, <2>2, <2>3, <2>4, <2>5, LearnBy

(* A clause can be allocated where none is.                                *)
LEMMA AddressIs ==
  ASSUME IInv, Allocated # Address
  PROVE  NextAddress \in Address /\ clause[NextAddress] = Free
<1>1. \E c \in Address : clause[c] = Free
  BY DEF Allocated
<1>2. QED
  BY <1>1 DEF NextAddress

LEMMA AllocateIs ==
  ASSUME NEW c \in Address, clause[c] = Free, NEW ln \in BOOLEAN, NEW p \in Lit, NEW q \in Lit,
         NEW rest \in SUBSET Lit, p # q, p \notin rest, q \notin rest,
         clause \in [Address -> Clauses \cup {Free}],
         watches \in [Lit -> SUBSET (GClauses \ {NULL})],
         Allocate(c, ln, p, q, rest)
  PROVE  /\ AllocateTo(clause, watches, clause', watches', c, ln, p, q, rest)
         /\ clause' \in [Address -> Clauses \cup {Free}]
         /\ watches' \in [Lit -> SUBSET (GClauses \ {NULL})]
         /\ clause'[c] # Free /\ clause'[c].first = p /\ clause'[c].second = q /\ clause'[c].rest = rest
<1> DEFINE k == [learnt |-> ln, first |-> p, second |-> q, rest |-> rest]
<1>1. k \in Clauses /\ k.learnt = ln /\ k.first = p /\ k.second = q /\ k.rest = rest
  BY DEF Clauses
<1>2. k # Free
  <2>1. k.first # 0
    BY <1>1, LitFacts
  <2>2. Free.first = 0
    BY DEF Free
  <2>3. QED
    BY <2>1, <2>2
<1>3. /\ clause' = [clause EXCEPT ![c] = k]
      /\ watches' = [watches EXCEPT ![- p] = @ \cup {Pointer(c)}, ![- q] = @ \cup {Pointer(c)}]
  BY DEF Allocate
<1> HIDE DEF k
<1>4. clause'[c] = k /\ \A d \in Address : d # c => clause'[d] = clause[d]
  BY <1>3
<1>5. clause' \in [Address -> Clauses \cup {Free}]
  BY <1>1, <1>3
<1>6. - p \in Lit /\ - q \in Lit /\ - p # - q
  BY LitFacts
<1>7. Pointer(c) \in GClauses \ {NULL}
  BY TagsDiffer DEF GClauses
<1>8. watches' \in [Lit -> SUBSET (GClauses \ {NULL})]
  BY <1>3, <1>6, <1>7
<1>9. \A r \in Lit : watches'[r] = IF r \in {- p, - q} THEN watches[r] \cup {Pointer(c)} ELSE watches[r]
  BY <1>3, <1>6
<1>10. QED
  BY <1>1, <1>2, <1>4, <1>5, <1>8, <1>9 DEF AllocateTo

LEMMA LearnLongStep ==
  ASSUME IInv, Learn, LearnLong
  PROVE  IInv'
<1> DEFINE n == out_btlevel
           p == asserting
           c == NextAddress
<1>1. PICK q \in Highest : Allocate(c, TRUE, p, q, Minimized \ {q})
  BY DEF LearnLong
<1>2. /\ n \in 0 .. Len(trail_lim) /\ n \in Nat /\ p \in Lit /\ CutAssigns(n)[var(p)] = l_Undef
      /\ \A r \in Minimized : /\ r \in Lit /\ r # p /\ CutAssigns(n)[var(r)] = - r
                              /\ level[var(r)] \in 1 .. n
      /\ ImpliedBy(problem, Minimized \cup {p}) /\ at = "learn"
      /\ Minimized # {} => \E r \in Minimized : level[var(r)] = n
      /\ n = 0 => ImpliedBy(problem, {p})
  BY LearnCut DEF Learn
<1>3. q \in Minimized /\ q \in Lit /\ q # p /\ level[var(q)] = n /\ CutAssigns(n)[var(q)] = - q
  <2>1. q \in Minimized /\ \A r \in Minimized : level[var(r)] <= level[var(q)]
    BY <1>1 DEF Highest
  <2>2. PICK r \in Minimized : level[var(r)] = n
    BY <1>2, <2>1
  <2>3. level[var(q)] \in 1 .. n /\ n <= level[var(q)]
    BY <1>2, <2>1, <2>2
  <2>4. QED
    BY <1>2, <2>1, <2>3
<1>4. c \in Address /\ clause[c] = Free
  BY AddressIs DEF LearnLong
<1>5. cancelAndEnqueue(n, p, Pointer(c), n)
  BY DEF LearnLong
<1>6. /\ Typed(CutAssigns(n), level, CutReasons(n), CutTrail(n), CutLims(n),
               clause, watches, Cleared, problem)
      /\ Sound(CutAssigns(n), level, CutReasons(n), CutTrail(n), CutLims(n),
               clause, watches, Cleared, problem)
      /\ Len(CutLims(n)) = n
  BY <1>2, CutState
<1>7. \A r \in Minimized \cup {p} : r \notin Cleared /\ - r \notin Cleared
  BY <1>2, LearnOutside
<1> HIDE DEF n, p, c
<1>8. /\ clause \in [Address -> Clauses \cup {Free}] /\ problem \in SUBSET SUBSET Lit
      /\ watches \in [Lit -> SUBSET (GClauses \ {NULL})]
  BY <1>6 DEF Typed
<1> DEFINE rest == Minimized \ {q}
<1>9. /\ rest \in SUBSET Lit /\ p \notin rest /\ q \notin rest /\ {p, q} \cup rest = Minimized \cup {p}
      /\ {q} \cup rest = Minimized
  BY <1>2, <1>3
<1>10. /\ AllocateTo(clause, watches, clause', watches', c, TRUE, p, q, rest)
       /\ clause' \in [Address -> Clauses \cup {Free}]
       /\ watches' \in [Lit -> SUBSET (GClauses \ {NULL})]
       /\ clause'[c] # Free /\ clause'[c].first = p /\ clause'[c].second = q /\ clause'[c].rest = rest
  <2>1. Allocate(c, TRUE, p, q, rest) /\ p # q /\ TRUE \in BOOLEAN /\ p \in Lit /\ q \in Lit
    BY <1>1, <1>2, <1>3 DEF rest
  <2>2. rest \in SUBSET Lit /\ p \notin rest /\ q \notin rest
    BY <1>9
  <2>3. QED
    BY <1>4, <1>8, <2>1, <2>2, AllocateIs, Zenon
<1> HIDE DEF rest
<1>11. Outside(Cleared, p, q, rest)
  BY <1>3, <1>7, <1>9 DEF Outside
<1>12. ImpliedBy(problem, {p, q} \cup rest)
  BY <1>2, <1>9
<1>13. Typed(CutAssigns(n), level, CutReasons(n), CutTrail(n), CutLims(n),
             clause', watches', Cleared, problem)
  BY <1>6, <1>10 DEF Typed
<1>14. Sound(CutAssigns(n), level, CutReasons(n), CutTrail(n), CutLims(n),
             clause', watches', Cleared, problem)
  BY <1>6, <1>10, <1>11, <1>12, <1>13, SoundAllocate
<1>15. Pointer(c) \in GClauses
  BY <1>4 DEF GClauses
<1>16. cancelAndEnqueue(out_btlevel, asserting, Pointer(c), out_btlevel) /\ at = "learn"
  BY <1>2, <1>5 DEF n, p
<1>17. /\ Pushed(CutAssigns(n), level, CutReasons(n), CutTrail(n),
                 assigns', level', reason', trail', p, n, Pointer(c))
       /\ TrailOK(assigns', trail') /\ trail_lim' = CutLims(n) /\ qhead' = Len(CutTrail(n))
       /\ trail' \in Seq(Lit)
  BY <1>15, <1>16, LearnPush DEF n, p
<1>18. /\ WatchOK(assigns', level', trail', watches, clause, qhead', {}, n + 1)
       /\ ok => CoveredOK(assigns', level', clause, watches, problem)
       /\ Typed(assigns', level', reason', trail', trail_lim', clause', watches', Cleared, problem)
  BY <1>13, <1>15, <1>16, LearnKeeps DEF n
<1>19. Sound(assigns', level', reason', trail', CutLims(n), clause', watches', Cleared, problem)
  <2>1. Pointer(c)[1] = "clause" /\ Pointer(c)[2] = c /\ Pointer(c) # NULL
    BY TagsDiffer
  <2>2. Unit(CutAssigns(n), level, clause', Pointer(c), p, Len(CutLims(n)))
    <3>1. OthersIn(Pointer(c), clause') = Minimized
      BY <1>9, <1>10, <2>1 DEF OthersIn
    <3>2. \A r \in Minimized : var(r) \in Var /\ CutAssigns(n)[var(r)] # l_Undef
      BY <1>2, LitFacts DEF l_Undef
    <3>3. QED
      BY <1>2, <1>3, <1>6, <1>10, <2>1, <3>1, <3>2 DEF Unit
  <2>3. Pointer(c)[1] = "lit" => ImpliedBy(problem, {p, - Pointer(c)[2]})
    BY <2>1
  <2>4. Len(CutLims(n)) = 0 => ImpliedBy(problem, {p})
    BY <1>2, <1>6
  <2>5. Pointer(c) = NULL => Len(CutLims(n)) = 0
    BY <2>1
  <2>6. Pushed(CutAssigns(n), level, CutReasons(n), CutTrail(n),
               assigns', level', reason', trail', p, Len(CutLims(n)), Pointer(c))
    BY <1>6, <1>17
  <2>7. Typed(assigns', level', reason', trail', CutLims(n), clause', watches', Cleared, problem)
    BY <1>17, <1>18
  <2>8. TrailOK(assigns', trail')
    BY <1>17
  <2>9. QED
    BY <1>14, <2>2, <2>3, <2>4, <2>5, <2>6, <2>7, <2>8, SoundPush, Zenon
<1>20. WatchOK(assigns', level', trail', watches', clause', qhead', {}, n + 1)
  <2>1. WatchesMayBe(assigns', level', trail', Len(CutTrail(n)), p, q)
    BY <1>2, <1>3, <1>17, LearnMayWatch
  <2>2. PointersOK(watches, clause)
    BY <1>6, SoundIs
  <2>3. WatchOK(assigns', level', trail', watches, clause, Len(CutTrail(n)), {}, n + 1)
    BY <1>17, <1>18
  <2>4. AllocateTo(clause, watches, clause', watches', c, TRUE, p, q, rest)
    BY <1>10
  <2>5. WatchOK(assigns', level', trail', watches', clause', Len(CutTrail(n)), {}, n + 1)
    BY <1>8, <1>17, <2>1, <2>2, <2>3, <2>4, AllocateWatches, Zenon
  <2>6. QED
    BY <1>17, <2>5
<1>21. ASSUME ok PROVE CoveredOK(assigns', level', clause', watches', problem)
  <2>1. StillThere(clause, watches, clause', watches')
    <3>1. AllocateTo(clause, watches, clause', watches', c, TRUE, p, q, rest)
      BY <1>10
    <3>2. QED
      BY <3>1, AllocateParts, Zenon
  <2>2. CoveredOK(assigns', level', clause, watches, problem)
    BY <1>18, <1>21
  <2>3. QED
    BY <1>8, <2>1, <2>2, CoveredKept
<1>22. QED
  <2>1. WatchOK(assigns', level', trail', watches', clause', qhead', {}, out_btlevel + 1)
    BY <1>20 DEF n
  <2>2. Sound(assigns', level', reason', trail', trail_lim', clause', watches', Cleared, problem)
    BY <1>17, <1>19
  <2>3. ok => CoveredOK(assigns', level', clause', watches', problem)
    BY <1>21
  <2>4. QED
    BY <1>10, <1>15, <1>16, <2>1, <2>2, <2>3, LearnBy

LEMMA LearnStep ==
  ASSUME IInv, Learn
  PROVE  IInv'
BY LearnUnitStep, LearnBinaryStep, LearnLongStep DEF Learn

-----------------------------------------------------------------------------
(* Restart and ModelFound go back to the root.                             *)

LEMMA BackToRoot ==
  ASSUME IInv, at \in {"propagate", "decide"}, Quiet, NEW heap \in SUBSET Var, cancelUntil(0, heap),
         at' \in {"propagate", "satisfiable"}, at' = "propagate" => heap = order,
         UNCHANGED <<given, ok, database, todo, analysis>>,
         model' \in [Var -> Lit \cup {l_Undef}], upkeep' \in 0 .. MaxUpkeep
  PROVE  IInv'
<1>0. /\ todo = {} /\ qhead = Len(trail)
      /\ UNCHANGED <<input, problem, nVars, ok, clause, watches, simpDB_assigns, todo, level,
                     seen, look, index, out_learnt, asserting>>
  BY DEF Quiet, given, database, analysis, cancelUntil
<1>1. Len(trail_lim) \in Nat /\ 0 \in 0 .. Len(trail_lim) /\ Upto \in Int /\ 0 < Upto
  <2>1. Len(trail_lim) \in Nat /\ decisionLevel = Len(trail_lim)
    BY Between
  <2>2. Upto = Len(trail_lim) + 1
    BY <2>1 DEF Upto
  <2>3. QED
    BY <2>1, <2>2
<1>2. /\ CutTo(assigns, level, reason, trail, trail_lim,
               CutAssigns(0), CutReasons(0), CutTrail(0), CutLims(0), 0)
      /\ Typed(CutAssigns(0), level, CutReasons(0), CutTrail(0), CutLims(0),
               clause, watches, Cleared, problem)
      /\ Sound(CutAssigns(0), level, CutReasons(0), CutTrail(0), CutLims(0),
               clause, watches, Cleared, problem)
      /\ Kept(0) \in 0 .. Len(trail) /\ Len(CutTrail(0)) = Kept(0) /\ Len(CutLims(0)) = 0
      /\ ok => CoveredOK(CutAssigns(0), level, clause, watches, problem)
      /\ Undone(0) \subseteq Var
      /\ \A x \in Var : CutAssigns(0)[x] = l_Undef => assigns[x] = l_Undef \/ x \in Undone(0)
  BY <1>1, CutState
<1>3. simpDB_assigns <= Len(CutTrail(0)) /\ Cleared = {CutTrail(0)[i] : i \in 1 .. simpDB_assigns}
  BY <1>1, CutKeepsCleared
<1>4. WatchOK(CutAssigns(0), level, CutTrail(0), watches, clause, Len(CutTrail(0)), {}, 0 + 1)
  BY <1>0, <1>1, CutKeepsWatches
<1>5. /\ assigns' = CutAssigns(0) /\ reason' = CutReasons(0) /\ trail' = CutTrail(0)
      /\ trail_lim' = CutLims(0) /\ qhead' = Len(CutTrail(0)) /\ order' = heap \cup Undone(0)
  BY <1>2 DEF cancelUntil, CutAssigns, CutReasons, CutTrail, CutLims, QueueFrom, undo
<1>6. Len(CutTrail(0)) \in Nat /\ Cleared' = Cleared
  <2>1. Len(trail) \in Nat
    BY Between
  <2>2. Cleared' = {CutTrail(0)[i] : i \in 1 .. simpDB_assigns}
    BY <1>0, <1>5 DEF Cleared
  <2>3. QED
    BY <1>2, <1>3, <2>1, <2>2
<1>7. seen = {} /\ out_learnt = {} /\ index = 0
  BY NotAnalyzing
<1>8. TypeOK'
  <2>1. /\ assigns' \in [Var -> Lit \cup {l_Undef}] /\ reason' \in [Var -> GClauses]
        /\ trail' \in Seq(Lit) /\ trail_lim' \in Seq(Nat)
    BY <1>2, <1>5 DEF Typed
  <2>2. qhead' \in 0 .. Len(trail') /\ order' \subseteq Var
    BY <1>2, <1>5, <1>6
  <2>3. index' \in 0 .. Len(trail')
    BY <1>0, <1>5, <1>6, <1>7
  <2>4. QED
    BY <1>0, <2>1, <2>2, <2>3 DEF IInv, TypeOK
<1>9. Sound(assigns', level', reason', trail', trail_lim', clause', watches', Cleared', problem')
  BY <1>0, <1>2, <1>5, <1>6
<1>10. QueueOK(level', trail', trail_lim', qhead', todo')
  BY <1>0, <1>5, <1>6, QueueEmpty
<1>11. at' # "satisfiable" => HeapOK(assigns', nVars', order')
  <2>1. nVars \in 0 .. NVars
    BY DEF IInv, TypeOK
  <2>2. 1 .. nVars \subseteq Var
    BY <2>1, SolverAssumption DEF Var
  <2>3. HeapOK(assigns, nVars, order)
    BY DEF IInv
  <2>4. QED
    BY <1>0, <1>2, <1>5, <2>2, <2>3 DEF HeapOK
<1>12. TodoOK(watches', trail', qhead', todo')
  BY <1>0 DEF TodoOK
<1>13. WatchOK(assigns', level', trail', watches', clause', qhead', todo', Upto')
  <2>1. Upto' = 0 + 1
    BY <1>2, <1>5 DEF Upto, decisionLevel
  <2>2. QED
    BY <1>0, <1>4, <1>5, <2>1
<1>14. ok' => CoveredOK(assigns', level', clause', watches', problem')
  BY <1>0, <1>2, <1>5
<1>15. AnalysisOK'
  BY <1>0, <1>7, NoAnalysis
<1>16. PhaseOK'
  <2>1. simpDB_assigns' <= Len(trail')
    BY <1>0, <1>3, <1>5
  <2>2. QED
    BY <1>0, <2>1 DEF IInv, PhaseOK
<1>17. PositiveOK'
  <2>1. PositiveFacts(problem, level, reason, trail) => PositiveFacts(problem, level', reason', trail')
    BY <1>0, <1>2, <1>5, CutPositive
  <2>2. PositiveClauses(problem, clause, watches) => PositiveClauses(problem, clause', watches')
    BY <1>0
  <2>3. QED
    BY <1>0, <2>1, <2>2, PositiveSame
<1>18. QED
  BY <1>8, <1>9, <1>10, <1>11, <1>12, <1>13, <1>14, <1>15, <1>16, <1>17 DEF IInv

LEMMA RestartStep ==
  ASSUME IInv, Restart
  PROVE  IInv'
<1>1. /\ at = "propagate" /\ Quiet /\ cancelUntil(0, order) /\ at' = at
      /\ upkeep < MaxUpkeep /\ upkeep' = upkeep + 1
      /\ UNCHANGED <<given, ok, database, todo, analysis>> /\ model' = model
  BY DEF Restart
<1>2. upkeep' \in 0 .. MaxUpkeep /\ model' \in [Var -> Lit \cup {l_Undef}] /\ order \in SUBSET Var
  BY <1>1, SolverAssumption DEF IInv, TypeOK
<1>3. QED
  BY <1>1, <1>2, BackToRoot

LEMMA DecidingIs ==
  ASSUME IInv, Deciding
  PROVE  at \in {"propagate", "decide"} /\ todo = {} /\ qhead = Len(trail) /\ ok
BY DEF Deciding, IInv, PhaseOK, Quiet

LEMMA ModelFoundStep ==
  ASSUME IInv, ModelFound
  PROVE  IInv'
<1>1. /\ Deciding /\ cancelUntil(0, {}) /\ at' = "satisfiable" /\ model' = assigns
      /\ UNCHANGED <<given, ok, database, todo, analysis, upkeep>>
  BY DEF ModelFound
<1>2. at \in {"propagate", "decide"} /\ Quiet
  BY <1>1, DecidingIs DEF Quiet
<1>3. /\ upkeep' \in 0 .. MaxUpkeep /\ model' \in [Var -> Lit \cup {l_Undef}]
      /\ {} \in SUBSET Var
  BY <1>1 DEF IInv, TypeOK
<1>4. UNCHANGED <<given, ok, database, todo, analysis>>
  BY <1>1
<1>5. QED
  BY <1>1, <1>2, <1>3, <1>4, BackToRoot

-----------------------------------------------------------------------------
(* Upkeep of the database: clauses are removed, lists of facts cleared.    *)

LEMMA DatabaseStep ==
  ASSUME IInv, at \in {"propagate", "decide"}, todo = {}, qhead = Len(trail),
         at' = at \/ (at' = "decide" /\ Len(trail_lim) = 0),
         UNCHANGED <<given, ok, assignment, todo, analysis, model>>, upkeep' \in 0 .. MaxUpkeep,
         Sound(assigns, level, reason, trail, trail_lim, clause', watches', Cleared', problem),
         AllOld(clause, watches, clause', watches'),
         ok => CoveredOK(assigns, level, clause', watches', problem),
         WatchOK(assigns, level, trail, watches', clause', Len(trail), {}, Len(trail_lim) + 1),
         simpDB_assigns' \in Nat, simpDB_assigns' <= Len(trail)
  PROVE  IInv'
<1>0. UNCHANGED <<input, problem, nVars, ok, assigns, level, reason, trail, trail_lim, qhead, order,
                  todo, seen, look, index, out_learnt, asserting, model>>
  BY DEF given, assignment, analysis
<1>1. at' \in {"propagate", "decide"} /\ decisionLevel = Len(trail_lim) /\ trail_lim \in Seq(Nat)
  BY Between DEF TypeOK
<1>2. TypeOK'
  <2>1. /\ clause' \in [Address -> Clauses \cup {Free}]
        /\ watches' \in [Lit -> SUBSET (GClauses \ {NULL})]
    BY SoundIs DEF Typed
  <2>2. QED
    BY <1>0, <1>1, <2>1 DEF IInv, TypeOK
<1>3. Sound(assigns', level', reason', trail', trail_lim', clause', watches', Cleared', problem')
  BY <1>0
<1>4. /\ QueueOK(level', trail', trail_lim', qhead', todo')
      /\ HeapOK(assigns', nVars', order')
      /\ TodoOK(watches', trail', qhead', todo')
      /\ ok' => CoveredOK(assigns', level', clause', watches', problem')
  BY <1>0 DEF IInv, TodoOK
<1>5. WatchOK(assigns', level', trail', watches', clause', qhead', todo', Upto')
  <2>1. Upto' = Len(trail_lim) + 1
    BY <1>0, <1>1 DEF Upto, decisionLevel
  <2>2. QED
    BY <1>0, <2>1
<1>6. AnalysisOK'
  BY <1>0, <1>1, NotAnalyzing, NoAnalysis
<1>7. PhaseOK'
  <2>1. Len(trail_lim) = 0 => trail_lim = <<>>
    BY <1>1, EmptySeq
  <2>2. QED
    BY <1>0, <1>1, <2>1 DEF IInv, PhaseOK
<1>8. PositiveOK'
  <2>1. PositiveClauses(problem, clause, watches) => PositiveClauses(problem, clause', watches')
    BY KnownOld
  <2>2. QED
    BY <1>0, <1>1, <2>1, PositiveSame
<1>9. QED
  BY <1>2, <1>3, <1>4, <1>5, <1>6, <1>7, <1>8 DEF IInv

(* Removing clauses that are no reasons, learnt ones or satisfied at the   *)
(* root; dl and vt are what it makes of clause and watches.                *)
LEMMA RemoveState ==
  ASSUME IInv, Upto = Len(trail_lim) + 1, todo = {}, qhead = Len(trail),
         NEW D \in SUBSET Allocated,
         \A c \in D : /\ ~ locked(c)
                      /\ \/ clause[c].learnt
                         \/ \E p \in Lits(c) : IsTrue(p) /\ level[var(p)] = 0
  PROVE  LET dl == [c \in Address |-> IF c \in D THEN Free ELSE clause[c]]
             vt == [p \in Lit |-> watches[p] \ {Pointer(c) : c \in D}]
         IN  /\ Sound(assigns, level, reason, trail, trail_lim, dl, vt, Cleared, problem)
             /\ AllOld(clause, watches, dl, vt)
             /\ ok => CoveredOK(assigns, level, dl, vt, problem)
             /\ WatchOK(assigns, level, trail, vt, dl, Len(trail), {}, Len(trail_lim) + 1)
<1> DEFINE dl == [c \in Address |-> IF c \in D THEN Free ELSE clause[c]]
           vt == [p \in Lit |-> watches[p] \ {Pointer(c) : c \in D}]
<1>1. /\ Typed(assigns, level, reason, trail, trail_lim, clause, watches, Cleared, problem)
      /\ Sound(assigns, level, reason, trail, trail_lim, clause, watches, Cleared, problem)
      /\ WatchOK(assigns, level, trail, watches, clause, Len(trail), {}, Len(trail_lim) + 1)
  BY Between DEF IInv
<1>2. /\ clause \in [Address -> Clauses \cup {Free}] /\ problem \in SUBSET SUBSET Lit
      /\ watches \in [Lit -> SUBSET (GClauses \ {NULL})] /\ trail \in Seq(Lit)
  BY <1>1 DEF Typed
<1>3. RemoveTo(reason, clause, watches, dl, vt, D)
  BY DEF RemoveTo, Allocated, locked
<1>4. Typed(assigns, level, reason, trail, trail_lim, dl, vt, Cleared, problem)
  <2>1. dl \in [Address -> Clauses \cup {Free}]
    BY <1>2
  <2>2. vt \in [Lit -> SUBSET (GClauses \ {NULL})]
    BY <1>2
  <2>3. QED
    BY <1>1, <2>1, <2>2 DEF Typed
<1>5. \A c \in D : clause[c].learnt \/ \E p \in {clause[c].first, clause[c].second} \cup clause[c].rest :
                                          assigns[var(p)] = p /\ level[var(p)] = 0
  BY DEF Lits, IsTrue
<1> HIDE DEF dl, vt
<1>6. Sound(assigns, level, reason, trail, trail_lim, dl, vt, Cleared, problem)
  BY <1>1, <1>3, <1>4, SoundRemove
<1>7. AllOld(clause, watches, dl, vt)
  BY <1>3, RemoveParts
<1>8. ASSUME ok PROVE CoveredOK(assigns, level, dl, vt, problem)
  <2>1. CoveredOK(assigns, level, clause, watches, problem)
    BY <1>8 DEF IInv
  <2>2. QED
    BY <1>2, <1>3, <1>5, <2>1, RemoveCovered
<1>9. WatchOK(assigns, level, trail, vt, dl, Len(trail), {}, Len(trail_lim) + 1)
  BY <1>1, <1>2, <1>3, RemoveWatches
<1>10. QED
  BY <1>6, <1>7, <1>8, <1>9 DEF dl, vt

LEMMA ReduceStep ==
  ASSUME IInv, reduceDB
  PROVE  IInv'
<1>0. /\ Deciding /\ upkeep < MaxUpkeep /\ upkeep' = upkeep + 1 /\ at' = at
      /\ UNCHANGED <<given, ok, simpDB_assigns, assignment, todo, analysis, model>>
  BY DEF reduceDB
<1>1. PICK D \in SUBSET Reducible : Remove(D, watches)
  BY DEF reduceDB
<1>2. at \in {"propagate", "decide"} /\ todo = {} /\ qhead = Len(trail)
  BY <1>0, DecidingIs
<1>3. Upto = Len(trail_lim) + 1
  BY <1>2, Between DEF Upto
<1>4. D \in SUBSET Allocated /\ \A c \in D : ~ locked(c) /\ clause[c].learnt
  BY DEF Reducible
<1>5. /\ clause' = [c \in Address |-> IF c \in D THEN Free ELSE clause[c]]
      /\ watches' = [p \in Lit |-> watches[p] \ {Pointer(c) : c \in D}]
  BY <1>1 DEF Remove
<1>6. /\ Sound(assigns, level, reason, trail, trail_lim, clause', watches', Cleared, problem)
      /\ AllOld(clause, watches, clause', watches')
      /\ ok => CoveredOK(assigns, level, clause', watches', problem)
      /\ WatchOK(assigns, level, trail, watches', clause', Len(trail), {}, Len(trail_lim) + 1)
  BY <1>2, <1>3, <1>4, <1>5, RemoveState
<1>7. upkeep' \in 0 .. MaxUpkeep /\ simpDB_assigns' \in Nat /\ simpDB_assigns' <= Len(trail)
  BY <1>0, SolverAssumption DEF IInv, TypeOK, PhaseOK
<1>8. Cleared' = Cleared
  BY <1>0 DEF Cleared, assignment
<1>9. Sound(assigns, level, reason, trail, trail_lim, clause', watches', Cleared', problem)
  BY <1>6, <1>8
<1>10. QED
  BY <1>0, <1>2, <1>6, <1>7, <1>9, DatabaseStep

LEMMA SimplifyAll ==
  ASSUME IInv, simplifyDB, ~ UNCHANGED database
  PROVE  /\ Sound(assigns, level, reason, trail, trail_lim, clause', watches', Cleared', problem)
         /\ AllOld(clause, watches, clause', watches')
         /\ ok => CoveredOK(assigns, level, clause', watches', problem)
         /\ WatchOK(assigns, level, trail, watches', clause', Len(trail), {}, Len(trail_lim) + 1)
         /\ simpDB_assigns' = Len(trail)
<1> DEFINE D == {c \in Allocated : ~ locked(c) /\ \E p \in Lits(c) : IsTrue(p)}
           N == NewFacts
           dl == [c \in Address |-> IF c \in D THEN Free ELSE clause[c]]
           mt == [p \in Lit |-> watches[p] \ {Pointer(c) : c \in D}]
<1>0. /\ at = "propagate" /\ todo = {} /\ qhead = Len(trail) /\ Len(trail_lim) = 0
      /\ Remove(D, [p \in Lit |-> IF p \in N \/ - p \in N THEN {}
                                  ELSE watches[p] \ {Literal(q) : q \in N}])
      /\ simpDB_assigns' = Len(trail) /\ trail' = trail
  BY DEF simplifyDB, Quiet, decisionLevel, assignment
<1>1. /\ Typed(assigns, level, reason, trail, trail_lim, clause, watches, Cleared, problem)
      /\ TrailOK(assigns, trail) /\ Placed(assigns, trail) /\ LevelsOK(level, trail, trail_lim)
      /\ Len(trail) \in Nat /\ Upto = Len(trail_lim) + 1
  BY <1>0, Between DEF Upto
<1>2. /\ clause \in [Address -> Clauses \cup {Free}] /\ problem \in SUBSET SUBSET Lit
      /\ watches \in [Lit -> SUBSET (GClauses \ {NULL})] /\ trail \in Seq(Lit)
      /\ level \in [Var -> Nat \cup {-1}] /\ Cleared \subseteq Lit
  BY <1>1 DEF Typed
<1>3. \A i \in 1 .. Len(trail) : level[var(trail[i])] = 0 /\ trail[i] \in Lit
  <2>1. \A i \in 1 .. Len(trail) : level[var(trail[i])] \in 0 .. 0
    BY <1>0, <1>1 DEF LevelsOK
  <2>2. QED
    BY <1>1, <2>1 DEF Placed
<1>4. simpDB_assigns \in Nat /\ simpDB_assigns <= Len(trail)
  BY DEF IInv, TypeOK, PhaseOK
<1>5. N \subseteq Lit /\ \A p \in N : \E i \in 1 .. Len(trail) : trail[i] = p
  <2>1. \A i \in simpDB_assigns + 1 .. Len(trail) : i \in 1 .. Len(trail)
    BY <1>1, <1>4
  <2>2. QED
    BY <1>3, <2>1 DEF NewFacts
<1>6. Cleared' = Cleared \cup N /\ \A i \in 1 .. Len(trail) : trail[i] \in Cleared \cup N
  <2>1. Cleared' = {trail[i] : i \in 1 .. Len(trail)}
    BY <1>0 DEF Cleared
  <2>2. \A i \in 1 .. Len(trail) : i \in 1 .. simpDB_assigns \/ i \in simpDB_assigns + 1 .. Len(trail)
    BY <1>1, <1>4
  <2>3. /\ \A i \in 1 .. simpDB_assigns : i \in 1 .. Len(trail)
        /\ \A i \in simpDB_assigns + 1 .. Len(trail) : i \in 1 .. Len(trail)
    BY <1>1, <1>4
  <2>4. QED
    BY <2>1, <2>2, <2>3 DEF Cleared, NewFacts
<1>7. D \in SUBSET Allocated
  OBVIOUS
<1>8. ASSUME NEW c \in D
      PROVE  ~ locked(c) /\ \E p \in Lits(c) : IsTrue(p) /\ level[var(p)] = 0
  <2>1. PICK p \in Lits(c) : IsTrue(p)
    OBVIOUS
  <2>2. c \in Address /\ clause[c] # Free
    BY DEF Allocated
  <2>3. p \in Lit
    BY <1>2, <2>2, ClauseType DEF Lits
  <2>4. var(p) \in Var /\ assigns[var(p)] = p /\ p # l_Undef
    BY <2>1, <2>3, LitFacts DEF IsTrue, l_Undef
  <2>5. PICK i \in 1 .. Len(trail) : var(trail[i]) = var(p)
    BY <1>1, <2>4 DEF Placed
  <2>6. QED
    BY <1>3, <2>1, <2>5
<1> HIDE DEF D
<1>9. /\ Sound(assigns, level, reason, trail, trail_lim, dl, mt, Cleared, problem)
      /\ AllOld(clause, watches, dl, mt)
      /\ ok => CoveredOK(assigns, level, dl, mt, problem)
      /\ WatchOK(assigns, level, trail, mt, dl, Len(trail), {}, Len(trail_lim) + 1)
  BY <1>0, <1>1, <1>7, <1>8, RemoveState
<1>10. clause' = dl /\ ClearTo(mt, watches', N)
  <2>1. clause' = dl
    BY <1>0 DEF Remove
  <2>2. \A p \in Lit : watches'[p] = (IF p \in N \/ - p \in N THEN {}
                                      ELSE watches[p] \ {Literal(q) : q \in N}) \ {Pointer(c) : c \in D}
    BY <1>0 DEF Remove
  <2>3. \A p \in Lit : mt[p] = watches[p] \ {Pointer(c) : c \in D}
    OBVIOUS
  <2> HIDE DEF mt, N
  <2>4. QED
    BY <2>1, <2>2, <2>3 DEF ClearTo
<1>11. ASSUME NEW c \in Address, dl[c] # Free
       PROVE  \/ reason[var(dl[c].first)] = Pointer(c)
              \/ \A p \in {dl[c].first, dl[c].second} \cup dl[c].rest : assigns[var(p)] # p
  <2>1. c \notin D /\ dl[c] = clause[c] /\ c \in Allocated
    BY <1>11 DEF Allocated
  <2>2. locked(c) \/ \A p \in Lits(c) : ~ IsTrue(p)
    BY <2>1 DEF D
  <2>3. QED
    BY <2>1, <2>2 DEF locked, Lits, IsTrue
<1>12. watches' \in [Lit -> SUBSET (GClauses \ {NULL})]
  BY <1>0, <1>2 DEF Remove
<1> HIDE DEF dl, mt, N
<1>13. Typed(assigns, level, reason, trail, trail_lim, dl, mt, Cleared, problem)
  BY <1>9, SoundIs
<1>14. Typed(assigns, level, reason, trail, trail_lim, dl, watches', Cleared \cup N, problem)
  BY <1>5, <1>12, <1>13 DEF Typed
<1>15. AtRoot(assigns, level, mt, dl, Cleared, N)
  <2>1. \A i \in 1 .. Len(trail) : level[var(trail[i])] = 0 /\ trail[i] \in Cleared \cup N
    BY <1>3, <1>6
  <2>2. WatchOK(assigns, level, trail, mt, dl, Len(trail), {}, 1)
    BY <1>0, <1>9
  <2>3. QED
    BY <1>1, <1>2, <1>5, <2>1, <2>2, RootIs, Zenon
<1>16. Sound(assigns, level, reason, trail, trail_lim, dl, watches', Cleared \cup N, problem)
  BY <1>9, <1>10, <1>11, <1>14, <1>15, SoundClear, Zenon
<1>17. /\ AllOld(dl, mt, dl, watches')
       /\ WatchOK(assigns, level, trail, watches', dl, Len(trail), {}, Len(trail_lim) + 1)
  BY <1>2, <1>9, <1>10, ClearParts
<1>18. AllOld(clause, watches, dl, watches')
  BY <1>9, <1>17 DEF AllOld
<1>19. ASSUME ok PROVE CoveredOK(assigns, level, dl, watches', problem)
  BY <1>2, <1>9, <1>10, <1>15, <1>19, ClearCovered
<1>20. QED
  BY <1>0, <1>6, <1>10, <1>16, <1>17, <1>18, <1>19

LEMMA SimplifyStep ==
  ASSUME IInv, simplifyDB
  PROVE  IInv'
<1>0. /\ at = "propagate" /\ todo = {} /\ qhead = Len(trail) /\ Len(trail_lim) = 0 /\ at' = "decide"
      /\ UNCHANGED <<given, ok, assignment, todo, analysis, model>> /\ upkeep' = upkeep
  BY DEF simplifyDB, Quiet, decisionLevel
<1>1. /\ Upto = Len(trail_lim) + 1 /\ upkeep' \in 0 .. MaxUpkeep /\ Len(trail) \in Nat
      /\ simpDB_assigns \in Nat /\ simpDB_assigns <= Len(trail)
  BY <1>0, Between DEF Upto, IInv, TypeOK, PhaseOK
<1>2. /\ Sound(assigns, level, reason, trail, trail_lim, clause', watches', Cleared', problem)
      /\ AllOld(clause, watches, clause', watches')
      /\ ok => CoveredOK(assigns, level, clause', watches', problem)
      /\ WatchOK(assigns, level, trail, watches', clause', Len(trail), {}, Len(trail_lim) + 1)
      /\ simpDB_assigns' \in Nat /\ simpDB_assigns' <= Len(trail)
  <2>1. CASE UNCHANGED database
    <3>1. clause' = clause /\ watches' = watches /\ simpDB_assigns' = simpDB_assigns /\ trail' = trail
      BY <1>0, <2>1 DEF database, assignment
    <3>2. Cleared' = Cleared
      BY <3>1 DEF Cleared
    <3>3. AllOld(clause, watches, clause, watches)
      BY DEF AllOld
    <3>4. QED
      BY <1>0, <1>1, <3>1, <3>2, <3>3 DEF IInv
  <2>2. CASE ~ UNCHANGED database
    BY <1>1, <2>2, SimplifyAll
  <2>3. QED
    BY <2>1, <2>2
<1>3. QED
  BY <1>0, <1>1, <1>2, DatabaseStep

-----------------------------------------------------------------------------
(* A decision begins a level.                                              *)

LEMMA DecideStep ==
  ASSUME IInv, Decide
  PROVE  IInv'
<1>1. PICK x \in Var :
         /\ Select(x)
         /\ trail_lim' = Append(trail_lim, Len(trail))
         /\ assigns' = [assigns EXCEPT ![x] = - x]
         /\ level' = [level EXCEPT ![x] = Len(trail_lim) + 1]
         /\ reason' = [reason EXCEPT ![x] = NULL]
         /\ trail' = Append(trail, - x)
  BY DEF Decide, Sign, decisionLevel
<1>0. /\ at \in {"propagate", "decide"} /\ at' = "propagate" /\ todo = {} /\ qhead = Len(trail) /\ ok
      /\ UNCHANGED <<input, problem, nVars, ok, clause, watches, simpDB_assigns, qhead, todo, seen,
                     look, index, out_learnt, asserting, model, upkeep>>
  BY DecidingIs DEF Decide, given, database, analysis
<1>2. /\ Typed(assigns, level, reason, trail, trail_lim, clause, watches, Cleared, problem)
      /\ Sound(assigns, level, reason, trail, trail_lim, clause, watches, Cleared, problem)
      /\ TrailOK(assigns, trail) /\ LevelsOK(level, trail, trail_lim)
      /\ Len(trail) \in Nat /\ Len(trail_lim) \in Nat /\ TypeOK
  BY Between DEF IInv
<1>3. /\ assigns \in [Var -> Lit \cup {l_Undef}] /\ level \in [Var -> Nat \cup {-1}]
      /\ reason \in [Var -> GClauses] /\ trail \in Seq(Lit) /\ trail_lim \in Seq(Nat)
      /\ clause \in [Address -> Clauses \cup {Free}] /\ problem \in SUBSET SUBSET Lit
      /\ watches \in [Lit -> SUBSET (GClauses \ {NULL})]
  BY <1>2 DEF Typed
<1>4. - x \in Lit /\ var(- x) = x /\ - x < 0
  BY VarFacts
<1>5. x \in Undefined /\ assigns[x] = l_Undef /\ order' \subseteq Var
      /\ \A y \in Undefined : y # x /\ y \in order => y \in order'
  BY <1>1, <1>2 DEF Select, Undefined, TypeOK
<1>6. Pushed(assigns, level, reason, trail, assigns', level', reason', trail', - x, Len(trail_lim) + 1, NULL)
  BY <1>1, <1>2, <1>3, <1>4, <1>5, PushIs
<1>7. TrailOK(assigns', trail')
  BY <1>1, <1>2, <1>3, <1>4, <1>5, TrailPush
<1>8. trail' \in Seq(Lit) /\ Len(trail') = Len(trail) + 1 /\ \A i \in 1 .. Len(trail) : trail'[i] = trail[i]
  BY <1>1, <1>3, <1>4, Appended
<1>9. trail_lim' \in Seq(Nat) /\ Len(trail_lim') = Len(trail_lim) + 1
  BY <1>1, <1>2, <1>3, Appended
<1>10. /\ assigns' \in [Var -> Lit \cup {l_Undef}] /\ level' \in [Var -> Nat \cup {-1}]
       /\ reason' \in [Var -> GClauses]
  <2>1. NULL \in GClauses /\ Len(trail_lim) + 1 \in Nat
    BY <1>2 DEF GClauses
  <2>2. QED
    BY <1>1, <1>3, <1>4, <2>1
<1>11. TypeOK'
  <2>1. qhead' \in 0 .. Len(trail') /\ index' \in 0 .. Len(trail')
    BY <1>0, <1>2, <1>8 DEF TypeOK
  <2>2. QED
    BY <1>0, <1>2, <1>5, <1>8, <1>9, <1>10, <2>1 DEF TypeOK
<1>12. simpDB_assigns \in Nat /\ simpDB_assigns <= Len(trail)
  BY <1>2 DEF IInv, PhaseOK, TypeOK
<1>13. Cleared' = Cleared
  <2>1. \A i \in 1 .. simpDB_assigns : trail'[i] = trail[i]
    BY <1>2, <1>8, <1>12
  <2>2. QED
    BY <1>0, <2>1 DEF Cleared
<1>14. Typed(assigns', level', reason', trail', trail_lim', clause, watches, Cleared, problem)
  BY <1>2, <1>8, <1>9, <1>10 DEF Typed
<1>15. Sound(assigns', level', reason', trail', trail_lim', clause', watches', Cleared', problem')
  <2>1. Sound(assigns', level', reason', trail', trail_lim', clause, watches, Cleared, problem)
    BY <1>1, <1>2, <1>6, <1>7, <1>14, SoundDecide
  <2>2. QED
    BY <1>0, <1>13, <2>1
<1>16. QueueOK(level', trail', trail_lim', qhead', todo')
  <2>1. QueueOK(level', trail', trail_lim', Len(trail), {})
    BY <1>6, <1>9, QueueDecide
  <2>2. QED
    BY <1>0, <2>1
<1>17. HeapOK(assigns', nVars', order')
  <2>1. nVars \in 0 .. NVars
    BY <1>2 DEF TypeOK
  <2>2. 1 .. nVars \subseteq Var
    BY <2>1, SolverAssumption DEF Var
  <2>3. ASSUME NEW y \in 1 .. nVars, assigns'[y] = l_Undef PROVE y \in order'
    <3>1. y # x /\ assigns[y] = l_Undef
      BY <1>1, <1>3, <1>4, <2>2, <2>3, LitFacts DEF l_Undef
    <3>2. y \in Undefined /\ y \in order
      BY <1>0, <3>1 DEF Undefined, IInv, HeapOK
    <3>3. QED
      BY <1>5, <3>1, <3>2
  <2>4. QED
    BY <1>0, <2>3 DEF HeapOK
<1>18. TodoOK(watches', trail', qhead', todo')
  BY <1>0 DEF TodoOK
<1>19. WatchOK(assigns', level', trail', watches', clause', qhead', todo', Upto')
  <2>1. Upto = Len(trail_lim) + 1
    BY <1>0, Between DEF Upto
  <2>2. WatchOK(assigns, level, trail, watches, clause, Len(trail), {}, Len(trail_lim) + 1)
    BY <1>0, <2>1 DEF IInv
  <2>3. PointersOK(watches, clause) /\ Len(trail) \in 0 .. Len(trail)
    BY <1>2, SoundIs
  <2>4. WatchOK(assigns', level', trail', watches, clause, Len(trail), {}, Len(trail_lim) + 1)
    BY <1>3, <1>6, <2>2, <2>3, WatchPush
  <2>5. ASSUME NEW i \in 1 .. Len(trail'), i <= Len(trail) PROVE level'[var(trail'[i])] < Len(trail_lim) + 1
    <3>1. i \in 1 .. Len(trail)
      BY <1>2, <1>8, <2>5
    <3>2. level[var(trail[i])] \in 0 .. Len(trail_lim)
      BY <1>2, <3>1 DEF LevelsOK
    <3>3. level'[var(trail'[i])] = level[var(trail[i])]
      BY <1>6, <3>1 DEF Pushed
    <3>4. QED
      BY <1>2, <3>2, <3>3
  <2>6. QED
    BY <1>0, <2>4, <2>5 DEF WatchOK
<1>20. ok' => CoveredOK(assigns', level', clause', watches', problem')
  <2>1. RootsKept(assigns, level, reason, assigns', level', reason')
    BY <1>6, PushKeepsRoots
  <2>2. CoveredOK(assigns, level, clause, watches, problem)
    BY <1>0 DEF IInv
  <2>3. QED
    BY <1>0, <1>3, <2>1, <2>2, CoveredAssign
<1>21. AnalysisOK'
  BY <1>0, NotAnalyzing, NoAnalysis
<1>22. PhaseOK'
  <2>1. simpDB_assigns' <= Len(trail')
    BY <1>0, <1>2, <1>8, <1>12
  <2>2. QED
    BY <1>0, <2>1 DEF IInv, PhaseOK
<1>23. PositiveOK'
  <2>1. PositiveFacts(problem, level, reason, trail) => PositiveFacts(problem, level', reason', trail')
    <3>1. SUFFICES ASSUME PositiveFacts(problem, level, reason, trail)
                   PROVE  PositiveFacts(problem, level', reason', trail')
      OBVIOUS
    <3>2. Len(trail_lim) + 1 > 0
      BY <1>2
    <3>3. QED
      BY <1>4, <1>6, <3>1, <3>2, PositivePush
  <2>2. PositiveClauses(problem, clause, watches) => PositiveClauses(problem, clause', watches')
    BY <1>0
  <2>3. QED
    BY <1>0, <2>1, <2>2, PositiveSame
<1>24. QED
  BY <1>11, <1>15, <1>16, <1>17, <1>18, <1>19, <1>20, <1>21, <1>22, <1>23 DEF IInv

-----------------------------------------------------------------------------
(* addClause. The state in which clauses are added, and the clause at hand.*)

LEMMA AddingIs ==
  ASSUME IInv, at = "adding"
  PROVE  /\ trail_lim = <<>> /\ Len(trail_lim) = 0 /\ qhead = 0 /\ todo = {} /\ simpDB_assigns = 0
         /\ Cleared = {} /\ seen = {} /\ out_learnt = {} /\ index = 0
         /\ \A i \in 1 .. Len(trail) : level[var(trail[i])] = 0
<1>1. trail_lim = <<>> /\ qhead = 0 /\ todo = {} /\ simpDB_assigns = 0
  BY DEF IInv, PhaseOK
<1>2. LevelsOK(level, trail, trail_lim) /\ Len(trail_lim) = 0
  BY <1>1, Between
<1>3. Cleared = {}
  BY <1>1 DEF Cleared
<1>4. \A i \in 1 .. Len(trail) : level[var(trail[i])] \in 0 .. 0
  BY <1>2 DEF LevelsOK
<1>5. QED
  BY <1>1, <1>2, <1>3, <1>4, NotAnalyzing

LEMMA InputIs ==
  ASSUME IInv, addClause
  PROVE  /\ at = "adding" /\ Head(input) \in SUBSET Lit
         /\ input' \in Seq(SUBSET Lit) /\ problem' \in SUBSET SUBSET Lit
         /\ problem' = problem \cup {Head(input)}
         /\ UNCHANGED <<at, trail_lim, qhead, todo, seen, look, index, out_learnt, asserting, model, upkeep>>
<1>1. input \in Seq(SUBSET Lit) /\ problem \subseteq SUBSET Lit
  BY DEF IInv, TypeOK
<1>2. /\ at = "adding" /\ input # <<>> /\ input' = Tail(input) /\ problem' = problem \cup {Head(input)}
      /\ UNCHANGED <<at, trail_lim, qhead, todo, seen, look, index, out_learnt, asserting, model, upkeep>>
  BY DEF addClause, analysis
<1>3. Head(input) \in SUBSET Lit /\ Tail(input) \in Seq(SUBSET Lit)
  BY <1>1, <1>2, HeadTailProperties
<1>4. QED
  BY <1>1, <1>2, <1>3

LEMMA NewVarIs ==
  ASSUME nVars \in 0 .. NVars, order \subseteq Var, NEW ps \in SUBSET Lit, newVar(ps)
  PROVE  /\ nVars' \in 0 .. NVars /\ nVars <= nVars' /\ \A p \in ps : var(p) <= nVars'
         /\ order' = order \cup (nVars + 1) .. nVars' /\ order' \subseteq Var
<1> DEFINE T == {nVars} \cup {var(p) : p \in ps}
<1>1. NVars \in Nat
  BY SolverAssumption
<1>2. \A p \in ps : var(p) \in 0 .. NVars
  BY LitFacts, SolverAssumption DEF Var
<1>3. T \subseteq 0 .. NVars /\ T # {}
  BY <1>2
<1>4. PICK n \in T : \A m \in T : m <= n
  BY <1>1, <1>3, Greatest
<1>5. /\ n \in nVars .. NVars /\ \A p \in ps : var(p) <= n
      /\ n = nVars \/ \E p \in ps : var(p) = n
  BY <1>1, <1>2, <1>4
<1>6. /\ nVars' \in nVars .. NVars /\ \A p \in ps : var(p) <= nVars'
      /\ order' = order \cup (nVars + 1) .. nVars'
  BY <1>5 DEF newVar
<1>7. (nVars + 1) .. nVars' \subseteq Var
  BY <1>1, <1>6 DEF Var
<1>8. QED
  BY <1>1, <1>6, <1>7

(* Whatever became of the clause, if clauses, watches and facts are sound. *)
LEMMA AddBy ==
  ASSUME IInv, addClause,
         Sound(assigns', level', reason', trail', trail_lim, clause', watches', {}, problem'),
         simpDB_assigns' = 0,
         \A x \in Var : assigns'[x] = l_Undef => assigns[x] = l_Undef,
         ok' \in BOOLEAN, ok' => CoveredOK(assigns', level', clause', watches', problem'),
         ~ ok' => ImpliedBy(problem', {}),
         IsPositive' => ok' /\ PositiveClauses(problem', clause', watches')
                        /\ PositiveFacts(problem', level', reason', trail')
  PROVE  IInv'
<1>0. /\ at = "adding" /\ Head(input) \in SUBSET Lit
      /\ input' \in Seq(SUBSET Lit) /\ problem' \in SUBSET SUBSET Lit
      /\ problem' = problem \cup {Head(input)}
      /\ UNCHANGED <<at, trail_lim, qhead, todo, seen, look, index, out_learnt, asserting, model, upkeep>>
  BY InputIs
<1>1. /\ trail_lim = <<>> /\ Len(trail_lim) = 0 /\ qhead = 0 /\ todo = {}
      /\ seen = {} /\ out_learnt = {} /\ index = 0
  BY <1>0, AddingIs
<1>2. nVars \in 0 .. NVars /\ order \subseteq Var
  BY DEF IInv, TypeOK
<1>3. newVar(Head(input))
  BY DEF addClause
<1>4. /\ nVars' \in 0 .. NVars /\ nVars <= nVars' /\ \A p \in Head(input) : var(p) <= nVars'
      /\ order' = order \cup (nVars + 1) .. nVars' /\ order' \subseteq Var
  BY <1>0, <1>2, <1>3, NewVarIs
<1>5. /\ assigns' \in [Var -> Lit \cup {l_Undef}] /\ level' \in [Var -> Nat \cup {-1}]
      /\ reason' \in [Var -> GClauses] /\ trail' \in Seq(Lit)
      /\ clause' \in [Address -> Clauses \cup {Free}]
      /\ watches' \in [Lit -> SUBSET (GClauses \ {NULL})]
      /\ LevelsOK(level', trail', trail_lim)
  BY SoundIs DEF Typed
<1>6. Len(trail') \in Nat
  BY <1>5, LenProperties
<1>7. TypeOK'
  <2>1. qhead' \in 0 .. Len(trail') /\ index' \in 0 .. Len(trail') /\ simpDB_assigns' \in Nat
    BY <1>0, <1>1, <1>6
  <2>2. QED
    BY <1>0, <1>4, <1>5, <2>1 DEF IInv, TypeOK
<1>8. Sound(assigns', level', reason', trail', trail_lim', clause', watches', Cleared', problem')
  <2>1. Cleared' = {}
    BY DEF Cleared
  <2>2. QED
    BY <1>0, <2>1
<1>9. QueueOK(level', trail', trail_lim', qhead', todo')
  <2>1. \A i \in 1 .. Len(trail') : level'[var(trail'[i])] \in 0 .. 0
    BY <1>1, <1>5 DEF LevelsOK
  <2>2. QED
    BY <1>0, <1>1, <2>1 DEF QueueOK
<1>10. HeapOK(assigns', nVars', order')
  <2>1. 1 .. nVars' \subseteq Var
    BY <1>4, SolverAssumption DEF Var
  <2>2. ASSUME NEW x \in 1 .. nVars', assigns'[x] = l_Undef PROVE x \in order'
    <3>1. CASE x \in 1 .. nVars
      BY <1>0, <1>4, <2>1, <2>2, <3>1 DEF IInv, HeapOK
    <3>2. CASE x \in (nVars + 1) .. nVars'
      BY <1>4, <3>2
    <3>3. QED
      BY <1>2, <1>4, <3>1, <3>2
  <2>3. QED
    BY <2>2 DEF HeapOK
<1>11. TodoOK(watches', trail', qhead', todo')
  BY <1>0, <1>1 DEF TodoOK
<1>12. WatchOK(assigns', level', trail', watches', clause', qhead', todo', Upto')
  <2>1. qhead' = 0 /\ \A i \in 1 .. Len(trail') : ~ (i <= 0)
    BY <1>0, <1>1, <1>6
  <2>2. QED
    BY <2>1 DEF WatchOK
<1>13. AnalysisOK'
  BY <1>0, <1>1, NoAnalysis
<1>14. PhaseOK'
  <2>1. \A ps \in problem' : \A p \in ps : var(p) <= nVars'
    <3>1. ASSUME NEW ps \in problem, NEW p \in ps PROVE var(p) <= nVars'
      <4>1. var(p) <= nVars
        BY DEF IInv, PhaseOK
      <4>2. p \in Lit
        BY DEF IInv, TypeOK
      <4>3. var(p) \in Int
        BY <4>2, LitFacts DEF Var
      <4>4. QED
        BY <1>2, <1>4, <4>1, <4>3
    <3>2. QED
      BY <1>0, <1>4, <3>1
  <2>2. simpDB_assigns' <= Len(trail')
    BY <1>6
  <2>3. QED
    BY <1>0, <1>1, <2>1, <2>2 DEF PhaseOK
<1>15. PositiveOK'
  BY <1>0 DEF PositiveOK
<1>16. QED
  BY <1>0, <1>7, <1>8, <1>9, <1>10, <1>11, <1>12, <1>13, <1>14, <1>15 DEF IInv

(* What is left of a clause whose literals are not true.                   *)
LEMMA RemainingIs ==
  ASSUME IInv, at = "adding", NEW ps \in SUBSET Lit, ~ Satisfied(ps)
  PROVE  /\ Remaining(ps) \subseteq ps /\ Remaining(ps) \in SUBSET Lit
         /\ \A p \in Remaining(ps) : IsUndef(p)
         /\ ImpliedBy(problem \cup {ps}, Remaining(ps))
<1>1. Remaining(ps) \subseteq ps /\ Remaining(ps) \in SUBSET Lit
  BY DEF Remaining
<1>2. Len(trail_lim) = 0
  BY AddingIs
<1>3. ASSUME NEW p \in Remaining(ps) PROVE IsUndef(p)
  <2>1. p \in Lit /\ ~ IsTrue(p) /\ ~ IsFalse(p) /\ var(p) \in Var
    BY <1>1, LitFacts DEF Remaining, Satisfied
  <2>2. SUFFICES ASSUME assigns[var(p)] # l_Undef PROVE FALSE
    BY DEF IsUndef
  <2>3. var(assigns[var(p)]) = var(p) /\ assigns[var(p)] \in Lit
    BY <2>1, <2>2, Between DEF TrailOK, TypeOK
  <2>4. QED
    BY <2>1, <2>3, SameVar DEF IsTrue, IsFalse
<1>4. ImpliedBy(problem \cup {ps}, Remaining(ps))
  <2>1. ImpliedBy(problem \cup {ps}, ps)
    BY DEF ImpliedBy, Satisfies
  <2>2. ASSUME NEW q \in ps \ Remaining(ps) PROVE ImpliedBy(problem \cup {ps}, {- q})
    <3>1. q \in Lit /\ IsFalse(q)
      BY DEF Remaining
    <3>2. ImpliedBy(problem, {- q})
      BY <1>2, <3>1, RootRefuted
    <3>3. problem \subseteq problem \cup {ps} /\ {- q} \subseteq {- q}
      OBVIOUS
    <3>4. QED
      BY <3>2, <3>3, ImpliedMore
  <2>3. ps \subseteq Lit
    OBVIOUS
  <2>4. QED
    BY <2>1, <2>2, <2>3, Resolved
<1>5. QED
  BY <1>1, <1>3, <1>4

LEMMA PositiveMore ==
  ASSUME NEW pb, NEW qb, pb \subseteq qb
  PROVE  /\ \A cl, wt : PositiveClauses(pb, cl, wt) => PositiveClauses(qb, cl, wt)
         /\ \A lv, rs, tr : PositiveFacts(pb, lv, rs, tr) => PositiveFacts(qb, lv, rs, tr)
<1>1. ASSUME NEW cl, NEW wt, PositiveClauses(pb, cl, wt) PROVE PositiveClauses(qb, cl, wt)
  BY <1>1 DEF PositiveClauses
<1>2. ASSUME NEW lv, NEW rs, NEW tr, PositiveFacts(pb, lv, rs, tr) PROVE PositiveFacts(qb, lv, rs, tr)
  BY <1>2 DEF PositiveFacts
<1>3. QED
  BY <1>1, <1>2

(* The state before the clause is added says the same of the problem with  *)
(* it; and when no literal is negated, none of the clause is false.        *)
LEMMA BeforeAdding ==
  ASSUME IInv, addClause
  PROVE  /\ Sound(assigns, level, reason, trail, trail_lim, clause, watches, {}, problem')
         /\ Typed(assigns, level, reason, trail, trail_lim, clause, watches, {}, problem')
         /\ ok => CoveredOK(assigns, level, clause, watches, problem)
         /\ ok \in BOOLEAN /\ (~ ok => ImpliedBy(problem', {}))
         /\ IsPositive' => /\ ok /\ PositiveClauses(problem', clause, watches)
                           /\ PositiveFacts(problem', level, reason, trail)
                           /\ Head(input) \subseteq Var /\ Head(input) # {}
                           /\ Remaining(Head(input)) = Head(input)
<1>1. /\ at = "adding" /\ Head(input) \in SUBSET Lit
      /\ problem' \in SUBSET SUBSET Lit /\ problem' = problem \cup {Head(input)}
  BY InputIs
<1>2. Cleared = {} /\ \A i \in 1 .. Len(trail) : level[var(trail[i])] = 0
  BY <1>1, AddingIs
<1>3. problem \subseteq problem'
  BY <1>1
<1>4. Sound(assigns, level, reason, trail, trail_lim, clause, watches, {}, problem)
  BY <1>2 DEF IInv
<1>5. Sound(assigns, level, reason, trail, trail_lim, clause, watches, {}, problem')
  BY <1>1, <1>3, <1>4, SoundMore
<1>6. ok \in BOOLEAN /\ (ok => CoveredOK(assigns, level, clause, watches, problem))
  BY DEF IInv, TypeOK
<1>7. ASSUME ~ ok PROVE ImpliedBy(problem', {})
  <2>1. ImpliedBy(problem, {})
    BY <1>6, <1>7 DEF IInv, PhaseOK
  <2>2. QED
    BY <1>3, <2>1, ImpliedMore
<1>8. ASSUME IsPositive'
      PROVE  /\ ok /\ PositiveClauses(problem', clause, watches)
             /\ PositiveFacts(problem', level, reason, trail)
             /\ Head(input) \subseteq Var /\ Head(input) # {}
             /\ Remaining(Head(input)) = Head(input)
  <2>1. IsPositive /\ Head(input) \subseteq Var /\ Head(input) # {}
    BY <1>1, <1>8 DEF IsPositive
  <2>2. /\ ok /\ PositiveClauses(problem, clause, watches)
        /\ PositiveFacts(problem, level, reason, trail)
    BY <2>1 DEF IInv, PositiveOK
  <2>3. ASSUME NEW p \in Head(input) PROVE ~ IsFalse(p)
    <3>1. SUFFICES ASSUME IsFalse(p) PROVE FALSE
      OBVIOUS
    <3>2. p \in Var /\ - p \in Lit /\ p \in Lit /\ - p < 0
      BY <2>1, VarFacts
    <3>3. var(p) \in Var /\ assigns[var(p)] = - p /\ assigns[var(p)] # l_Undef
      BY <3>1, <3>2, LitFacts DEF IsFalse, l_Undef
    <3>4. PICK i \in 1 .. Len(trail) : trail[i] = - p
      BY <3>3, Between DEF Placed
    <3>5. level[var(trail[i])] > 0
      BY <2>2, <3>2, <3>4 DEF PositiveFacts
    <3>6. QED
      BY <1>2, <3>5
  <2>4. Remaining(Head(input)) = Head(input)
    BY <2>3 DEF Remaining
  <2>5. QED
    BY <1>3, <2>1, <2>2, <2>4, PositiveMore
<1>9. QED
  BY <1>5, <1>6, <1>7, <1>8, SoundIs

(* Every clause of the problem with the one added is covered.              *)
Covers(as, lv, cl, wt, ps) ==
  \/ \E p \in ps : - p \in ps
  \/ \E p \in ps : as[var(p)] = p /\ lv[var(p)] = 0
  \/ \E c \in Address : cl[c] # Free /\ ~ cl[c].learnt /\ {cl[c].first, cl[c].second} \cup cl[c].rest \subseteq ps
  \/ \E p, q \in ps : Literal(q) \in wt[- p]

LEMMA CoveredMore ==
  ASSUME NEW as, NEW lv, NEW cl, NEW wt, NEW pb, CoveredOK(as, lv, cl, wt, pb),
         NEW ps, Covers(as, lv, cl, wt, ps)
  PROVE  CoveredOK(as, lv, cl, wt, pb \cup {ps})
<1>1. CoveredOK(as, lv, cl, wt, pb) <=> \A qs \in pb : Covers(as, lv, cl, wt, qs)
  BY DEF CoveredOK, Covers
<1>2. CoveredOK(as, lv, cl, wt, pb \cup {ps}) <=> \A qs \in pb \cup {ps} : Covers(as, lv, cl, wt, qs)
  BY DEF CoveredOK, Covers
<1>3. QED
  BY <1>1, <1>2

LEMMA AddSatisfiedStep ==
  ASSUME IInv, addClause, AddSatisfied(Head(input))
  PROVE  IInv'
<1> DEFINE ps == Head(input)
<1>0. /\ ~ ok \/ Satisfied(ps)
      /\ UNCHANGED <<ok, clause, watches, simpDB_assigns, assigns, level, reason, trail>>
  BY DEF AddSatisfied, database
<1>1. /\ at = "adding" /\ ps \in SUBSET Lit /\ problem' = problem \cup {ps}
  BY InputIs
<1>2. simpDB_assigns = 0 /\ \A i \in 1 .. Len(trail) : level[var(trail[i])] = 0
  BY <1>1, AddingIs
<1>3. /\ Sound(assigns, level, reason, trail, trail_lim, clause, watches, {}, problem')
      /\ ok => CoveredOK(assigns, level, clause, watches, problem)
      /\ ok \in BOOLEAN /\ (~ ok => ImpliedBy(problem', {}))
      /\ IsPositive' => /\ ok /\ PositiveClauses(problem', clause, watches)
                        /\ PositiveFacts(problem', level, reason, trail)
  BY BeforeAdding
<1> HIDE DEF ps
<1>4. ASSUME ok PROVE CoveredOK(assigns, level, clause, watches, problem')
  <2>1. PICK p \in ps : - p \in ps \/ IsTrue(p)
    BY <1>0, <1>4 DEF Satisfied
  <2>2. ASSUME IsTrue(p) PROVE assigns[var(p)] = p /\ level[var(p)] = 0
    <3>1. p \in Lit /\ var(p) \in Var /\ assigns[var(p)] = p /\ p # l_Undef
      BY <1>1, <2>2, LitFacts DEF IsTrue, l_Undef
    <3>2. PICK i \in 1 .. Len(trail) : trail[i] = p
      BY <3>1, Between DEF Placed
    <3>3. QED
      BY <1>2, <3>1, <3>2
  <2>3. Covers(assigns, level, clause, watches, ps)
    BY <2>1, <2>2 DEF Covers
  <2>4. QED
    BY <1>1, <1>3, <1>4, <2>3, CoveredMore
<1>5. /\ Sound(assigns', level', reason', trail', trail_lim, clause', watches', {}, problem')
      /\ simpDB_assigns' = 0 /\ \A x \in Var : assigns'[x] = l_Undef => assigns[x] = l_Undef
      /\ ok' \in BOOLEAN
  BY <1>0, <1>2, <1>3
<1>6. ok' => CoveredOK(assigns', level', clause', watches', problem')
  BY <1>0, <1>4
<1>7. ~ ok' => ImpliedBy(problem', {})
  BY <1>0, <1>3
<1>8. IsPositive' => ok' /\ PositiveClauses(problem', clause', watches')
                     /\ PositiveFacts(problem', level', reason', trail')
  BY <1>0, <1>3
<1>9. QED
  BY <1>5, <1>6, <1>7, <1>8, AddBy

LEMMA AddEmptyStep ==
  ASSUME IInv, addClause, AddEmpty(Head(input))
  PROVE  IInv'
<1> DEFINE ps == Head(input)
<1>0. /\ ~ Satisfied(ps) /\ Remaining(ps) = {} /\ ok' = FALSE
      /\ UNCHANGED <<clause, watches, simpDB_assigns, assigns, level, reason, trail>>
  BY DEF AddEmpty, database
<1>1. at = "adding" /\ ps \in SUBSET Lit /\ problem' = problem \cup {ps}
  BY InputIs
<1>2. simpDB_assigns = 0
  BY <1>1, AddingIs
<1>3. ImpliedBy(problem', {})
  BY <1>0, <1>1, RemainingIs
<1>4. /\ Sound(assigns', level', reason', trail', trail_lim, clause', watches', {}, problem')
      /\ simpDB_assigns' = 0 /\ \A x \in Var : assigns'[x] = l_Undef => assigns[x] = l_Undef
  BY <1>0, <1>2, BeforeAdding
<1>5. ~ IsPositive'
  BY <1>0, BeforeAdding
<1>6. QED
  BY <1>0, <1>3, <1>4, <1>5, AddBy

LEMMA AddUnitStep ==
  ASSUME IInv, addClause, AddUnit(Head(input))
  PROVE  IInv'
<1> DEFINE ps == Head(input)
<1>1. PICK p \in Lit : /\ Remaining(ps) = {p}
                       /\ assigns' = [assigns EXCEPT ![var(p)] = p]
                       /\ level' = [level EXCEPT ![var(p)] = 0]
                       /\ reason' = [reason EXCEPT ![var(p)] = NULL]
                       /\ trail' = Append(trail, p)
  BY DEF AddUnit
<1>0. ok /\ ~ Satisfied(ps) /\ UNCHANGED <<ok, clause, watches, simpDB_assigns>>
  BY DEF AddUnit, database
<1>2. at = "adding" /\ ps \in SUBSET Lit /\ problem' = problem \cup {ps}
  BY InputIs
<1>3. simpDB_assigns = 0 /\ Len(trail_lim) = 0
  BY <1>2, AddingIs
<1>4. ImpliedBy(problem', {p}) /\ assigns[var(p)] = l_Undef /\ p \in ps
  BY <1>0, <1>1, <1>2, RemainingIs DEF IsUndef
<1>5. /\ Sound(assigns, level, reason, trail, trail_lim, clause, watches, {}, problem')
      /\ Typed(assigns, level, reason, trail, trail_lim, clause, watches, {}, problem')
      /\ CoveredOK(assigns, level, clause, watches, problem) /\ ok \in BOOLEAN
      /\ IsPositive' => /\ PositiveClauses(problem', clause, watches)
                        /\ PositiveFacts(problem', level, reason, trail)
                        /\ ps \subseteq Var /\ Remaining(ps) = ps
  BY <1>0, BeforeAdding
<1> HIDE DEF ps
<1>6. /\ assigns \in [Var -> Lit \cup {l_Undef}] /\ level \in [Var -> Nat \cup {-1}]
      /\ reason \in [Var -> GClauses] /\ trail \in Seq(Lit) /\ TrailOK(assigns, trail)
      /\ problem \in SUBSET SUBSET Lit /\ var(p) \in Var
  BY Between, LitFacts DEF Typed
<1>7. Pushed(assigns, level, reason, trail, assigns', level', reason', trail', p, Len(trail_lim), NULL)
  BY <1>1, <1>3, <1>4, <1>6, PushIs
<1>8. TrailOK(assigns', trail')
  BY <1>1, <1>4, <1>6, TrailPush
<1>9. Typed(assigns', level', reason', trail', trail_lim, clause, watches, {}, problem')
  <2>1. NULL \in GClauses
    BY DEF GClauses
  <2>2. trail' \in Seq(Lit)
    BY <1>1, <1>6, Appended
  <2>3. /\ assigns' \in [Var -> Lit \cup {l_Undef}] /\ level' \in [Var -> Nat \cup {-1}]
        /\ reason' \in [Var -> GClauses]
    BY <1>1, <1>6, <2>1
  <2>4. QED
    BY <1>5, <2>2, <2>3 DEF Typed
<1>10. Sound(assigns', level', reason', trail', trail_lim, clause, watches, {}, problem')
  <2>1. NULL # NULL => Unit(assigns, level, clause, NULL, p, Len(trail_lim))
    OBVIOUS
  <2>2. NULL[1] = "lit" => ImpliedBy(problem', {p, - NULL[2]})
    BY TagsDiffer
  <2>3. Len(trail_lim) = 0 => ImpliedBy(problem', {p})
    BY <1>4
  <2>4. NULL = NULL => Len(trail_lim) = 0
    BY <1>3
  <2>5. QED
    BY <1>5, <1>7, <1>8, <1>9, <2>1, <2>2, <2>3, <2>4, SoundPush, Zenon
<1>11. CoveredOK(assigns', level', clause, watches, problem')
  <2>1. RootsKept(assigns, level, reason, assigns', level', reason')
    BY <1>7, PushKeepsRoots
  <2>2. CoveredOK(assigns', level', clause, watches, problem)
    BY <1>5, <1>6, <2>1, CoveredAssign
  <2>3. assigns'[var(p)] = p /\ level'[var(p)] = 0
    BY <1>1, <1>6
  <2>4. Covers(assigns', level', clause, watches, ps)
    BY <1>4, <2>3 DEF Covers
  <2>5. QED
    BY <1>2, <2>2, <2>4, CoveredMore
<1>12. IsPositive' => ok' /\ PositiveClauses(problem', clause', watches')
                      /\ PositiveFacts(problem', level', reason', trail')
  <2>1. SUFFICES ASSUME IsPositive' PROVE PositiveFacts(problem', level', reason', trail')
    BY <1>0, <1>5
  <2>2. ps = {p} /\ p \in Var /\ ~ (p < 0)
    <3>1. ps = {p} /\ p \in Var
      BY <1>1, <1>5, <2>1
    <3>2. QED
      BY <3>1, VarFacts
  <2>3. {p} \in problem'
    BY <1>2, <2>2
  <2>4. NULL[1] # "lit"
    BY TagsDiffer
  <2>5. PositiveFacts(problem', level, reason, trail)
    BY <1>5, <2>1
  <2>6. QED
    BY <1>7, <2>2, <2>3, <2>4, <2>5, PositivePush
<1>13. /\ Sound(assigns', level', reason', trail', trail_lim, clause', watches', {}, problem')
       /\ simpDB_assigns' = 0 /\ ok' \in BOOLEAN /\ ok'
       /\ \A x \in Var : assigns'[x] = l_Undef => assigns[x] = l_Undef
  <2>1. \A x \in Var : assigns'[x] = l_Undef => assigns[x] = l_Undef
    BY <1>1, <1>4, <1>6
  <2>2. QED
    BY <1>0, <1>3, <1>5, <1>10, <2>1
<1>14. ok' => CoveredOK(assigns', level', clause', watches', problem')
  BY <1>0, <1>11
<1>15. QED
  BY <1>12, <1>13, <1>14, AddBy

(* The order of literals has a first one in every set.                     *)
LEMMA FirstOfIs ==
  ASSUME NEW S \in SUBSET Lit, S # {}
  PROVE  FirstOf(S) \in S
<1> DEFINE key(p) == 2 * var(p) + (IF p > 0 THEN 0 ELSE 1)
           T == {key(p) : p \in S}
<1>1. ASSUME NEW p \in Lit PROVE key(p) \in Nat /\ var(p) \in Nat /\ p \in Int /\ (p = var(p) \/ p = - var(p))
                                 /\ p # 0
  <2>1. var(p) \in Nat /\ p \in Int /\ p # 0
    BY LitFacts, SolverAssumption DEF Var
  <2>2. QED
    BY <2>1, LitFacts
<1>2. T \subseteq Nat /\ T # {}
  BY <1>1
<1>3. PICK x \in T : \A y \in T : x <= y
  BY <1>2, Least
<1>4. PICK p \in S : x = key(p)
  OBVIOUS
<1>5. ASSUME NEW q \in S \ {p} PROVE Before(p, q)
  <2>1. key(p) <= key(q)
    BY <1>3, <1>4
  <2>2. /\ var(p) \in Nat /\ var(q) \in Nat /\ p \in Int /\ q \in Int /\ p # q /\ p # 0 /\ q # 0
        /\ p = var(p) \/ p = - var(p)
        /\ q = var(q) \/ q = - var(q)
    BY <1>1
  <2>3. var(p) <= var(q)
    BY <2>1, <2>2
  <2>4. CASE var(p) = var(q)
    <3>1. p > q
      BY <2>1, <2>2, <2>4
    <3>2. QED
      BY <2>4, <3>1 DEF Before
  <2>5. CASE var(p) # var(q)
    BY <2>2, <2>3, <2>5 DEF Before
  <2>6. QED
    BY <2>4, <2>5
<1>6. \E r \in S : \A q \in S \ {r} : Before(r, q)
  BY <1>5
<1>7. QED
  BY <1>6 DEF FirstOf

(* The two first literals, which are watched, and the rest of a clause.    *)
LEMMA TwoFirst ==
  ASSUME NEW R \in SUBSET Lit, Cardinality(R) >= 2
  PROVE  /\ IsFiniteSet(R) /\ Cardinality(R) \in Nat
         /\ FirstOf(R) \in R /\ FirstOf(R \ {FirstOf(R)}) \in R
         /\ FirstOf(R \ {FirstOf(R)}) # FirstOf(R)
         /\ Cardinality(R) = 2 => R = {FirstOf(R), FirstOf(R \ {FirstOf(R)})}
<1> DEFINE p == FirstOf(R)
           q == FirstOf(R \ {p})
<1>1. IsFiniteSet(R) /\ Cardinality(R) \in Nat
  BY LitsFinite, FS_CardinalityType
<1>2. R # {}
  BY <1>1, FS_EmptySet
<1>3. p \in R
  BY <1>2, FirstOfIs
<1> HIDE DEF p
<1>4. IsFiniteSet(R \ {p}) /\ Cardinality(R \ {p}) = Cardinality(R) - 1
  BY <1>1, <1>3, FS_RemoveElement
<1>5. R \ {p} # {} /\ R \ {p} \in SUBSET Lit
  <2>1. Cardinality(R \ {p}) # 0
    BY <1>1, <1>4
  <2>2. QED
    BY <2>1, FS_EmptySet
<1>6. q \in R \ {p}
  BY <1>5, FirstOfIs
<1> HIDE DEF q
<1>7. IsFiniteSet((R \ {p}) \ {q}) /\ Cardinality((R \ {p}) \ {q}) = Cardinality(R) - 2
  <2>1. /\ IsFiniteSet((R \ {p}) \ {q})
        /\ Cardinality((R \ {p}) \ {q}) = Cardinality(R \ {p}) - 1
    BY <1>4, <1>6, FS_RemoveElement
  <2>2. QED
    BY <1>1, <1>4, <2>1
<1>8. ASSUME Cardinality(R) = 2 PROVE R = {p, q}
  <2>1. (R \ {p}) \ {q} = {}
    BY <1>7, <1>8, FS_EmptySet
  <2>2. QED
    BY <1>3, <1>6, <2>1
<1>9. QED
  BY <1>1, <1>3, <1>6, <1>8 DEF p, q

LEMMA AddBinaryStep ==
  ASSUME IInv, addClause, AddBinary(Head(input))
  PROVE  IInv'
<1> DEFINE ps == Head(input)
           R == Remaining(ps)
           p == FirstOf(R)
           q == FirstOf(R \ {p})
<1>0. /\ ok /\ ~ Satisfied(ps) /\ Cardinality(R) = 2 /\ WatchBinary(p, q)
      /\ UNCHANGED <<ok, clause, simpDB_assigns, assigns, level, reason, trail>>
  BY DEF AddBinary
<1>1. /\ at = "adding" /\ ps \in SUBSET Lit /\ problem' = problem \cup {ps}
      /\ problem' \in SUBSET SUBSET Lit
  BY InputIs
<1>2. simpDB_assigns = 0
  BY <1>1, AddingIs
<1>3. R \subseteq ps /\ R \in SUBSET Lit /\ ImpliedBy(problem', R)
  BY <1>0, <1>1, RemainingIs
<1> HIDE DEF R
<1>4. R = {p, q} /\ p # q /\ p \in Lit /\ q \in Lit /\ p \in ps /\ q \in ps
  <2>1. Cardinality(R) >= 2
    BY <1>0
  <2>2. R = {p, q} /\ p # q
    BY <1>0, <1>3, <2>1, TwoFirst
  <2>3. QED
    BY <1>3, <2>2
<1>5. /\ Sound(assigns, level, reason, trail, trail_lim, clause, watches, {}, problem')
      /\ Typed(assigns, level, reason, trail, trail_lim, clause, watches, {}, problem')
      /\ CoveredOK(assigns, level, clause, watches, problem) /\ ok \in BOOLEAN
      /\ IsPositive' => /\ PositiveClauses(problem', clause, watches)
                        /\ PositiveFacts(problem', level, reason, trail)
                        /\ R = ps
  BY <1>0, BeforeAdding DEF R
<1> HIDE DEF p, q, ps
<1>6. /\ watches \in [Lit -> SUBSET (GClauses \ {NULL})] /\ problem \in SUBSET SUBSET Lit
  BY <1>5, Between DEF Typed
<1>7. - p \in Lit /\ - q \in Lit /\ - p # - q /\ - (- p) = p /\ - (- q) = q
  BY <1>4, LitFacts
<1>8. BinaryTo(watches, watches', p, q) /\ watches' \in [Lit -> SUBSET (GClauses \ {NULL})]
  <2>1. Literal(p) \in GClauses \ {NULL} /\ Literal(q) \in GClauses \ {NULL}
    BY <1>4, TagsDiffer DEF GClauses
  <2>2. watches' = [watches EXCEPT ![- p] = @ \cup {Literal(q)}, ![- q] = @ \cup {Literal(p)}]
    BY <1>0 DEF WatchBinary
  <2>3. QED
    BY <1>4, <1>6, <1>7, <2>1, <2>2 DEF BinaryTo
<1>9. ImpliedBy(problem', {p, q})
  BY <1>3, <1>4
<1>10. Typed(assigns, level, reason, trail, trail_lim, clause, watches', {}, problem')
  BY <1>5, <1>8 DEF Typed
<1>11. Sound(assigns, level, reason, trail, trail_lim, clause, watches', {}, problem')
  <2>1. p \notin {} /\ q \notin {} /\ - p \notin {} /\ - q \notin {}
    OBVIOUS
  <2>2. QED
    BY <1>5, <1>8, <1>9, <1>10, <2>1, SoundBinary, Zenon
<1>12. CoveredOK(assigns, level, clause, watches', problem')
  <2>1. CoveredOK(assigns, level, clause, watches', problem)
    BY <1>5, <1>6, <1>8, BinaryParts, CoveredKept
  <2>2. Literal(q) \in watches'[- p]
    BY <1>7, <1>8 DEF BinaryTo
  <2>3. Covers(assigns, level, clause, watches', ps)
    BY <1>4, <2>2 DEF Covers
  <2>4. QED
    BY <1>1, <2>1, <2>3, CoveredMore
<1>13. ASSUME IsPositive' PROVE PositiveClauses(problem', clause, watches')
  <2>1. {p, q} \in problem'
    BY <1>1, <1>4, <1>5, <1>13
  <2>2. PositiveClauses(problem', clause, watches)
    BY <1>5, <1>13
  <2>3. ASSUME NEW r \in Lit, NEW s \in Lit, Literal(s) \in watches'[r] PROVE {- r, s} \in problem'
    <3>1. Literal(s) \in watches[r] \/ (r = - p /\ s = q) \/ (r = - q /\ s = p)
      BY <1>8, <2>3, TagsDiffer DEF BinaryTo
    <3>2. CASE Literal(s) \in watches[r]
      BY <2>2, <3>2 DEF PositiveClauses
    <3>3. CASE r = - p /\ s = q
      BY <1>7, <2>1, <3>3
    <3>4. CASE r = - q /\ s = p
      <4>1. {- r, s} = {p, q}
        BY <1>7, <3>4
      <4>2. QED
        BY <2>1, <4>1
    <3>5. QED
      BY <3>1, <3>2, <3>3, <3>4
  <2>4. QED
    BY <2>2, <2>3 DEF PositiveClauses
<1>14. /\ Sound(assigns', level', reason', trail', trail_lim, clause', watches', {}, problem')
       /\ simpDB_assigns' = 0 /\ ok' \in BOOLEAN /\ ok'
       /\ \A x \in Var : assigns'[x] = l_Undef => assigns[x] = l_Undef
  BY <1>0, <1>2, <1>5, <1>11
<1>15. ok' => CoveredOK(assigns', level', clause', watches', problem')
  BY <1>0, <1>12
<1>16. IsPositive' => ok' /\ PositiveClauses(problem', clause', watches')
                      /\ PositiveFacts(problem', level', reason', trail')
  BY <1>0, <1>5, <1>13
<1>17. QED
  BY <1>14, <1>15, <1>16, AddBy

LEMMA AddLongStep ==
  ASSUME IInv, addClause, AddLong(Head(input))
  PROVE  IInv'
<1> DEFINE ps == Head(input)
           R == Remaining(ps)
           p == FirstOf(R)
           q == FirstOf(R \ {p})
           c == NextAddress
           rest == R \ {p, q}
<1>0. /\ ok /\ ~ Satisfied(ps) /\ Cardinality(R) > 2 /\ Allocated # Address
      /\ Allocate(c, FALSE, p, q, rest)
      /\ UNCHANGED <<ok, simpDB_assigns, assigns, level, reason, trail>>
  BY DEF AddLong
<1>1. /\ at = "adding" /\ ps \in SUBSET Lit /\ problem' = problem \cup {ps}
      /\ problem' \in SUBSET SUBSET Lit
  BY InputIs
<1>2. simpDB_assigns = 0
  BY <1>1, AddingIs
<1>3. R \subseteq ps /\ R \in SUBSET Lit /\ ImpliedBy(problem', R)
  BY <1>0, <1>1, RemainingIs
<1>4. c \in Address /\ clause[c] = Free
  BY <1>0, AddressIs
<1>5. /\ Sound(assigns, level, reason, trail, trail_lim, clause, watches, {}, problem')
      /\ Typed(assigns, level, reason, trail, trail_lim, clause, watches, {}, problem')
      /\ CoveredOK(assigns, level, clause, watches, problem) /\ ok \in BOOLEAN
      /\ IsPositive' => /\ PositiveClauses(problem', clause, watches)
                        /\ PositiveFacts(problem', level, reason, trail)
                        /\ R = ps
  BY <1>0, BeforeAdding
<1> HIDE DEF R, c
<1>6. p \in R /\ q \in R /\ p # q
  <2>1. Cardinality(R) >= 2
    <3>1. Cardinality(R) \in Nat
      BY <1>3, LitsFinite, FS_CardinalityType
    <3>2. QED
      BY <1>0, <3>1
  <2>2. QED
    BY <1>3, <2>1, TwoFirst
<1> HIDE DEF p, q, ps
<1>7. /\ p \in Lit /\ q \in Lit /\ rest \in SUBSET Lit /\ p \notin rest /\ q \notin rest
      /\ {p, q} \cup rest = R
  BY <1>3, <1>6
<1>8. Allocate(c, FALSE, p, q, rest) /\ FALSE \in BOOLEAN
  BY <1>0
<1> HIDE DEF rest
<1>9. /\ watches \in [Lit -> SUBSET (GClauses \ {NULL})] /\ problem \in SUBSET SUBSET Lit
      /\ clause \in [Address -> Clauses \cup {Free}]
  BY <1>5, Between DEF Typed
<1>10. /\ AllocateTo(clause, watches, clause', watches', c, FALSE, p, q, rest)
       /\ clause' \in [Address -> Clauses \cup {Free}]
       /\ watches' \in [Lit -> SUBSET (GClauses \ {NULL})]
       /\ clause'[c] # Free /\ clause'[c].first = p /\ clause'[c].second = q /\ clause'[c].rest = rest
  BY <1>4, <1>6, <1>7, <1>8, <1>9, AllocateIs, Zenon
<1>11. Outside({}, p, q, rest)
  BY DEF Outside
<1>12. ImpliedBy(problem', {p, q} \cup rest)
  BY <1>3, <1>7
<1>13. Typed(assigns, level, reason, trail, trail_lim, clause', watches', {}, problem')
  BY <1>5, <1>10 DEF Typed
<1>14. Sound(assigns, level, reason, trail, trail_lim, clause', watches', {}, problem')
  BY <1>5, <1>10, <1>11, <1>12, <1>13, SoundAllocate, Zenon
<1>15. clause'[c].learnt = FALSE /\ \A d \in Address : d # c => clause'[d] = clause[d]
  BY <1>10 DEF AllocateTo
<1>16. CoveredOK(assigns, level, clause', watches', problem')
  <2>1. StillThere(clause, watches, clause', watches')
    <3>1. AllocateTo(clause, watches, clause', watches', c, FALSE, p, q, rest)
      BY <1>10
    <3>2. QED
      BY <3>1, AllocateParts, Zenon
  <2>2. CoveredOK(assigns, level, clause', watches', problem)
    BY <1>5, <1>9, <2>1, CoveredKept
  <2>3. {clause'[c].first, clause'[c].second} \cup clause'[c].rest \subseteq ps
    BY <1>3, <1>7, <1>10
  <2>4. Covers(assigns, level, clause', watches', ps)
    BY <1>4, <1>10, <1>15, <2>3 DEF Covers
  <2>5. QED
    BY <1>1, <2>2, <2>4, CoveredMore
<1>17. ASSUME IsPositive' PROVE PositiveClauses(problem', clause', watches')
  <2>1. {p, q} \cup rest \in problem'
    BY <1>1, <1>5, <1>7, <1>17
  <2>2. PositiveClauses(problem', clause, watches)
    BY <1>5, <1>17
  <2>3. ASSUME NEW d \in Address, clause'[d] # Free
        PROVE  {clause'[d].first, clause'[d].second} \cup clause'[d].rest \in problem'
    <3>1. CASE d = c
      BY <1>10, <2>1, <3>1
    <3>2. CASE d # c
      BY <1>15, <2>2, <2>3, <3>2 DEF PositiveClauses
    <3>3. QED
      BY <3>1, <3>2
  <2>4. ASSUME NEW r \in Lit, NEW s \in Lit, Literal(s) \in watches'[r] PROVE {- r, s} \in problem'
    <3>1. Literal(s) \in watches[r]
      <4>1. watches'[r] \in {watches[r], watches[r] \cup {Pointer(c)}}
        BY <1>10 DEF AllocateTo
      <4>2. QED
        BY <2>4, <4>1, TagsDiffer
    <3>2. QED
      BY <2>2, <3>1 DEF PositiveClauses
  <2>5. QED
    BY <2>3, <2>4 DEF PositiveClauses
<1>18. /\ Sound(assigns', level', reason', trail', trail_lim, clause', watches', {}, problem')
       /\ simpDB_assigns' = 0 /\ ok' \in BOOLEAN /\ ok'
       /\ \A x \in Var : assigns'[x] = l_Undef => assigns[x] = l_Undef
  BY <1>0, <1>2, <1>5, <1>14
<1>19. ok' => CoveredOK(assigns', level', clause', watches', problem')
  BY <1>0, <1>16
<1>20. IsPositive' => ok' /\ PositiveClauses(problem', clause', watches')
                      /\ PositiveFacts(problem', level', reason', trail')
  BY <1>0, <1>5, <1>17
<1>21. QED
  BY <1>18, <1>19, <1>20, AddBy

LEMMA AddStep ==
  ASSUME IInv, addClause
  PROVE  IInv'
BY AddSatisfiedStep, AddEmptyStep, AddUnitStep, AddBinaryStep, AddLongStep DEF addClause

-----------------------------------------------------------------------------
(* The invariant.                                                          *)

LEMMA InitInv == Init => IInv
<1>0. SUFFICES ASSUME Init PROVE IInv
  OBVIOUS
<1>1. /\ problem = {} /\ nVars = 0 /\ at = "adding" /\ ok = TRUE
      /\ input \in Seq(SUBSET Lit)
      /\ clause = [c \in Address |-> Free] /\ watches = [p \in Lit |-> {}] /\ simpDB_assigns = 0
      /\ assigns = [x \in Var |-> l_Undef] /\ level = [x \in Var |-> -1]
      /\ reason = [x \in Var |-> NULL] /\ trail = <<>> /\ trail_lim = <<>>
      /\ qhead = 0 /\ todo = {} /\ order = {}
      /\ seen = {} /\ look = {} /\ index = 0 /\ out_learnt = {} /\ asserting = 0
      /\ model = [x \in Var |-> l_Undef] /\ upkeep = 0
  BY <1>0, SolverAssumption DEF Init
<1>2. /\ \A c \in Address : clause[c] = Free
      /\ \A p \in Lit : watches[p] = {}
      /\ \A x \in Var : assigns[x] = l_Undef /\ reason[x] = NULL
      /\ trail \in Seq(Lit) /\ trail_lim \in Seq(Nat) /\ Len(trail) = 0 /\ Len(trail_lim) = 0
      /\ \A i : i \notin 1 .. Len(trail) /\ i \notin 1 .. Len(trail_lim)
  BY <1>1
<1>3. Cleared = {}
  BY <1>1, <1>2 DEF Cleared
<1>4. TypeOK
  <2>1. /\ clause \in [Address -> Clauses \cup {Free}]
        /\ watches \in [Lit -> SUBSET (GClauses \ {NULL})]
    BY <1>1
  <2>2. /\ assigns \in [Var -> Lit \cup {l_Undef}] /\ model \in [Var -> Lit \cup {l_Undef}]
    BY <1>1
  <2>3. level \in [Var -> Nat \cup {-1}] /\ reason \in [Var -> GClauses]
    BY <1>1 DEF GClauses
  <2>4. QED
    BY <1>1, <1>2, <2>1, <2>2, <2>3, SolverAssumption DEF TypeOK
<1>5. Typed(assigns, level, reason, trail, trail_lim, clause, watches, Cleared, problem)
  BY <1>1, <1>3, <1>4 DEF TypeOK, Typed
<1>6. /\ TrailOK(assigns, trail) /\ LevelsOK(level, trail, trail_lim)
      /\ DecisionsOK(level, reason, trail, trail_lim)
      /\ ReasonsOK(assigns, level, reason, trail, clause)
  BY <1>2 DEF TrailOK, LevelsOK, DecisionsOK, ReasonsOK
<1>7. /\ ClausesOK(clause) /\ BinaryOK(watches) /\ PointersOK(watches, clause)
      /\ SweptOK(assigns, level, reason, clause, watches, Cleared)
      /\ KnownClausesOK(problem, clause, watches) /\ KnownFactsOK(problem, level, reason, trail)
  <2>1. ClausesOK(clause) /\ BinaryOK(watches) /\ PointersOK(watches, clause)
    BY <1>2 DEF ClausesOK, BinaryOK, PointersOK
  <2>2. SweptOK(assigns, level, reason, clause, watches, Cleared)
    BY <1>2, <1>3 DEF SweptOK
  <2>3. KnownClausesOK(problem, clause, watches) /\ KnownFactsOK(problem, level, reason, trail)
    BY <1>2 DEF KnownClausesOK, KnownFactsOK
  <2>4. QED
    BY <2>1, <2>2, <2>3
<1>8. Sound(assigns, level, reason, trail, trail_lim, clause, watches, Cleared, problem)
  BY <1>5, <1>6, <1>7 DEF Sound
<1>9. /\ QueueOK(level, trail, trail_lim, qhead, todo)
      /\ HeapOK(assigns, nVars, order)
      /\ TodoOK(watches, trail, qhead, todo)
      /\ WatchOK(assigns, level, trail, watches, clause, qhead, todo, Upto)
      /\ CoveredOK(assigns, level, clause, watches, problem)
  <2>1. QueueOK(level, trail, trail_lim, qhead, todo) /\ TodoOK(watches, trail, qhead, todo)
    BY <1>1, <1>2 DEF QueueOK, TodoOK
  <2>2. HeapOK(assigns, nVars, order)
    BY <1>1 DEF HeapOK
  <2>3. WatchOK(assigns, level, trail, watches, clause, qhead, todo, Upto)
    BY <1>2 DEF WatchOK
  <2>4. CoveredOK(assigns, level, clause, watches, problem)
    BY <1>1 DEF CoveredOK
  <2>5. QED
    BY <2>1, <2>2, <2>3, <2>4
<1>10. AnalysisOK
  BY <1>1 DEF AnalysisOK
<1>11. PhaseOK
  BY <1>1, <1>2 DEF PhaseOK
<1>12. PositiveOK
  <2>1. PositiveClauses(problem, clause, watches) /\ PositiveFacts(problem, level, reason, trail)
    BY <1>2 DEF PositiveClauses, PositiveFacts
  <2>2. QED
    BY <1>1, <2>1 DEF PositiveOK
<1>13. QED
  BY <1>4, <1>8, <1>9, <1>10, <1>11, <1>12 DEF IInv

LEMMA StutterInv ==
  ASSUME IInv, UNCHANGED vars
  PROVE  IInv'
<1>1. UNCHANGED <<input, problem, at, ok, nVars, clause, watches, assigns, level, reason, trail,
                  trail_lim, qhead, todo, order, simpDB_assigns, seen, look, index, out_learnt,
                  asserting, model, upkeep>>
  BY DEF vars, given, database, assignment, analysis
<1>2. /\ TypeOK' /\ Cleared' = Cleared /\ Upto' = Upto
  BY <1>1 DEF IInv, TypeOK, Cleared, Upto, decisionLevel
<1>3. Sound(assigns', level', reason', trail', trail_lim', clause', watches', Cleared', problem')
  BY <1>1, SoundSame
<1>4. /\ QueueOK(level', trail', trail_lim', qhead', todo')
      /\ at' # "satisfiable" => HeapOK(assigns', nVars', order')
      /\ TodoOK(watches', trail', qhead', todo')
      /\ WatchOK(assigns', level', trail', watches', clause', qhead', todo', Upto')
      /\ ok' => CoveredOK(assigns', level', clause', watches', problem')
  BY <1>1, <1>2 DEF IInv
<1>5. AnalysisOK'
  <2>1. AnalysisOK
    BY DEF IInv
  <2>2. Pending' = Pending /\ Negated(Pending)' = Negated(Pending)
    BY <1>1 DEF Pending, Negated
  <2>3. /\ \A S : Implied(S)' = Implied(S)
    BY <1>1 DEF Implied
  <2>4. QED
    BY <1>1, <2>1, <2>2, <2>3 DEF AnalysisOK, IsTrue, IsFalse, decisionLevel
<1>6. PhaseOK'
  BY <1>1 DEF IInv, PhaseOK
<1>7. PositiveOK'
  BY <1>1 DEF IInv, PositiveOK, IsPositive
<1>8. QED
  BY <1>2, <1>3, <1>4, <1>5, <1>6, <1>7 DEF IInv

LEMMA VisitStep ==
  ASSUME IInv, NEW w, Visit(w)
  PROVE  IInv'
<1>1. w \in todo /\ at = "propagate"
  BY DEF Visit
<1>2. KeepWatch(w) \/ NewWatch(w) \/ Imply(w)
  BY DEF Visit
<1>3. QED
  BY <1>1, <1>2, KeepStep, NewStep, ImplyStep

LEMMA NextInv ==
  ASSUME IInv, [Next]_vars
  PROVE  IInv'
<1>1. ASSUME NEW w \in GClauses, Visit(w) \/ Conflict(w) PROVE IInv'
  BY <1>1, VisitStep, ConflictStep
<1>2. CASE addClause
  BY <1>2, AddStep
<1>3. CASE solve
  BY <1>3, SolveStep
<1>4. CASE Dequeue
  BY <1>4, DequeueStep
<1>5. CASE analyze
  BY <1>5, AnalyzeStep
<1>6. CASE Learn
  BY <1>6, LearnStep
<1>7. CASE Restart
  BY <1>7, RestartStep
<1>8. CASE simplifyDB
  BY <1>8, SimplifyStep
<1>9. CASE reduceDB
  BY <1>9, ReduceStep
<1>10. CASE Decide
  BY <1>10, DecideStep
<1>11. CASE ModelFound
  BY <1>11, ModelFoundStep
<1>12. CASE UNCHANGED vars
  BY <1>12, StutterInv
<1>13. QED
  BY <1>1, <1>2, <1>3, <1>4, <1>5, <1>6, <1>7, <1>8, <1>9, <1>10, <1>11, <1>12 DEF Next

-----------------------------------------------------------------------------
(* When search decides, every watch has been looked at.                    *)

(* What a literal can be.                                                  *)
LEMMA ThreeValues ==
  ASSUME IInv, NEW p \in Lit
  PROVE  IsTrue(p) \/ IsFalse(p) \/ IsUndef(p)
<1>1. TrailOK(assigns, trail) /\ assigns \in [Var -> Lit \cup {l_Undef}]
  BY Between DEF Typed
<1>2. var(p) \in Var
  BY LitFacts
<1>3. CASE assigns[var(p)] = l_Undef
  BY <1>3 DEF IsUndef
<1>4. CASE assigns[var(p)] # l_Undef
  <2>1. assigns[var(p)] \in Lit /\ var(assigns[var(p)]) = var(p)
    BY <1>1, <1>2, <1>4 DEF TrailOK
  <2>2. assigns[var(p)] = p \/ assigns[var(p)] = - p
    BY <2>1, SameVar
  <2>3. QED
    BY <2>2 DEF IsTrue, IsFalse
<1>5. QED
  BY <1>3, <1>4

LEMMA FalseWatch ==
  ASSUME IInv, Deciding, NEW p \in Lit, IsFalse(p), NEW w \in watches[- p]
  PROVE  IsTrue(OtherWatch(w, - p, clause))
<1>1. /\ at \in {"propagate", "decide"} /\ todo = {} /\ qhead = Len(trail)
  BY DecidingIs
<1>2. /\ TrailOK(assigns, trail) /\ LevelsOK(level, trail, trail_lim) /\ trail \in Seq(Lit)
      /\ Len(trail_lim) \in Nat /\ decisionLevel = Len(trail_lim) /\ Len(trail) \in Nat
  BY Between DEF Typed
<1>3. var(p) \in Var /\ - p # l_Undef /\ - p \in Lit
  BY LitFacts DEF l_Undef
<1>4. assigns[var(p)] = - p
  BY DEF IsFalse
<1>5. PICK i \in 1 .. Len(trail) : trail[i] = - p /\ var(trail[i]) = var(p)
  BY <1>2, <1>3, <1>4, LevelRange
<1>6. level[var(trail[i])] < Upto
  <2>1. level[var(trail[i])] \in 0 .. Len(trail_lim)
    BY <1>2 DEF LevelsOK
  <2>2. Upto = Len(trail_lim) + 1
    BY <1>1, <1>2 DEF Upto
  <2>3. QED
    BY <1>2, <2>1, <2>2
<1>7. i <= qhead /\ w \notin todo /\ w \in watches[trail[i]]
  BY <1>1, <1>2, <1>5
<1>8. WatchOK(assigns, level, trail, watches, clause, qhead, todo, Upto)
  BY DEF IInv
<1>9. assigns[var(OtherWatch(w, trail[i], clause))] = OtherWatch(w, trail[i], clause)
  BY <1>6, <1>7, <1>8 DEF WatchOK
<1>10. QED
  BY <1>5, <1>9 DEF IsTrue

(* An allocated clause, or a binary one in the watch lists.                *)
LEMMA ClausePropagated ==
  ASSUME IInv, Deciding, NEW c \in Address, clause[c] # Free
  PROVE  \/ \E p \in Lits(c) : IsTrue(p)
         \/ \E p, q \in Lits(c) : p # q /\ IsUndef(p) /\ IsUndef(q)
<1> DEFINE f == clause[c].first
           s == clause[c].second
<1>1. /\ SweptOK(assigns, level, reason, clause, watches, Cleared) /\ ClausesOK(clause)
      /\ clause \in [Address -> Clauses \cup {Free}]
  BY DEF IInv, Sound, Typed
<1>2. f \in Lit /\ s \in Lit /\ f # s /\ f \in Lits(c) /\ s \in Lits(c)
  BY <1>1, ClauseType DEF ClausesOK, Lits
<1>3. CASE Retired(assigns, level, reason, clause, c)
  BY <1>2, <1>3 DEF Retired, IsTrue
<1>4. CASE ~ Retired(assigns, level, reason, clause, c)
  <2>1. Pointer(c) \in watches[- f] /\ Pointer(c) \in watches[- s]
    BY <1>1, <1>4 DEF SweptOK, Held
  <2>2. OtherWatch(Pointer(c), - f, clause) = s /\ OtherWatch(Pointer(c), - s, clause) = f
    <3>1. - (- f) = f /\ - (- s) = s
      BY <1>2, LitFacts
    <3>2. QED
      BY <1>2, <3>1, TagsDiffer DEF OtherWatch
  <2>3. IsFalse(f) => IsTrue(s)
    BY <1>2, <2>1, <2>2, FalseWatch
  <2>4. IsFalse(s) => IsTrue(f)
    BY <1>2, <2>1, <2>2, FalseWatch
  <2>5. /\ IsTrue(f) \/ IsFalse(f) \/ IsUndef(f)
        /\ IsTrue(s) \/ IsFalse(s) \/ IsUndef(s)
    BY <1>2, ThreeValues
  <2>6. QED
    BY <1>2, <2>3, <2>4, <2>5
<1>5. QED
  BY <1>3, <1>4

LEMMA BinaryPropagated ==
  ASSUME IInv, Deciding, NEW p \in Lit, NEW q \in Lit, Literal(q) \in watches[- p]
  PROVE  IsTrue(p) \/ IsTrue(q) \/ (p # q /\ IsUndef(p) /\ IsUndef(q))
<1>1. BinaryOK(watches) /\ - p \in Lit /\ - (- p) = p
  BY LitFacts DEF IInv, Sound
<1>2. q # p /\ Literal(p) \in watches[- q]
  BY <1>1 DEF BinaryOK
<1>3. OtherWatch(Literal(q), - p, clause) = q /\ OtherWatch(Literal(p), - q, clause) = p
  BY TagsDiffer DEF OtherWatch
<1>4. IsFalse(p) => IsTrue(q)
  BY <1>3, FalseWatch
<1>5. IsFalse(q) => IsTrue(p)
  BY <1>2, <1>3, FalseWatch
<1>6. /\ IsTrue(p) \/ IsFalse(p) \/ IsUndef(p)
      /\ IsTrue(q) \/ IsFalse(q) \/ IsUndef(q)
  BY ThreeValues
<1>7. QED
  BY <1>2, <1>4, <1>5, <1>6

LEMMA PropagationHolds ==
  ASSUME IInv
  PROVE  PropagationComplete
<1> DEFINE Done(ps) == \/ \E p \in ps : IsTrue(p) \/ - p \in ps
                       \/ \E p, q \in ps : p # q /\ IsUndef(p) /\ IsUndef(q)
<1>1. ASSUME Deciding, NEW c \in Address, clause[c] # Free, NEW ps, Lits(c) \subseteq ps PROVE Done(ps)
  <2>1. \/ \E p \in Lits(c) : IsTrue(p)
        \/ \E p, q \in Lits(c) : p # q /\ IsUndef(p) /\ IsUndef(q)
    BY <1>1, ClausePropagated
  <2>2. QED
    BY <1>1, <2>1
<1>2. ASSUME Deciding, NEW ps \in problem PROVE Done(ps)
  <2>1. CoveredOK(assigns, level, clause, watches, problem) /\ problem \in SUBSET SUBSET Lit
    BY <1>2, DecidingIs DEF IInv, Sound, Typed
  <2>2. CASE \E c \in Address : clause[c] # Free /\ Lits(c) \subseteq ps
    BY <1>1, <1>2, <2>2
  <2>3. CASE \E p, q \in ps : Literal(q) \in watches[- p]
    <3>1. PICK p \in ps, q \in ps : Literal(q) \in watches[- p]
      BY <2>3
    <3>2. p \in Lit /\ q \in Lit
      BY <2>1
    <3>3. IsTrue(p) \/ IsTrue(q) \/ (p # q /\ IsUndef(p) /\ IsUndef(q))
      BY <1>2, <3>1, <3>2, BinaryPropagated
    <3>4. QED
      BY <3>1, <3>3
  <2>4. CASE \E p \in ps : - p \in ps \/ IsTrue(p)
    BY <2>4
  <2>5. QED
    BY <2>1, <2>2, <2>3, <2>4 DEF CoveredOK, Lits, IsTrue
<1>3. ASSUME Deciding, NEW ps \in problem \cup {Lits(c) : c \in Allocated} PROVE Done(ps)
  <2>1. CASE ps \in problem
    BY <1>2, <1>3, <2>1
  <2>2. CASE ps \in {Lits(c) : c \in Allocated}
    BY <1>1, <1>3, <2>2 DEF Allocated
  <2>3. QED
    BY <1>3, <2>1, <2>2
<1>4. QED
  BY <1>3 DEF PropagationComplete

-----------------------------------------------------------------------------
(* The answer, which stays as it is: no step leads out of it.              *)

Answered(md, nv, pb) ==
  /\ \A x \in 1 .. nv : md[x] # l_Undef
  /\ Satisfies({md[x] : x \in Var}, pb)
  /\ (\A ps \in pb : ps \subseteq Var /\ ps # {}) => {x \in Var : md[x] = x} \in Solutions(pb)

AnswerOK ==
  /\ at = "unsatisfiable" => ok = FALSE
  /\ at = "satisfiable" => Answered(model, nVars, problem)

(* Every variable of the problem has a value when none is left in the heap.*)
LEMMA AllAssigned ==
  ASSUME IInv, Deciding, order \cap Undefined = {}
  PROVE  /\ \A x \in 1 .. nVars : assigns[x] # l_Undef
         /\ \A ps \in problem : \E p \in ps : p \in Lit /\ IsTrue(p)
<1>1. at # "satisfiable" /\ problem \in SUBSET SUBSET Lit
  BY DecidingIs DEF IInv, Sound, Typed
<1>2. \A x \in 1 .. nVars : assigns[x] # l_Undef
  BY <1>1 DEF IInv, HeapOK, Undefined
<1>3. ASSUME NEW ps \in problem PROVE \E p \in ps : p \in Lit /\ IsTrue(p)
  <2>1. ps \subseteq Lit
    BY <1>1
  <2>2. ASSUME NEW p \in ps PROVE ~ IsUndef(p)
    <3>1. var(p) <= nVars /\ nVars \in 0 .. NVars
      BY <1>3, <2>2 DEF IInv, PhaseOK, TypeOK
    <3>2. var(p) \in Var
      BY <2>1, LitFacts
    <3>3. var(p) \in 1 .. nVars
      BY <3>1, <3>2, SolverAssumption DEF Var
    <3>4. QED
      BY <1>2, <3>3 DEF IsUndef
  <2>3. PropagationComplete
    BY PropagationHolds
  <2>4. \/ \E p \in ps : IsTrue(p) \/ - p \in ps
        \/ \E p, q \in ps : p # q /\ IsUndef(p) /\ IsUndef(q)
    BY <1>3, <2>3 DEF PropagationComplete
  <2>5. ASSUME NEW p \in ps, - p \in ps PROVE IsTrue(p) \/ IsTrue(- p)
    <3>1. IsTrue(p) \/ IsFalse(p)
      BY <2>1, <2>2, ThreeValues
    <3>2. var(- p) = var(p)
      BY <2>1, LitFacts
    <3>3. QED
      BY <3>1, <3>2 DEF IsTrue, IsFalse
  <2>6. PICK p \in ps : IsTrue(p) \/ - p \in ps
    BY <2>2, <2>4
  <2>7. QED
    BY <2>1, <2>5, <2>6
<1>4. QED
  BY <1>2, <1>3

(* Without negation in the problem, a positive literal that is true is the *)
(* only one in some clause: the one it was implied by.                     *)
LEMMA Needed ==
  ASSUME IInv, IsPositive, NEW l \in Var, assigns[l] = l
  PROVE  \E ps \in problem : l \in ps /\ \A y \in ps : assigns[y] = y => y = l
<1>1. /\ TrailOK(assigns, trail) /\ LevelsOK(level, trail, trail_lim) /\ trail \in Seq(Lit)
      /\ PositiveClauses(problem, clause, watches) /\ PositiveFacts(problem, level, reason, trail)
      /\ ReasonsOK(assigns, level, reason, trail, clause) /\ reason \in [Var -> GClauses]
  BY Between DEF IInv, Sound, Typed, PositiveOK
<1>2. l \in Int /\ l > 0 /\ var(l) = l /\ l # l_Undef
  BY VarFacts DEF l_Undef
<1>3. PICK i \in 1 .. Len(trail) : trail[i] = l /\ var(trail[i]) = l
  BY <1>1, <1>2, LevelRange
<1>4. /\ reason[l] = NULL => {l} \in problem
      /\ reason[l][1] = "lit" => {l, - reason[l][2]} \in problem
      /\ reason[l] # NULL => ReasonOK(assigns, level, trail, clause, reason[l], i)
  <2>1. ~ (trail[i] < 0)
    BY <1>2, <1>3
  <2>2. /\ reason[var(trail[i])] = NULL => {trail[i]} \in problem
        /\ reason[var(trail[i])][1] = "lit" => {trail[i], - reason[var(trail[i])][2]} \in problem
    BY <1>1, <2>1 DEF PositiveFacts
  <2>3. reason[var(trail[i])] # NULL
          => ReasonOK(assigns, level, trail, clause, reason[var(trail[i])], i)
    BY <1>1 DEF ReasonsOK
  <2>4. QED
    BY <1>3, <2>2, <2>3
<1>5. \/ \E p \in Lit : reason[l] = Literal(p) /\ reason[l][1] = "lit" /\ reason[l][2] = p
      \/ \E c \in Address : reason[l] = Pointer(c) /\ reason[l][1] = "clause" /\ reason[l][2] = c
      \/ reason[l] = NULL
  BY <1>1, GClauseIs
<1>6. ASSUME NEW ps \in problem, NEW y \in ps, assigns[var(y)] = - y PROVE assigns[y] # y
  <2>1. y \in Var
    BY <1>6 DEF IsPositive
  <2>2. var(y) = y /\ y \in Int /\ y > 0
    BY <2>1, VarFacts
  <2>3. QED
    BY <1>6, <2>2
<1>7. CASE reason[l] = NULL
  BY <1>4, <1>7
<1>8. ASSUME NEW p \in Lit, reason[l] = Literal(p), reason[l][1] = "lit", reason[l][2] = p
      PROVE  \E ps \in problem : l \in ps /\ \A y \in ps : assigns[y] = y => y = l
  <2>1. {l, - p} \in problem /\ assigns[var(p)] = p
    BY <1>4, <1>8, TagsDiffer DEF ReasonOK
  <2>2. assigns[var(- p)] = - (- p)
    BY <2>1, LitFacts
  <2>3. assigns[- p] # - p
    BY <1>6, <2>1, <2>2
  <2>4. QED
    BY <2>1, <2>3
<1>9. ASSUME NEW c \in Address, reason[l] = Pointer(c), reason[l][1] = "clause", reason[l][2] = c
      PROVE  \E ps \in problem : l \in ps /\ \A y \in ps : assigns[y] = y => y = l
  <2> DEFINE others == {clause[c].second} \cup clause[c].rest
  <2>1. /\ clause[c] # Free /\ clause[c].first = l
        /\ \A q \in OthersIn(reason[l], clause) : assigns[var(q)] = - q
    BY <1>3, <1>4, <1>9, TagsDiffer DEF ReasonOK
  <2>2. OthersIn(reason[l], clause) = others
    BY <1>9 DEF OthersIn
  <2>3. {clause[c].first, clause[c].second} \cup clause[c].rest \in problem
    BY <1>1, <2>1 DEF PositiveClauses
  <2>4. {l} \cup others \in problem
    <3>1. {l} \cup others = {clause[c].first, clause[c].second} \cup clause[c].rest
      BY <2>1
    <3>2. QED
      BY <2>3, <3>1
  <2>5. \A q \in others : assigns[q] # q
    BY <1>6, <2>1, <2>2, <2>4
  <2>6. QED
    BY <2>4, <2>5
<1>10. QED
  BY <1>5, <1>7, <1>8, <1>9

LEMMA ModelIs ==
  ASSUME IInv, Deciding, order \cap Undefined = {}
  PROVE  Answered(assigns, nVars, problem)
<1>1. /\ \A x \in 1 .. nVars : assigns[x] # l_Undef
      /\ \A ps \in problem : \E p \in ps : p \in Lit /\ IsTrue(p)
  BY AllAssigned
<1>2. Satisfies({assigns[x] : x \in Var}, problem)
  <2>1. ASSUME NEW p \in Lit, IsTrue(p) PROVE p \in {assigns[x] : x \in Var}
    BY <2>1, LitFacts DEF IsTrue
  <2>2. QED
    BY <1>1, <2>1 DEF Satisfies
<1>3. ASSUME \A ps \in problem : ps \subseteq Var /\ ps # {}
      PROVE  {x \in Var : assigns[x] = x} \in Solutions(problem)
  <2> DEFINE L == {x \in Var : assigns[x] = x}
  <2>1. IsPositive
    BY <1>3 DEF IsPositive
  <2>2. ASSUME NEW ps \in problem PROVE ps \cap L # {}
    <3>1. PICK p \in ps : IsTrue(p)
      BY <1>1, <2>2
    <3>2. p \in Var /\ var(p) = p
      BY <1>3, <2>2, VarFacts
    <3>3. QED
      BY <3>1, <3>2 DEF IsTrue
  <2>3. ASSUME NEW l \in L PROVE \E ps \in problem : l \in ps /\ ps \cap (L \ {l}) = {}
    <3>1. PICK ps \in problem : l \in ps /\ \A y \in ps : assigns[y] = y => y = l
      BY <2>1, <2>3, Needed
    <3>2. QED
      BY <3>1
  <2>4. L \in SUBSET UNION problem
    BY <2>3
  <2>5. QED
    BY <2>2, <2>3, <2>4 DEF Solutions, Hits
<1>4. QED
  BY <1>1, <1>2, <1>3 DEF Answered

LEMMA AnswerNext ==
  ASSUME IInv, AnswerOK, [Next]_vars
  PROVE  AnswerOK'
<1>1. ASSUME at' # "unsatisfiable", at' # "satisfiable" PROVE AnswerOK'
  BY <1>1 DEF AnswerOK
<1>2. ASSUME UNCHANGED <<at, ok, model, nVars, problem>> PROVE AnswerOK'
  BY <1>2 DEF AnswerOK, Answered
<1>3. ASSUME NEW w \in GClauses, Visit(w) \/ Conflict(w) PROVE AnswerOK'
  <2>1. CASE Visit(w)
    <3>1. at = "propagate" /\ at' = at
      BY <2>1 DEF Visit, KeepWatch, NewWatch, Imply
    <3>2. QED
      BY <1>1, <3>1
  <2>2. CASE Conflict(w)
    <3>1. (at' = "unsatisfiable" /\ ok' = FALSE) \/ at' = "analyze"
      BY <2>2 DEF Conflict
    <3>2. QED
      BY <3>1 DEF AnswerOK
  <2>3. QED
    BY <1>3, <2>1, <2>2
<1>4. CASE addClause
  <2>1. at = "adding" /\ at' = at
    BY <1>4 DEF addClause
  <2>2. QED
    BY <1>1, <2>1
<1>5. CASE solve
  <2>1. at' = IF ok THEN "propagate" ELSE "unsatisfiable"
    BY <1>5 DEF solve
  <2>2. ok' = ok /\ ok \in BOOLEAN
    BY <1>5 DEF solve, IInv, TypeOK
  <2>3. QED
    BY <2>1, <2>2 DEF AnswerOK
<1>6. CASE Dequeue
  <2>1. at = "propagate" /\ at' = at
    BY <1>6 DEF Dequeue
  <2>2. QED
    BY <1>1, <2>1
<1>7. CASE analyze
  <2>1. at = "analyze" /\ (at' = "learn" \/ at' = at)
    BY <1>7 DEF analyze
  <2>2. QED
    BY <1>1, <2>1
<1>8. CASE Learn \/ Decide
  <2>1. at' = "propagate"
    BY <1>8 DEF Learn, Decide
  <2>2. QED
    BY <1>1, <2>1
<1>9. CASE Restart \/ reduceDB
  <2>1. UNCHANGED <<at, ok, model, nVars, problem>>
    BY <1>9 DEF Restart, reduceDB, given
  <2>2. QED
    BY <1>2, <2>1
<1>10. CASE simplifyDB
  <2>1. at' = "decide"
    BY <1>10 DEF simplifyDB
  <2>2. QED
    BY <1>1, <2>1
<1>11. CASE ModelFound
  <2>1. /\ Deciding /\ order \cap Undefined = {} /\ at' = "satisfiable"
        /\ model' = assigns /\ UNCHANGED <<nVars, problem>>
    BY <1>11 DEF ModelFound, given
  <2>2. Answered(assigns, nVars, problem)
    BY <2>1, ModelIs
  <2>3. QED
    BY <2>1, <2>2 DEF AnswerOK, Answered
<1>12. CASE UNCHANGED vars
  <2>1. UNCHANGED <<at, ok, model, nVars, problem>>
    BY <1>12 DEF vars, given
  <2>2. QED
    BY <1>2, <2>1
<1>13. QED
  BY <1>3, <1>4, <1>5, <1>6, <1>7, <1>8, <1>9, <1>10, <1>11, <1>12 DEF Next

LEMMA Invariant == Spec => [](IInv /\ AnswerOK)
<1>1. Init => IInv /\ AnswerOK
  <2>1. Init => AnswerOK
    BY DEF Init, AnswerOK
  <2>2. QED
    BY <2>1, InitInv
<1>2. (IInv /\ AnswerOK) /\ [Next]_vars => (IInv /\ AnswerOK)'
  BY NextInv, AnswerNext
<1>3. QED
  BY <1>1, <1>2, PTL DEF Spec

-----------------------------------------------------------------------------
(* What follows from the invariant.                                        *)

LEMMA PositionIs ==
  ASSUME IInv, NEW i \in 1 .. Len(trail)
  PROVE  Position(var(trail[i])) = i
<1>1. TrailOK(assigns, trail)
  BY Between
<1>2. assigns[var(trail[i])] = trail[i] /\ \A j \in 1 .. Len(trail) : trail[j] = trail[i] => j = i
  BY <1>1 DEF TrailOK
<1>3. QED
  BY <1>2 DEF Position

LEMMA OthersSame ==
  ASSUME NEW r
  PROVE  Others(r) = OthersIn(r, clause)
BY DEF Others, OthersIn

LEMMA ReasonsHold ==
  ASSUME IInv
  PROVE  ReasonsAreUnit
<1>1. SUFFICES ASSUME NEW x \in Var, reason[x] # NULL
               PROVE  /\ assigns[x] # l_Undef
                      /\ reason[x][1] = "lit" => IsTrue(reason[x][2])
                      /\ reason[x][1] = "clause" =>
                           /\ clause[reason[x][2]].first = assigns[x]
                           /\ \A q \in Others(reason[x]) : IsFalse(q)
                      /\ \A y \in Antecedents(x) : Position(y) < Position(x) /\ level[y] <= level[x]
                      /\ \E y \in Antecedents(x) : level[y] = level[x]
  BY DEF ReasonsAreUnit
<1>2. /\ TrailOK(assigns, trail) /\ LevelsOK(level, trail, trail_lim) /\ trail \in Seq(Lit)
      /\ trail_lim \in Seq(Nat) /\ ReasonsOK(assigns, level, reason, trail, clause)
      /\ Len(trail) \in Nat
  BY Between DEF IInv, Sound, Typed
<1>3. assigns[x] # l_Undef
  BY <1>1, <1>2 DEF ReasonsOK
<1>4. PICK i \in 1 .. Len(trail) : trail[i] = assigns[x] /\ var(trail[i]) = x
  BY <1>2, <1>3, LevelRange
<1>5. ReasonOK(assigns, level, trail, clause, reason[x], i)
  BY <1>1, <1>2, <1>4 DEF ReasonsOK
<1>6. Others(reason[x]) = OthersIn(reason[x], clause)
  BY OthersSame
<1>7. /\ reason[x][1] = "lit" => IsTrue(reason[x][2])
      /\ reason[x][1] = "clause" => /\ clause[reason[x][2]].first = assigns[x]
                                    /\ \A q \in Others(reason[x]) : IsFalse(q)
  BY <1>4, <1>5, <1>6 DEF ReasonOK, IsTrue, IsFalse
<1>8. ASSUME NEW y \in Antecedents(x) PROVE Position(y) < Position(x) /\ level[y] <= level[x]
  <2>1. PICK q \in OthersIn(reason[x], clause) : y = var(q)
    BY <1>6 DEF Antecedents
  <2>2. PICK j \in 1 .. i - 1 : var(trail[j]) = y
    BY <1>5, <2>1 DEF ReasonOK
  <2>3. j \in 1 .. Len(trail) /\ j < i /\ j <= i
    BY <1>2
  <2>4. Position(y) = j /\ Position(x) = i
    BY <1>4, <2>2, <2>3, PositionIs
  <2>5. level[var(trail[j])] <= level[var(trail[i])]
    BY <1>2, <2>3, LevelsMonotone
  <2>6. QED
    BY <1>4, <2>2, <2>3, <2>4, <2>5
<1>9. \E y \in Antecedents(x) : level[y] = level[x]
  BY <1>4, <1>5, <1>6 DEF ReasonOK, Antecedents
<1>10. QED
  BY <1>3, <1>7, <1>8, <1>9

LEMMA LearntHolds ==
  ASSUME IInv
  PROVE  LearntIsAsserting
<1>1. at = "analyze" => look # {}
  BY DEF IInv, AnalysisOK
<1>2. ASSUME at = "learn"
      PROVE  /\ Implied(Minimized \cup {asserting})
             /\ IsFalse(asserting) /\ level[var(asserting)] = decisionLevel
             /\ \A q \in out_learnt : IsFalse(q) /\ level[var(q)] < decisionLevel
             /\ out_btlevel = 0 \/ \E q \in Minimized : level[var(q)] = out_btlevel
  <2>1. /\ out_btlevel \in 0 .. Len(trail_lim) /\ out_btlevel < Len(trail_lim) /\ Len(trail_lim) \in Nat
        /\ IsFalse(asserting) /\ level[var(asserting)] = Len(trail_lim)
        /\ \A q \in out_learnt : IsFalse(q) /\ level[var(q)] \in 1 .. out_btlevel
        /\ ImpliedBy(problem, Minimized \cup {asserting})
        /\ Minimized = {} => out_btlevel = 0
        /\ Minimized # {} => \E q \in Minimized : level[var(q)] = out_btlevel
    BY <1>2, MinimizedIs
  <2>2. Implied(Minimized \cup {asserting})
    BY <2>1 DEF Implied, ImpliedBy
  <2>3. decisionLevel = Len(trail_lim)
    BY DEF decisionLevel
  <2>4. \A q \in out_learnt : level[var(q)] < decisionLevel
    BY <2>1, <2>3
  <2>5. QED
    BY <2>1, <2>2, <2>3, <2>4
<1>3. QED
  BY <1>1, <1>2 DEF LearntIsAsserting

LEMMA ListsHold ==
  ASSUME IInv
  PROVE  ListsHoldTheirClauses
<1>1. /\ BinaryOK(watches) /\ PointersOK(watches, clause)
      /\ SweptOK(assigns, level, reason, clause, watches, Cleared)
      /\ ReasonsOK(assigns, level, reason, trail, clause)
      /\ TrailOK(assigns, trail) /\ LevelsOK(level, trail, trail_lim) /\ trail \in Seq(Lit)
      /\ watches \in [Lit -> SUBSET (GClauses \ {NULL})]
      /\ clause \in [Address -> Clauses \cup {Free}]
  BY DEF IInv, Sound, Typed
<1>2. ASSUME NEW p \in Lit, NEW w \in watches[p]
      PROVE  IF w[1] = "lit" THEN Watched(Literal(- p), - w[2])
             ELSE clause[w[2]] # Free /\ - p \in {clause[w[2]].first, clause[w[2]].second}
  <2>1. w \in GClauses \ {NULL}
    BY <1>1
  <2>2. ASSUME w[1] = "lit", w[2] \in Lit, w = Literal(w[2]) PROVE Watched(Literal(- p), - w[2])
    BY <1>1, <2>2 DEF BinaryOK, Watched
  <2>3. ASSUME w[2] \in Address, w = Pointer(w[2])
        PROVE  clause[w[2]] # Free /\ - p \in {clause[w[2]].first, clause[w[2]].second}
    BY <1>1, <2>3 DEF PointersOK
  <2>4. QED
    BY <2>1, <2>2, <2>3, WatchIs
<1>3. ASSUME NEW x \in Var, reason[x][1] = "clause" PROVE clause[reason[x][2]] # Free
  <2>1. reason[x] # NULL
    BY <1>3, TagsDiffer
  <2>2. assigns[x] # l_Undef
    BY <1>1, <2>1 DEF ReasonsOK
  <2>3. PICK i \in 1 .. Len(trail) : trail[i] = assigns[x] /\ var(trail[i]) = x
    BY <1>1, <2>2, LevelRange
  <2>4. ReasonOK(assigns, level, trail, clause, reason[x], i)
    BY <1>1, <2>1, <2>3 DEF ReasonsOK
  <2>5. QED
    BY <1>3, <2>4 DEF ReasonOK
<1>4. ASSUME NEW c \in Allocated
      PROVE  Watched(Pointer(c), - clause[c].first) /\ Watched(Pointer(c), - clause[c].second)
  <2>1. c \in Address /\ clause[c] # Free
    BY <1>4 DEF Allocated
  <2>2. Held(watches, Cleared, c, clause[c].first) /\ Held(watches, Cleared, c, clause[c].second)
    BY <1>1, <2>1 DEF SweptOK
  <2>3. \A p \in Cleared : watches[p] = {} /\ watches[- p] = {}
    BY <1>1 DEF SweptOK
  <2>4. QED
    BY <2>2, <2>3 DEF Held, Watched
<1>5. QED
  BY <1>2, <1>3, <1>4 DEF ListsHoldTheirClauses

LEMMA VerdictHolds ==
  ASSUME IInv, AnswerOK
  PROVE  VerdictIsRight
<1>1. ASSUME at = "unsatisfiable", NEW A \in Assignments PROVE ~ Satisfies(A, problem)
  <2>1. ImpliedBy(problem, {})
    BY <1>1 DEF IInv, AnswerOK, PhaseOK
  <2>2. QED
    BY <2>1 DEF ImpliedBy
<1>2. QED
  BY <1>1 DEF AnswerOK, Answered, VerdictIsRight

LEMMA MinimalHolds ==
  ASSUME IInv, AnswerOK
  PROVE  ModelIsMinimal
<1>1. IsPositive => at \notin {"analyze", "learn", "unsatisfiable"}
  BY DEF IInv, PositiveOK
<1>2. ASSUME IsPositive, at = "satisfiable" PROVE {x \in Var : model[x] = x} \in Solutions(problem)
  BY <1>2 DEF IsPositive, AnswerOK, Answered
<1>3. QED
  BY <1>1, <1>2 DEF ModelIsMinimal

-----------------------------------------------------------------------------
(* Theorems: for any formulas, any number of variables and addresses.      *)

(* The state of the solver keeps its types (the fields of Solver).         *)
THEOREM TypeCorrect == Spec => []TypeOK
<1>1. IInv /\ AnswerOK => TypeOK
  BY DEF IInv
<1>2. QED
  BY <1>1, Invariant, PTL

(* A reason was unit when it was used, and stays in memory, with the       *)
(* literal in front, as long as it is one (enqueue, propagate, reduceDB).  *)
THEOREM ReasonsStayUnit == Spec => []ReasonsAreUnit
<1>1. IInv /\ AnswerOK => ReasonsAreUnit
  BY ReasonsHold
<1>2. QED
  BY <1>1, Invariant, PTL

(* Propagation misses no clause with one literal left, nor a conflict:     *)
(* backjumps, restarts, learning, and removals lose no watch (propagate,   *)
(* cancelUntil, simplifyDB, reduceDB).                                     *)
THEOREM PropagationMissesNothing == Spec => []PropagationComplete
<1>1. IInv /\ AnswerOK => PropagationComplete
  BY PropagationHolds
<1>2. QED
  BY <1>1, Invariant, PTL

(* The learnt clause, minimized as it is, follows from the problem and is  *)
(* unit after the backjump (analyze, analyze_removable).                   *)
THEOREM LearntFollows == Spec => []LearntIsAsserting
<1>1. IInv /\ AnswerOK => LearntIsAsserting
  BY LearntHolds
<1>2. QED
  BY <1>1, Invariant, PTL

(* Watch lists and reasons name no freed clause, and hold every clause     *)
(* that has to be taken out of them (removeWatch, remove).                 *)
THEOREM ListsAreRight == Spec => []ListsHoldTheirClauses
<1>1. IInv /\ AnswerOK => ListsHoldTheirClauses
  BY ListsHold
<1>2. QED
  BY <1>1, Invariant, PTL

(* Both answers of the solver are right (solve).                           *)
THEOREM SolverIsSound == Spec => []VerdictIsRight
<1>1. IInv /\ AnswerOK => VerdictIsRight
  BY VerdictHolds
<1>2. QED
  BY <1>1, Invariant, PTL

(* On clauses without negation there is no conflict, and the model is a    *)
(* minimal hitting set (AddToSolver, Solve).                               *)
THEOREM PositiveModelsAreMinimal == Spec => []ModelIsMinimal
<1>1. IInv /\ AnswerOK => ModelIsMinimal
  BY MinimalHolds
<1>2. QED
  BY <1>1, Invariant, PTL
=============================================================================
