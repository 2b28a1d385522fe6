---------------------------- MODULE Constraints ----------------------------
(***************************************************************************)
(* From the trace of a run to fences: which accesses of the trace count,   *)
(* which instructions overtook a buffered store in it, and which fences a  *)
(* set of such findings calls for. The trace is rwtrace_rec of Interpreter;*)
(* the operators are total on traces and say nothing of who made them.     *)
(*                                                                         *)
(* A literal stands for the fence that keeps instruction next from         *)
(* overtaking store st: an sl literal when next is a load, an ss literal   *)
(* when it is a store. The code numbers literals; here a literal is its    *)
(* pair of labels, the key of mapToLit and mapToLit_ss.                    *)
(***************************************************************************)
EXTENDS Interpreter, SequencesExt, HittingSets

Literal == [kind : {"sl", "ss"}, st : Nat, next : Nat]
Lit(kind, e, f) == [kind |-> kind, st |-> e.label, next |-> f.label]

-----------------------------------------------------------------------------
(* FindSharedRW, with Params::logging on: the positions of the accesses    *)
(* and flushes between a SPAWN and the next JOIN. All locations count as   *)
(* shared.                                                                 *)

Boundaries(trace, k) == {j \in 1 .. k : trace[j].type \in {"SPAWN", "JOIN"}}
Between(trace, k) ==
  /\ trace[k].type # "SPAWN"
  /\ \E j \in Boundaries(trace, k) :
        trace[j].type = "SPAWN" /\ \A i \in Boundaries(trace, k) : i <= j

FindSharedRW(trace) == {k \in 1 .. Len(trace) : Between(trace, k)}

-----------------------------------------------------------------------------
(* GenerateClauses: the stores a thread had buffered, reconstructed from   *)
(* its records in order, and the literals for what overtook them. A store  *)
(* is the position of its record, so a set of them is in order.            *)

Earliest(S) == {k \in S : \A j \in S : k <= j}
To(trace, buffer, loc) == {k \in buffer : trace[k].loc = loc}

(* Mutants: a fence leaves the buffer, the newest store is taken out, and  *)
(* flushes are overlooked.                                                 *)
StoreBufferAcrossFences(trace, buffer, n) ==
  LET e == trace[n]
  IN  CASE e.type = "WRITE"            -> buffer \cup {n}
        [] e.type = "FLUSH_RANDOM_TSO" -> buffer \ Earliest(buffer)
        [] e.type = "FLUSH_RANDOM_PSO" -> buffer \ Earliest(To(trace, buffer, e.loc))
        [] OTHER                       -> buffer
StoreBufferUnflushed(trace, buffer, n) ==
  LET e == trace[n]
  IN  IF e.label = 0 THEN {} ELSE IF e.type = "WRITE" THEN buffer \cup {n} ELSE buffer
StoreStack(trace, buffer, n) ==
  LET e == trace[n]
  IN  IF e.label = 0 THEN {}
      ELSE CASE e.type = "WRITE"            -> buffer \cup {n}
             [] e.type = "FLUSH_RANDOM_TSO" -> {k \in buffer : \E j \in buffer : k < j}
             [] OTHER                       -> buffer

(* Records with label 0 (fences, and an atomic instruction under TSO) end  *)
(* a segment of the trace; the next one begins with an empty buffer.       *)
StoreBuffer(trace, buffer, n) ==
  LET e == trace[n]
  IN  IF e.label = 0 THEN {}
      ELSE CASE e.type = "WRITE"            -> buffer \cup {n}
             [] e.type = "FLUSH_RANDOM_TSO" -> buffer \ Earliest(buffer)
             [] e.type = "FLUSH_RANDOM_PSO" -> buffer \ Earliest(To(trace, buffer, e.loc))
             [] e.type = "FLUSH_CAS_PSO"    -> buffer \ To(trace, buffer, e.loc)
             [] OTHER                       -> buffer

Overtaken(trace, buffer, n) == buffer \ To(trace, buffer, trace[n].loc)
Literals(trace, buffer, n) ==
  LET e == trace[n]
      over(kind) == {Lit(kind, trace[k], e) : k \in Overtaken(trace, buffer, n)}
  IN  CASE e.label # 0 /\ e.type = "READ"                 -> over("sl")
        [] e.label # 0 /\ e.type = "WRITE" /\ WMM = "PSO" -> over("ss")
        [] OTHER                                          -> {}

(* The buffer after each record of the trace, for the thread whose records *)
(* are at the positions own.                                               *)
Buffered(trace, own) ==
  LET buffer[n \in 0 .. Len(trace)] ==
        IF n = 0 THEN {}
        ELSE IF n \in own THEN StoreBuffer(trace, buffer[n - 1], n) ELSE buffer[n - 1]
  IN  buffer

GenerateClauses(trace, own) ==
  UNION {Literals(trace, Buffered(trace, own)[n - 1], n) : n \in own}

(* Mutant: the records of fences, which have no label, are left out as no  *)
(* accesses.                                                               *)
OfAccesses(trace, t) == {k \in FindSharedRW(trace) : trace[k].thr = t /\ trace[k].label # 0}

(* Calculate: the trace of each thread by itself. It asserts that every    *)
(* thread that was made has a trace and that it begins with a label.       *)
Of(trace, t) == {k \in FindSharedRW(trace) : trace[k].thr = t}
Asserted(trace, T) == \A t \in T : \E k \in Earliest(Of(trace, t)) : trace[k].label # 0
Calculate(trace, T) == UNION {GenerateClauses(trace, Of(trace, t)) : t \in T}

-----------------------------------------------------------------------------
(***************************************************************************)
(* Merge: literals whose store is in solvedStores are dropped, the others' *)
(* stores put there. A store is looked up by label in instrLabelMap; ss    *)
(* literals are not in the map that Merge searches, so they all get label  *)
(* 0, for which there is no instruction (NULL): of the ss literals one is  *)
(* kept, once, which one depends on their numbers. The result is the       *)
(* fences to insert, each with the store it goes after.                    *)
(***************************************************************************)
NULL == 0
OfKind(L, kind) == {l \in L : l.kind = kind}
FencesOf(L) == {[after |-> l.st, op |-> IF l.kind = "sl" THEN "membar_sl" ELSE "membar_ss"] : l \in L}

Merge(L, solved) ==
  LET sl == {l \in OfKind(L, "sl") : l.st \notin solved}
      ss == OfKind(L, "ss")
  IN  IF ss = {} \/ NULL \in solved THEN {FencesOf(sl)} ELSE {FencesOf(sl \cup {l}) : l \in ss}

SolvedStores(L, solved) ==
  solved \cup {l.st : l \in OfKind(L, "sl")} \cup (IF OfKind(L, "ss") = {} THEN {} ELSE {NULL})

-----------------------------------------------------------------------------
(* InsertFences: a call of the fence right after the store, with label 0.  *)
(* Branches go on to where they went.                                      *)

FenceCalls(i, F) ==
  SetToSeq({[op |-> f.op, addr |-> i.addr, x |-> i.x, y |-> i.y, fn |-> i.fn, to |-> 1, label |-> 0] :
              f \in {f \in F : f.after = i.label /\ i.label # 0}})

InsertInto(body, F) ==
  LET shifted(k) == k + FoldLeft(LAMBDA n, i : n + Len(FenceCalls(i, F)), 0, SubSeq(body, 1, k - 1))
      moved(i) == IF i.op = "br" THEN [i EXCEPT !.to = shifted(i.to)] ELSE i
  IN  FlattenSeq([k \in DOMAIN body |-> <<moved(body[k])>> \o FenceCalls(body[k], F)])

InsertFences(M, F) == [f \in DOMAIN M |-> InsertInto(M[f], F)]
=============================================================================
