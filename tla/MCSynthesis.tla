---------------------------- MODULE MCSynthesis ----------------------------
(***************************************************************************)
(* A client for the synthesis: a set of which the elements are cells of    *)
(* their own, with two threads that add elements and look for them.        *)
(***************************************************************************)
EXTENDS Synthesis, ClientCode

ASSUME PlainAssumption == PlainPrograms /\ ForkJoin /\ GlobalPrograms /\ OrderlyPrograms

Cell(v) == <<"x", "y", "z">>[v]

(* linkset_add(v) and linkset_contains(v) for elements 1 to 3.             *)
Add == <<BrIf(1, 6), BrIf(2, 9), St(Cell(3), 1), Set(1), Ret,
         St(Cell(1), 1), Set(1), Ret, St(Cell(2), 1), Set(1), Ret>>
Look == <<BrIf(1, 5), BrIf(2, 7), Ld(Cell(3)), Ret, Ld(Cell(1)), Ret, Ld(Cell(2)), Ret>>

(* main works beside w; the bodies are numbered one after the other.       *)
SetClient(ops, wops) ==
  LET main == <<SpawnThread("w")>> \o ops \o <<JoinAll, Ret>>
      w == wops \o <<Ret>>
  IN  [main |-> Numbered(main, 1), w |-> Numbered(w, Len(main) + 1),
       linkset_add |-> Numbered(Add, Len(main) + Len(w) + 1),
       linkset_contains |-> Numbered(Look, Len(main) + Len(w) + Len(Add) + 1)]

Adds(v) == CallFn("linkset_add", v)
Has(v) == CallFn("linkset_contains", v)

(* The module with any set of fences the synthesis may put into it, as an  *)
(* explicit function (@@), which TLC evaluates once.                       *)
Stores(M) == {i.label : i \in {i \in Range(M["linkset_add"]) : i.op = "store"}}
Repaired(M) ==
  [F \in SUBSET [after : Stores(M), op : {"membar_sl", "membar_ss"}] |-> InsertFences(M, F)] @@ <<>>

(* Store buffering: each adds an element and looks for the other's; main   *)
(* adds two, so its look overtakes two stores.                             *)
StoreBuffering == Repaired(SetClient(<<Adds(3), Adds(1), Has(2)>>, <<Adds(2), Has(1)>>))

(* Message passing: w adds in an order, main looks in the other one, and   *)
(* adds an element of its own before it looks.                             *)
Exchange == Repaired(SetClient(<<Adds(3), Has(2), Has(1)>>, <<Adds(1), Adds(2)>>))

(* Message passing with three elements.                                    *)
Messages == Repaired(SetClient(<<Has(3), Has(2), Has(1)>>, <<Adds(1), Adds(2), Adds(3)>>))
=============================================================================
