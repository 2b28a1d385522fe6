--------------------------- MODULE MCInterpreter ---------------------------
(***************************************************************************)
(* Small programs for the interpreter.                                     *)
(***************************************************************************)
EXTENDS ClientCode, MemoryModels

-----------------------------------------------------------------------------
(* The clients.                                                            *)

(* The functions clients call: f calls itself and g, h calls g.            *)
FnF == <<BrIf(1, 4), CallFn("f", 1), CallFn("g", 1), Ret>>
FnG == <<St("x", 1)>> \o (IF WMM = "PSO" THEN <<SS>> ELSE <<>>) \o <<FasP("y", 1), Ret>>
FnH == <<CallFn("g", 0), Ret>>

(* main spawns w, executes ops beside it, and waits for it.                *)
Client(ops, wops) ==
  LET main == <<SpawnThread("w")>> \o ops \o <<JoinAll, Ret>>
  IN  [main |-> Numbered(main, 1), w |-> Numbered(wops \o <<Ret>>, Len(main) + 1),
       f |-> Numbered(FnF, 21), g |-> Numbered(FnG, 25), h |-> Numbered(FnH, 29)]

(* A client for every choice from mains and from works.                    *)
Clients(mains, works) ==
  Tabulated(LAMBDA n : Client(mains[((n - 1) % Len(mains)) + 1], works[((n - 1) \div Len(mains)) + 1]),
            Len(mains) * Len(works))

(* All sequences a \o b with a in s and b in t.                            *)
Products(s, t) ==
  Tabulated(LAMBDA n : s[((n - 1) % Len(s)) + 1] \o t[((n - 1) \div Len(s)) + 1], Len(s) * Len(t))

-----------------------------------------------------------------------------
(* Programs with fences.                                                   *)

(* What InsertFences makes of ops: a fence after every store that another  *)
(* instruction may overtake.                                               *)
Fence == IF WMM = "PSO" THEN SS ELSE SL
WithFences(ops) ==
  FlattenSeq([i \in 1 .. Len(ops) |->
                IF \E j \in i + 1 .. Len(ops) : Delay(ops[i], ops[j])
                THEN <<ops[i], Fence>> ELSE <<ops[i]>>])

-----------------------------------------------------------------------------
(* Every client whose two threads execute two of these instructions each,  *)
(* and three in main when the fences are put in.                           *)

Accesses(v) == <<<<St("x", v)>>, <<St("y", v)>>, <<Ld("x")>>, <<Ld("y")>>>>
MainOps == Accesses(1) \o <<<<Cas("x", 0, 2)>>, <<SL>>, <<SS>>>>
WorkOps == Accesses(2) \o <<<<Cas("x", 1, 2)>>, <<CasP("y", 1, 2)>>>>

AllClients == Clients(Products(MainOps, MainOps), Products(WorkOps, WorkOps))

FencedClients ==
  LET mains == Products(Accesses(1), Products(Accesses(1), Accesses(1)))
      works == Products(Accesses(2), Accesses(2))
  IN  Clients(Tabulated(LAMBDA n : WithFences(mains[n]), Len(mains)),
              Tabulated(LAMBDA n : WithFences(works[n]), Len(works)))

(* Clients that allocate and free the cell z while it has buffered stores, *)
(* share a cell of a thread's stack, overwrite their own store, or look at *)
(* memory with assert_exist.                                               *)
HeapClients ==
  Clients(<<<<New("z"), St("z", 1), Ld("z"), Del("z")>>,
            <<New("z"), St("z", 1), SS, Del("z")>>,
            <<New("z"), St("z", 1), Del("z"), New("z"), Ld("z")>>,
            <<Local("z"), St("z", 1), Ld("z"), Cas("x", 0, 1)>>,
            <<New("z"), St("x", 1), St("z", 1), Cas("z", 1, 0), Exists("z", 0)>>,
            <<St("x", 1), St("x", 2), Ld("x"), Cas("x", 2, 0)>>,
            <<Del("z"), Set(1)>>>>,
          <<<<St("z", 0), Ld("z")>>,
            <<Ld("z"), Cas("z", 1, 0)>>,
            <<CasP("z", 1, 0), Ld("x")>>,
            <<Cas("x", 1, 0), Exists("x", 0)>>>>)

(* Clients that call recorded functions, nested and recursively, and one   *)
(* whose second thread starts in the recorded function f.                  *)
CallClients ==
  LET cs == Clients(<<<<CallFn("f", 1), Ld("x")>>, <<CallFn("g", 0), CallFn("f", 0)>>,
                      <<CallFn("h", 1), Set(0)>>>>,
                    <<<<CallFn("f", 1)>>, <<CallFn("h", 0), CallFn("g", 1)>>>>)
  IN  Append(cs, [cs[1] EXCEPT !.main[1].fn = "f"])

(* Clients with a loop, taken once, in which only the way back leads from  *)
(* a store to what may overtake it, or the way through a called function.  *)
LoopClients ==
  Clients(<<<<Ld("y"), Cas("y", 0, 1), St("x", 1), Fence, BrIf(1, 2)>>,
            <<Ld("y"), Cas("y", 0, 1), BrIf(0, 9), St("x", 1), CallFn("f", 1), Fence, BrIf(1, 2)>>>>,
          <<<<St("y", 2), Fence, Ld("x")>>>>)

(* main waits for y, which w sets after it saw z and x set; and main spins *)
(* on its own store to x until w, which waits for it, overwrites it.       *)
WaitingClients ==
  <<Client(<<St("x", 1), St("z", 1), Ld("y"), BrIf(0, 4)>>,
           <<Ld("z"), BrIf(0, 1), Ld("x"), BrIf(0, 3), St("y", 1), Fence>>),
    Client(<<St("x", 1), Ld("x"), BrIf(1, 3)>>, <<Ld("x"), BrIf(0, 1), St("x", 0), Fence>>)>>

Suite == AllClients \o FencedClients \o HeapClients \o CallClients \o LoopClients

=============================================================================
