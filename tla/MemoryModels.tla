---------------------------- MODULE MemoryModels ----------------------------
(***************************************************************************)
(* What the simulated memory models are: refinement mappings from the      *)
(* interpreter to a memory that is coherent address by address, and, for   *)
(* programs with the fences the synthesis inserts, to sequential           *)
(* consistency.                                                            *)
(***************************************************************************)
EXTENDS Interpreter

-----------------------------------------------------------------------------
(* Coherence.                                                              *)

(* The k-th store in a queue, with its number among all stores ever put    *)
(* into the queue.                                                         *)
Numbering(t, q, k) ==
  LET e == thread_buffer[t][q][k]
  IN  [addr |-> e.addr, at |-> Len(retired[t][q]) + k, val |-> e.val]

(* What a thread has stored and not yet made visible.                      *)
Pending(t) ==
  UNION {{Numbering(t, q, k) : k \in 1 .. Len(thread_buffer[t][q])} : q \in Queue}

Coherent == INSTANCE CoherentMemory WITH
  pend <- [t \in Thread |-> Pending(t)],
  live <- {a \in Addr : Allocated(a)},
  faulted <- (segmentFaultFlag \/ status = "aborted")

(***************************************************************************)
(* Address by address the interpreter is a memory with store buffers: no   *)
(* load, flush, fence or atomic instruction, and no interleaving of them,  *)
(* lets a thread miss its own store, lets memory lose or reorder stores to *)
(* one address, or makes an atomic instruction act beside them             *)
(* (visitLoadInst, visitStoreInst, visitCAS, visitCASPO, membar_ss,        *)
(* membar_sl, flush_buffer_tso, flush_buffer_pso).                         *)
(***************************************************************************)
ImplementsCoherentMemory == Coherent!Spec

(* What the program has to keep to for that: no thread allocates a stack   *)
(* cell while it has stores pending to what the cell was before, and under *)
(* PSO, where faspo passes the thread's own stores by, none are pending to *)
(* the cell it exchanges.                                                  *)
Orderly ==
  /\ \A t \in Thread, a \in Addr : OnStack(t, a) => Own(t, a) = {}
  /\ WMM = "PSO" => \A t \in Active : Instr(t).op = "faspo" => Own(t, Instr(t).addr) = {}

(* Programs that cannot but keep to it: without stack cells, and under PSO *)
(* without faspo.                                                          *)
OrderlyPrograms ==
  \A p \in DOMAIN Code : \A f \in Fn : \A k \in 1 .. Len(Code[p][f]) :
     /\ Code[p][f][k].op # "alloca"
     /\ WMM = "PSO" => Code[p][f][k].op # "faspo"

-----------------------------------------------------------------------------
(* Programs with fences.                                                   *)

(* Under the memory model the second of two instructions of a thread may   *)
(* overtake the first, a store.                                            *)
Delay(i, j) ==
  /\ i.op = "store"
  /\ \/ WMM = "TSO" /\ j.op = "load" /\ i.addr # j.addr
     \/ WMM = "PSO" /\ j.op \in {"load", "store", "cas32"} /\ i.addr # j.addr
     \/ WMM = "PSO" /\ j.op = "faspo"

(* After the instruction k the store i is no longer pending.               *)
Drains(i, k) ==
  \/ k.op \in {"membar_sl", "caspo"}
  \/ WMM = "PSO" /\ k.op = "membar_ss"
  \/ WMM = "PSO" /\ k.op = "cas32" /\ k.addr = i.addr
  \/ WMM = "TSO" /\ k.op \in {"cas32", "faspo"}

(* The functions that run: Main, those that threads are started in, and    *)
(* those that are called. A place is an instruction of one of them.        *)
RunsOnly(p, F) ==
  /\ Main \in F
  /\ \A f \in F : \A k \in 1 .. Len(Code[p][f]) :
        Code[p][f][k].op \in {"spawn", "call"} => Code[p][f][k].fn \in F
Places(p, F) == UNION {{f} \X (1 .. Len(Code[p][f])) : f \in F}
InstrAt(p, n) == Code[p][n[1]][n[2]]

(* A thread that executed the instruction at n may stand at m next: after  *)
(* a return, behind any call of the function.                              *)
Leads(p, n, m) ==
  LET i == InstrAt(p, n)
  IN  \/ i.op = "call" /\ m = <<i.fn, 1>>
      \/ /\ i.op = "ret" /\ m[2] > 1
         /\ LET c == InstrAt(p, <<m[1], m[2] - 1>>) IN c.op = "call" /\ c.fn = n[1]
      \/ i.op = "br" /\ m = <<n[1], i.to>>
      \/ i.op \notin {"call", "ret"} /\ m = <<n[1], n[2] + 1>>

(* Where the store at n may be pending one instruction after n or after    *)
(* the places in S, and where it ever may.                                 *)
Onward(p, F, n, S) ==
  {m \in Places(p, F) :
     \E k \in S \cup {n} : Leads(p, k, m) /\ ~ Drains(InstrAt(p, n), InstrAt(p, k))}
Reached(p, F, n) ==
  LET grown[S \in SUBSET Places(p, F)] ==
        LET T == S \cup Onward(p, F, n, S) IN IF T = S THEN S ELSE grown[T]
  IN  grown[{}]

(* A fence stands on every way from a store to what could overtake it.     *)
Fenced(p, F) ==
  \A n \in Places(p, F) : InstrAt(p, n).op = "store" =>
     /\ Onward(p, F, n, Reached(p, F, n)) \subseteq Reached(p, F, n)
     /\ \A k \in Reached(p, F, n) : ~ Delay(InstrAt(p, n), InstrAt(p, k))

(* Code on global variables, with any control flow.                        *)
OnGlobals(p, F) ==
  \A n \in Places(p, F) :
     InstrAt(p, n).op \notin {"malloc", "free", "alloca"} /\ InstrAt(p, n).addr \in Globals

FencedPrograms ==
  {p \in DOMAIN Code :
     \E F \in SUBSET Fn : RunsOnly(p, F) /\ OnGlobals(p, F) /\ Fenced(p, F)}

SC == INSTANCE SCMemory WITH
  pend <- [t \in Thread |->
             LET busy == {q \in Queue : thread_buffer[t][q] # <<>>}
             IN  IF busy = {} THEN <<>> ELSE thread_buffer[t][CHOOSE q \in busy : TRUE]]

SCvars == SC!vars
SCStep == program \in FencedPrograms => SC!Next

(***************************************************************************)
(* A program with the fences the synthesis inserts (membar_sl after stores *)
(* under TSO, membar_ss under PSO) behaves sequentially consistently,      *)
(* whenever the scheduler flushes.                                         *)
(***************************************************************************)
FencedProgramsAreSC == SC!Init /\ [][SCStep]_SCvars
=============================================================================
