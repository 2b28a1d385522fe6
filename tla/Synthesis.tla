----------------------------- MODULE Synthesis -----------------------------
(***************************************************************************)
(* The synthesis driver, lli-synth. In a round it runs the program         *)
(* RetryTime times, each time in a new interpreter; the trace of a run     *)
(* whose history the checker rejects becomes a clause for the SAT solver.  *)
(* A round without a rejected run ends the synthesis; another one ends in  *)
(* fences, put into the module from a solution, and a new round.           *)
(*                                                                         *)
(* A program is named by the fences put into it so far. The verdict of the *)
(* checker is taken from its definition, which CheckTrace is checked to    *)
(* decide (VerdictIsRight).                                                *)
(***************************************************************************)
EXTENDS Constraints, MemoryModels

CONSTANTS
  RetryTime,                  (* runs in a round                             *)
  programToCheck,             (* Params: the object under test               *)
  Asked                       (* values of Params::Property                  *)

ASSUME RetryAssumption == RetryTime \in Nat \ {0}
ASSUME SynthesisAssumption == WMM \in {"TSO", "PSO"} /\ {} \in DOMAIN Programs

(* What InsertFences makes of the module: there is a program for every set *)
(* of fences after instructions that leave a WRITE record, and in it such  *)
(* an instruction is followed by its fence.                                *)
FenceOps == {"membar_sl", "membar_ss"}
Writes(i) == i.op \in {"store", "cas32"} /\ i.label # 0
StoreLabels(p) ==
  UNION {{Code[p][f][k].label : k \in {k \in 1 .. Len(Code[p][f]) : Writes(Code[p][f][k])}} : f \in Fn}
OpsAfter(p, i) == {f.op : f \in {f \in p : Writes(i) /\ f.after = i.label}}

ASSUME InsertionAssumption ==
  \A p \in DOMAIN Code :
    /\ \A F \in SUBSET [after : StoreLabels(p), op : FenceOps] : p \cup F \in DOMAIN Code
    /\ \A f \in Fn : \A k \in 1 .. Len(Code[p][f]) :
          LET ops == OpsAfter(p, Code[p][f][k])
          IN  ops # {} => Code[p][f][k + 1].op \in ops \cap FenceOps

VARIABLES
  total_traces, buggy_traces,
  clauses,        (* the literals of the last trace Calculate went through   *)
  solver,         (* the clauses of the solver S                             *)
  solvedStores,   (* the static set of Merge                                 *)
  outcome,        (* "running", or how the process ended                     *)
  Property,       (* Params: what the histories are checked for, SC or LIN   *)
  delays,         (* history variable: what overtook what in this run        *)
  aligned,        (* history variable: so far every flush the scheduler      *)
                  (* drew was one of the current thread's buffer             *)
  outlived        (* history variable: a store was still in its buffer when  *)
                  (* the recorded call it belongs to returned, under LIN     *)

driver == <<total_traces, buggy_traces, clauses, solver, solvedStores, outcome>>
ghosts == <<delays, aligned, outlived>>
svars == <<vars, driver, Property, ghosts>>

Checker == INSTANCE CheckTrace WITH
  Task <- Val, Checked <- {programToCheck}, Asked <- Asked,
  Callers <- [p \in {programToCheck} |-> Thread], MaxCalls <- RecordLimit,
  init_perm <- <<>>, thread_perm <- <<>>, curr_perm <- <<>>, check <- "checking"

-----------------------------------------------------------------------------
(* A run of the program.                                                   *)

(* The stores of t that are not yet in memory, and the literals for what   *)
(* instruction i of t overtakes, by what the buffers really hold.          *)
Unflushed(t) == UNION {Range(thread_buffer[t][q]) : q \in Queue}
Overtakes(t, i) ==
  {Lit(IF i.op = "load" THEN "sl" ELSE "ss", e, i) : e \in {e \in Unflushed(t) : e.addr # i.addr}}

Delays(t) ==
  IF Instr(t).op = "load" \/ (Instr(t).op = "store" /\ WMM = "PSO")
  THEN Overtakes(t, Instr(t)) ELSE {}

Outlives(t) ==
  Property = "LIN" /\ Instr(t).op = "ret" /\ Top(t).fn \in Recorded /\ Unflushed(t) # {}

Runs ==
  /\ outcome = "running" /\ total_traces < RetryTime
  /\ \/ /\ Len(rwtrace_rec) < RecordLimit
        /\ \E t \in Thread :
              \/ /\ Execute(t)
                 /\ delays' = delays \cup Delays(t)
                 /\ outlived' = (outlived \/ Outlives(t))
                 /\ UNCHANGED aligned
              \/ /\ RandomFlush(t)
                 /\ aligned' = (aligned /\ t = currThread)
                 /\ UNCHANGED <<delays, outlived>>
     \/ Finish /\ UNCHANGED ghosts
  /\ UNCHANGED driver

-----------------------------------------------------------------------------
(* What becomes of it.                                                     *)

(* A new interpreter for module p. Its constructor leaves allonAssertExist *)
(* and ExitStatus, as isSharedAccessing, as it finds them, and nobody sets *)
(* them before the run.                                                    *)
Restart(p) ==
  /\ program' = p
  /\ threadStacks' = [t \in Thread |-> IF t = 1 THEN <<NewFrame(Main, 0)>> ELSE <<>>]
  /\ currThread' = 1
  /\ nextThreadNum' = 2
  /\ instr_info' \in [isBlocked : {FALSE}, isSharedAccessing : BOOLEAN]
  /\ mem' = [a \in Addr |-> 0]
  /\ heap' = Globals
  /\ thread_buffer' = [t \in Thread |-> [q \in Queue |-> <<>>]]
  /\ segmentFaultFlag' = FALSE
  /\ allonAssertExist' \in BOOLEAN
  /\ status' = "running"
  /\ rwtrace_rec' = <<>> /\ trace_rec' = <<>> /\ recur_calls' = <<0>>
  /\ issued' = thread_buffer' /\ retired' = thread_buffer'
  /\ observed' = [t \in Thread |-> Seen(NoLoc, 0)]
  /\ delays' = {} /\ aligned' = TRUE /\ outlived' = FALSE

(* run() does not have the history of a finished run checked when          *)
(* allonAssertExist is set, and leaves ExitStatus to chance.               *)
Ended == status \in {"finished", "segfault"}
Unchecked == status = "finished" /\ allonAssertExist
Accepted == Checker!Explicable(Checker!Completed @@ <<>>)
Rejected == Ended /\ ~ Unchecked /\ (status = "finished" => ~ Accepted)

Made == 1 .. nextThreadNum - 1

(* The end of a turn of InterpretRun's loop; rejected is the verdict on    *)
(* the run.                                                                *)
AtEnd == outcome = "running" /\ total_traces < RetryTime /\ Ended
Counted(buggy) ==
  /\ total_traces' = total_traces + 1
  /\ buggy_traces' = buggy_traces + buggy
  /\ Restart(program)
  /\ UNCHANGED <<solvedStores, outcome>>
Exits(how) ==
  /\ outcome' = how
  /\ UNCHANGED <<vars, ghosts, total_traces, buggy_traces, clauses, solver, solvedStores>>

GoodTrace(rejected) ==
  /\ AtEnd
  /\ ~ rejected
  /\ Counted(0)
  /\ UNCHANGED <<clauses, solver>>

BuggyTrace(rejected) ==
  /\ AtEnd
  /\ rejected /\ Asserted(rwtrace_rec, Made)
  /\ clauses' = Calculate(rwtrace_rec, Made)
  /\ clauses' # {}
  /\ solver' = solver \cup {clauses'}
  /\ Counted(1)

(* ExitStatus may hold the 253 of a rejected run by chance.                *)
StaleTrace ==
  /\ AtEnd
  /\ Unchecked
  /\ clauses # {}
  /\ solver' = solver \cup {clauses}
  /\ Counted(1)
  /\ UNCHANGED clauses

AssertFails(rejected) ==
  /\ AtEnd
  /\ rejected /\ ~ Asserted(rwtrace_rec, Made)
  /\ Exits("asserted")

NoLiterals(rejected) ==
  /\ AtEnd
  /\ \/ rejected /\ Asserted(rwtrace_rec, Made) /\ Calculate(rwtrace_rec, Made) = {}
        /\ Exits("255")
     \/ Unchecked /\ clauses = {} /\ Exits("254")

-----------------------------------------------------------------------------
(* The end of a round.                                                     *)

Converged ==
  /\ outcome = "running" /\ total_traces = RetryTime
  /\ buggy_traces = 0
  /\ Exits("converged")

(* Mutant: without Flush.                                                  *)
SolveWithoutFlush ==
  /\ outcome = "running" /\ total_traces = RetryTime
  /\ buggy_traces > 0
  /\ \E L \in Solutions(solver) : \E F \in Merge(L, solvedStores) :
        /\ Restart(program \cup F)
        /\ solvedStores' = SolvedStores(L, solvedStores)
  /\ total_traces' = 0 /\ buggy_traces' = 0
  /\ UNCHANGED <<clauses, solver, outcome>>

(* Mutant: a Flush that clears the solver and not the literals of the last *)
(* buggy trace.                                                            *)
SolveKeepingClauses ==
  /\ outcome = "running" /\ total_traces = RetryTime
  /\ buggy_traces > 0
  /\ \E L \in Solutions(solver) : \E F \in Merge(L, solvedStores) :
        /\ Restart(program \cup F)
        /\ solvedStores' = SolvedStores(L, solvedStores)
  /\ solver' = {} /\ UNCHANGED clauses
  /\ total_traces' = 0 /\ buggy_traces' = 0
  /\ UNCHANGED outcome

SolveAndInsert ==
  /\ outcome = "running" /\ total_traces = RetryTime
  /\ buggy_traces > 0
  /\ \E L \in Solutions(solver) : \E F \in Merge(L, solvedStores) :
        /\ Restart(program \cup F)
        /\ solvedStores' = SolvedStores(L, solvedStores)
  /\ clauses' = {} /\ solver' = {}
  /\ total_traces' = 0 /\ buggy_traces' = 0
  /\ UNCHANGED outcome

SInit ==
  /\ Started /\ program = {} /\ allonAssertExist \in BOOLEAN
  /\ total_traces = 0 /\ buggy_traces = 0
  /\ clauses = {} /\ solver = {} /\ solvedStores = {}
  /\ outcome = "running"
  /\ Property \in Asked
  /\ delays = {} /\ aligned = TRUE /\ outlived = FALSE

SNext ==
  /\ \/ Runs
     \/ \E rejected \in {AtEnd /\ Rejected} :
          GoodTrace(rejected) \/ BuggyTrace(rejected) \/ AssertFails(rejected) \/ NoLiterals(rejected)
     \/ StaleTrace \/ Converged \/ SolveAndInsert
  /\ UNCHANGED Property

SSpec == SInit /\ [][SNext]_svars

-----------------------------------------------------------------------------
(* Properties.                                                             *)

(***************************************************************************)
(* The solver holds the clauses of the buggy traces of the round and no    *)
(* others: at most one for each, none of them empty (AddToSolver, Flush).  *)
(***************************************************************************)
STypeOK ==
  /\ TypeOK
  /\ buggy_traces \in 0 .. total_traces /\ total_traces \in 0 .. RetryTime
  /\ clauses \subseteq Literal /\ solver \subseteq (SUBSET Literal) \ {{}}
  /\ Cardinality(solver) <= buggy_traces
  /\ outcome \in {"running", "converged", "asserted", "254", "255"}
  /\ Property \in Asked
  /\ delays \subseteq Literal /\ aligned \in BOOLEAN /\ outlived \in BOOLEAN

(* After a join was recorded no thread is started: the trace has one       *)
(* region between a SPAWN and a JOIN.                                      *)
OneRegion ==
  \A j, k \in DOMAIN rwtrace_rec :
     j < k /\ rwtrace_rec[j].type = "JOIN" => rwtrace_rec[k].type # "SPAWN"

(* Programs with one region: main alone starts threads and waits for them, *)
(* and once it has come to its joins, from m on, it starts none.           *)
JoinsFrom(body, m) ==
  \A k \in 1 .. Len(body) :
     /\ body[k].op = "spawn" => k < m
     /\ body[k].op = "join" => m <= k
     /\ body[k].op = "br" /\ m <= k => m <= body[k].to
ForkJoin ==
  \A p \in DOMAIN Code :
    /\ \E m \in 1 .. Len(Code[p][Main]) : JoinsFrom(Code[p][Main], m)
    /\ \A f \in Fn : \A k \in 1 .. Len(Code[p][f]) :
         /\ Code[p][f][k].op \in {"spawn", "join"} => f = Main
         /\ Code[p][f][k].op \in {"spawn", "call"} => Code[p][f][k].fn # Main

(* The trace tells the whole story: its accesses lie between the spawn and *)
(* the first join, and its flushes name the thread whose store they took.  *)
Told ==
  /\ aligned
  /\ OneRegion
  /\ \A k \in DOMAIN rwtrace_rec :
        rwtrace_rec[k].type \in {"READ", "WRITE"} => Between(rwtrace_rec, k)

(* Programs whose every delay can be seen in the trace: accesses are to    *)
(* globals and bear labels, nothing is freed or taken from the stack, and  *)
(* left out are the two instructions of which the trace says something     *)
(* else than what they did to the buffers (membar_ss under TSO flushes     *)
(* nothing, a cas32 that fails under PSO leaves no access).                *)
Plain(i) ==
  /\ i.op \notin {"alloca", "free", IF WMM = "TSO" THEN "membar_ss" ELSE "cas32"}
  /\ i.op \in {"load", "store", "cas32"} => i.addr \in Globals
  /\ i.op \in {"load", "store"} => i.label # 0
PlainPrograms ==
  \A p \in DOMAIN Code : (\A f \in p : WMM = "TSO" => f.op = "membar_sl") =>
    \A f \in Fn : \A k \in 1 .. Len(Code[p][f]) : Plain(Code[p][f][k])

(***************************************************************************)
(* The literals of a trace are the delays of the run, no fewer and no      *)
(* more, when the trace tells the whole story: the buffers GenerateClauses *)
(* reconstructs are those the interpreter had, through every flush and     *)
(* fence (FindSharedRW, Calculate, GenerateClauses).                       *)
(***************************************************************************)
LiteralsAreDelays == Ended /\ Told => Calculate(rwtrace_rec, Made) = delays

(***************************************************************************)
(* A run in which no instruction overtook a store has a history the        *)
(* checker accepts: what the synthesis can rule out, delays, is all that   *)
(* relaxed memory adds to sequential consistency. To linearizability it    *)
(* also adds stores that outlive their call, which no literal stands for   *)
(* (Calculate, checkHistory).                                              *)
(***************************************************************************)
NoDelayNoBug == Ended /\ delays = {} /\ ~ outlived => ~ Rejected

(* Programs of globals, without what Delays leaves out: the atomic         *)
(* instructions that under PSO overtake a store and leave no literal.      *)
GlobalPrograms ==
  \A p \in DOMAIN Code :
    /\ OnGlobals(p, Fn)
    /\ \A n \in Places(p, Fn) : WMM = "PSO" => InstrAt(p, n).op \notin {"cas32", "faspo"}

(***************************************************************************)
(* Until an instruction overtakes a store, every step of a run is one of   *)
(* sequential consistency, whenever the scheduler flushes: what the        *)
(* literals stand for is all there is to the relaxed memory (Calculate,    *)
(* visitLoadInst, flush_buffer_tso, flush_buffer_pso).                     *)
(***************************************************************************)
DelayFreeStepsAreSC ==
  [][UNCHANGED total_traces /\ delays' = {} => [SC!Next]_SCvars]_svars

(***************************************************************************)
(* No instruction overtakes a store that has its fence: the thread does    *)
(* nothing between the two, and the fence drains all that is buffered      *)
(* (InsertFences, membar_sl, membar_ss).                                   *)
(***************************************************************************)
FencedStoresAreNotOvertaken == \A l \in delays : \A f \in program : f.after # l.st

(***************************************************************************)
(* Once a fence stands after a store, no trace blames that store again,    *)
(* even where its flushes name the wrong thread: the fence both drains the *)
(* buffer and ends the segment of the trace (InsertFences, Calculate).     *)
(***************************************************************************)
FencedStoresAreNotBlamed ==
  \A c \in solver : \A l \in c : \A f \in program : f.after # l.st

(***************************************************************************)
(* A round that found a buggy trace puts a fence into the module, so the   *)
(* rounds come to an end: there are no more of them than stores (Solve,    *)
(* Merge, InsertFences).                                                   *)
(***************************************************************************)
EveryRoundAddsAFence == [][solver # {} /\ solver' = {} => program' # program]_svars

(***************************************************************************)
(* Calculate's assertions hold (Constraints.cpp: every thread made has a   *)
(* record in the shared trace, and its first one a label).                 *)
(***************************************************************************)
AssertionsHold == outcome # "asserted"

(***************************************************************************)
(* Merge deletes only "the fences which have been added" (its comment): a  *)
(* buggy trace of the round has among its literals one whose store has its *)
(* fence in the new module.                                                *)
(***************************************************************************)
EveryBuggyTraceIsRepaired ==
  [][solver' = {} =>
       \A c \in solver : \E l \in c : \E f \in program' : f.after = l.st]_svars
=============================================================================
