---------------------------- MODULE Interpreter ----------------------------
(***************************************************************************)
(* The DFENCE interpreter: a multi-threaded LLVM interpreter that runs a   *)
(* program under sequential consistency, TSO or PSO.  One step of Next is  *)
(* one turn of the loop of Interpreter::run: the scheduler either lets a   *)
(* thread execute its next instruction or makes it flush one buffered      *)
(* store.  Instructions are translated whole, with the records they leave  *)
(* in the two histories the checker and the fence synthesis work from.     *)
(*                                                                         *)
(* Abstractions: a frame keeps one SSA value, the result of its last       *)
(* value-producing instruction; operands are constants of the program; an  *)
(* address is a cell that holds one value.                                 *)
(***************************************************************************)
EXTENDS Integers, Sequences, FiniteSets

CONSTANTS
  WMM,          (* Params::WMM: the memory model to simulate              *)
  Thread,       (* thread numbers; Thread::getThreadByNumber              *)
  Addr,         (* memory cells                                           *)
  Globals,      (* the cells of the module's global variables             *)
  Val,          (* values a cell or an SSA name can hold                  *)
  Fn,           (* functions of the module                                *)
  Main,         (* the function lli and lli-synth run                     *)
  Recorded,     (* Params::funcs_rec, the functions the history records   *)
  Programs,     (* modules to run, by name: a body for every function      *)
  RecordLimit   (* bound: records of rwtrace_rec kept                     *)

Fifo == "fifo"  \* the one queue of a thread under TSO
NoLoc == "none" \* the location of a record that has none

Op == {"alloca", "store", "load", "set", "br", "call", "ret", "spawn", "join",
       "cas32", "caspo", "faspo", "membar_ss", "membar_sl", "malloc", "free",
       "assert_exist"}

(***************************************************************************)
(* An instruction: an operation on a cell, with the constants it uses (a   *)
(* stored value, the expected and the new value of a compare-and-swap),    *)
(* the function a call or a spawn names, the target of a branch, and       *)
(* label_instr, the number the synthesis driver gives every instruction    *)
(* (0 on a call the synthesis inserted).                                   *)
(***************************************************************************)
Instruction == [op : Op, addr : Addr, x : Val, y : Val, fn : Fn, to : Nat, label : Nat]

(* A body is not empty, its last instruction is its return, and its        *)
(* branches stay inside it: what LLVM's verifier demands of a function.    *)
WellFormed(body) ==
  /\ body \in Seq(Instruction)
  /\ Len(body) > 0
  /\ body[Len(body)].op = "ret"
  /\ \A i \in 1 .. Len(body) : body[i].op = "br" => body[i].to \in 1 .. Len(body)

(* The programs, by a definition of their own: TLC evaluates it only once. *)
Code == Programs

ASSUME WMMAssumption == WMM \in {"NONE", "TSO", "PSO"}
ASSUME ThreadAssumption == 1 \in Thread /\ Thread \subseteq Nat \ {0}
ASSUME ValAssumption == {0, 1} \subseteq Val
ASSUME AddrAssumption == Globals \subseteq Addr /\ Fifo \notin Addr
ASSUME FnAssumption == Main \in Fn /\ Recorded \subseteq Fn
ASSUME RecordLimitAssumption == RecordLimit \in Nat
ASSUME ProgramAssumption ==
  \A p \in DOMAIN Code : DOMAIN Code[p] = Fn /\ \A f \in Fn : WellFormed(Code[p][f])

VARIABLES
  program,           (* the name of the module being run                        *)
  threadStacks,      (* per thread, its stack of execution contexts             *)
  currThread, nextThreadNum,
  instr_info,        (* what the last instruction tells the scheduler           *)
  mem,               (* the contents of memory                                  *)
  heap,              (* the cells whose base address the address map finds      *)
  thread_buffer,     (* thread_buffer_tso and thread_buffer_pso                 *)
  segmentFaultFlag, allonAssertExist,
  status,            (* "running", or how run() ended                           *)
  rwtrace_rec,       (* RWHistory: shared accesses and flushes                  *)
  trace_rec,         (* History: calls and returns of recorded functions        *)
  recur_calls,       (* History: recorded functions on each thread's stack      *)
  issued,            (* history variable: all stores put into a queue           *)
  retired,           (* history variable: all stores taken out of a queue       *)
  observed           (* history variable: the last cell a thread read, and the value *)

control == <<currThread, nextThreadNum, instr_info, segmentFaultFlag, status>>
buffers == <<thread_buffer, issued, retired>>
history == <<trace_rec, recur_calls>>
vars == <<program, threadStacks, currThread, nextThreadNum, instr_info, mem, heap,
          thread_buffer, segmentFaultFlag, allonAssertExist, status, rwtrace_rec,
          trace_rec, recur_calls, issued, retired, observed>>

-----------------------------------------------------------------------------
(* Types.                                                                  *)

RWType == {"READ", "WRITE", "FLUSH_INSTR", "FLUSH_FENCE", "FLUSH_CAS_TSO",
           "FLUSH_CAS_PSO", "FLUSH_RANDOM_TSO", "FLUSH_RANDOM_PSO", "SPAWN", "JOIN"}

(* rwtrace_elem, without the value, which nothing but the printer reads.   *)
RWRecord == [type : RWType, thr : Thread, loc : Addr \cup {NoLoc}, label : Int]

(* trace_elem: a call with its argument or a return with its value.        *)
CallRecord == [type : {"CALL_FUNC", "RETURN_FUNC"}, func : Fn, thread : Thread, val : Val]

(* A buffered store. Its label is that of the store instruction (history). *)
Elem == [addr : Addr, val : Val, label : Nat]

Frame == [fn : Fn, pc : Nat, acc : Val, allocas : SUBSET Addr]

Queue == IF WMM = "PSO" THEN Addr ELSE {Fifo}

TypeOK ==
  /\ program \in DOMAIN Code
  /\ threadStacks \in [Thread -> Seq(Frame)]
  /\ currThread \in Thread
  /\ nextThreadNum \in Nat
  /\ instr_info \in [isBlocked : BOOLEAN, isSharedAccessing : BOOLEAN]
  /\ mem \in [Addr -> Val]
  /\ heap \subseteq Addr
  /\ thread_buffer \in [Thread -> [Queue -> Seq(Elem)]]
  /\ segmentFaultFlag \in BOOLEAN
  /\ allonAssertExist \in BOOLEAN
  /\ status \in {"running", "finished", "segfault", "aborted"}
  /\ rwtrace_rec \in Seq(RWRecord)
  /\ trace_rec \in Seq(CallRecord)
  /\ recur_calls \in Seq(Int)
  /\ issued \in [Thread -> [Queue -> Seq(Elem)]]
  /\ retired \in [Thread -> [Queue -> Seq(Elem)]]
  /\ observed \in [Thread -> [addr : Addr \cup {NoLoc}, val : Val]]

-----------------------------------------------------------------------------
(* Stacks and buffers.                                                     *)

Top(t) == threadStacks[t][Len(threadStacks[t])]
Instr(t) == Code[program][Top(t).fn][Top(t).pc]

Seen(a, v) == [addr |-> a, val |-> v]

NewFrame(f, arg) == [fn |-> f, pc |-> 1, acc |-> arg, allocas |-> {}]
Moved(frame, pc, v) == [fn |-> frame.fn, pc |-> pc, acc |-> v, allocas |-> frame.allocas]

(* The stacks with another top frame for t.                                *)
WithTop(t, frame) ==
  [threadStacks EXCEPT ![t] = [threadStacks[t] EXCEPT ![Len(threadStacks[t])] = frame]]

(* getAllActiveThreads: the threads with something left to execute.        *)
Active == {t \in Thread : threadStacks[t] # <<>>}

(* isAddressOnStack looks through the frames of the current thread only.   *)
OnStack(t, a) == \E k \in 1 .. Len(threadStacks[t]) : a \in threadStacks[t][k].allocas

(* Blocks and globals in use, of which the interpreter keeps the bounds,   *)
(* and live stack cells, which malloc never gives out.                     *)
Allocated(a) == a \in heap \/ \E t \in Thread : OnStack(t, a)

(* Under TSO a thread has one queue, under PSO one per address.            *)
QueueOf(a) == IF WMM = "PSO" THEN a ELSE Fifo

(* The positions of a thread's buffered stores to a, and the newest one.   *)
Own(t, a) == {k \in 1 .. Len(thread_buffer[t][QueueOf(a)]) :
                 thread_buffer[t][QueueOf(a)][k].addr = a}

(* Mutants: the oldest store, and the label of the newest, not its value.  *)
Oldest(t, a) ==
  thread_buffer[t][QueueOf(a)][CHOOSE k \in Own(t, a) : \A j \in Own(t, a) : k <= j].val
NewestLabel(t, a) ==
  thread_buffer[t][QueueOf(a)][CHOOSE k \in Own(t, a) : \A j \in Own(t, a) : j <= k].label

Newest(t, a) ==
  thread_buffer[t][QueueOf(a)][CHOOSE k \in Own(t, a) : \A j \in Own(t, a) : j <= k].val

(* flush_buffer_pso drops a store, and raises segmentFaultFlag, when the   *)
(* address map finds no base for it; flush_buffer_tso does not look.       *)
Storable(a) == WMM = "PSO" => a \in heap

(* Mutant: the oldest store of each queue is written, the others are lost. *)
FlushedOnce(t, Q) ==
  [a \in Addr |-> IF QueueOf(a) \in Q /\ Own(t, a) # {} /\ Storable(a)
                     /\ Head(thread_buffer[t][QueueOf(a)]).addr = a
                  THEN Oldest(t, a) ELSE mem[a]]

(***************************************************************************)
(* Memory, and whether a fault was seen, after thread t flushed the queues *)
(* in Q until they were empty.                                             *)
(***************************************************************************)
Flushed(t, Q) ==
  [a \in Addr |-> IF QueueOf(a) \in Q /\ Own(t, a) # {} /\ Storable(a)
                  THEN Newest(t, a) ELSE mem[a]]

FlushFaults(t, Q) ==
  \E a \in Addr : QueueOf(a) \in Q /\ Own(t, a) # {} /\ ~ Storable(a)

(* Mutant: the stores a fence flushes are left in the buffer.              *)
NotEmptied(t, Q) ==
  /\ retired' = [retired EXCEPT ![t] =
                   [q \in Queue |-> IF q \in Q THEN @[q] \o thread_buffer[t][q] ELSE @[q]]]
  /\ UNCHANGED <<thread_buffer, issued>>

Empty(t, Q) ==
  /\ thread_buffer' = [thread_buffer EXCEPT ![t] =
                         [q \in Queue |-> IF q \in Q THEN <<>> ELSE @[q]]]
  /\ retired' = [retired EXCEPT ![t] =
                   [q \in Queue |-> IF q \in Q THEN @[q] \o thread_buffer[t][q] ELSE @[q]]]
  /\ UNCHANGED issued

(* Mutants: a fence, and an atomic instruction, that flush nothing.        *)
NoQueues == {}
NoCASQueues(a) == {}

(* The queues of the executing thread that the fences and the atomic       *)
(* instructions flush. A cas32 flushes everything under TSO, and under PSO *)
(* the stores to its own address; a faspo flushes nothing under PSO.       *)
SSQueues == IF WMM = "PSO" THEN Queue ELSE {}
SLQueues == IF WMM = "NONE" THEN {} ELSE Queue
CASQueues(a) == IF WMM = "NONE" THEN {} ELSE {QueueOf(a)}
FASQueues == IF WMM = "TSO" THEN Queue ELSE {}

-----------------------------------------------------------------------------
(* What every instruction does besides its own effect.                     *)

(* RecordRWEvent, as long as RecordLimit permits.                          *)
Record(events) ==
  rwtrace_rec' = IF Len(rwtrace_rec) < RecordLimit THEN rwtrace_rec \o events
                                                   ELSE rwtrace_rec

RWEvent(type, t, loc, label) == [type |-> type, thr |-> t, loc |-> loc, label |-> label]

(* The scheduler decides afresh after a blocked instruction, after a       *)
(* shared access, and when the current thread has ended; otherwise it      *)
(* keeps the current thread.                                               *)
Undecided ==
  instr_info.isBlocked \/ instr_info.isSharedAccessing \/ currThread \notin Active

At(t, op) ==
  /\ status = "running"
  /\ t \in Active
  /\ Undecided \/ t = currThread
  /\ Instr(t).op = op

(* The loop of run() around visit(I): the thread becomes current, the      *)
(* instruction leaves its marks for the scheduler, and a segment fault, of *)
(* this instruction or of a flush before it, ends the run.                 *)
Proceed(t, blocked, shared, fault) ==
  /\ currThread' = t
  /\ instr_info' = [isBlocked |-> blocked, isSharedAccessing |-> shared]
  /\ segmentFaultFlag' = (segmentFaultFlag \/ fault)
  /\ status' = IF segmentFaultFlag \/ fault THEN "segfault" ELSE "running"
  /\ UNCHANGED program

(* CurInst++ and SetValue.                                                 *)
Advance(t, v) == threadStacks' = WithTop(t, Moved(Top(t), Top(t).pc + 1, v))
Skip(t) == Advance(t, Top(t).acc)

-----------------------------------------------------------------------------
(* Loads and stores.                                                       *)

(* A store that goes to memory: every store under NONE, and a store to the *)
(* thread's own stack, which is not a shared access.                       *)
StoreToMemory(t) ==
  /\ At(t, "store")
  /\ LET i == Instr(t)
         shared == ~ OnStack(t, i.addr)
     IN  /\ WMM = "NONE" \/ ~ shared
         /\ mem' = [mem EXCEPT ![i.addr] = i.x]
         /\ Record(IF shared THEN <<RWEvent("WRITE", t, i.addr, i.label)>> ELSE <<>>)
         /\ Proceed(t, FALSE, shared, FALSE)
  /\ Skip(t)
  /\ UNCHANGED <<buffers, heap, history, nextThreadNum, allonAssertExist, observed>>

(* A store to a shared address under TSO and PSO.                          *)
StoreToBuffer(t) ==
  /\ At(t, "store")
  /\ LET i == Instr(t)
         q == QueueOf(i.addr)
         e == [addr |-> i.addr, val |-> i.x, label |-> i.label]
     IN  /\ WMM # "NONE" /\ ~ OnStack(t, i.addr)
         /\ thread_buffer' = [thread_buffer EXCEPT ![t][q] = Append(@, e)]
         /\ issued' = [issued EXCEPT ![t][q] = Append(@, e)]
         /\ Record(<<RWEvent("WRITE", t, i.addr, i.label)>>)
  /\ Skip(t)
  /\ Proceed(t, FALSE, TRUE, FALSE)
  /\ UNCHANGED <<retired, mem, heap, history, nextThreadNum, allonAssertExist, observed>>

(* Under PSO a load looks the base of a shared address up first.           *)
LoadFaults(t, a) == WMM = "PSO" /\ ~ OnStack(t, a) /\ a \notin heap

(* Mutant: under PSO, as under TSO, not a shared access to the scheduler.  *)
LoadFromBufferUnshared(t) ==
  /\ At(t, "load")
  /\ LET i == Instr(t)
     IN  /\ Own(t, i.addr) # {} /\ ~ LoadFaults(t, i.addr)
         /\ Advance(t, Newest(t, i.addr))
         /\ observed' = [observed EXCEPT ![t] = Seen(i.addr, Newest(t, i.addr))]
         /\ Record(<<RWEvent("READ", t, i.addr, i.label)>>)
         /\ Proceed(t, FALSE, FALSE, FALSE)
  /\ UNCHANGED <<buffers, mem, heap, history, nextThreadNum, allonAssertExist>>

(* A load of an address the thread has buffered stores to returns the      *)
(* newest. Under TSO it does not count as a shared access.                 *)
LoadFromBuffer(t) ==
  /\ At(t, "load")
  /\ LET i == Instr(t)
         shared == WMM = "PSO" /\ ~ OnStack(t, i.addr)
     IN  /\ Own(t, i.addr) # {} /\ ~ LoadFaults(t, i.addr)
         /\ Advance(t, Newest(t, i.addr))
         /\ observed' = [observed EXCEPT ![t] = Seen(i.addr, Newest(t, i.addr))]
         /\ Record(IF WMM = "TSO" \/ shared THEN <<RWEvent("READ", t, i.addr, i.label)>> ELSE <<>>)
         /\ Proceed(t, FALSE, shared, FALSE)
  /\ UNCHANGED <<buffers, mem, heap, history, nextThreadNum, allonAssertExist>>

(* Mutant: a load from memory keeps the scheduler on its thread.           *)
LoadFromMemoryUnshared(t) ==
  /\ At(t, "load")
  /\ LET i == Instr(t)
     IN  /\ Own(t, i.addr) = {} /\ ~ LoadFaults(t, i.addr)
         /\ Advance(t, mem[i.addr])
         /\ observed' = [observed EXCEPT ![t] = Seen(i.addr, mem[i.addr])]
         /\ Record(IF OnStack(t, i.addr) THEN <<>> ELSE <<RWEvent("READ", t, i.addr, i.label)>>)
         /\ Proceed(t, FALSE, FALSE, FALSE)
  /\ UNCHANGED <<buffers, mem, heap, history, nextThreadNum, allonAssertExist>>

LoadFromMemory(t) ==
  /\ At(t, "load")
  /\ LET i == Instr(t)
         shared == ~ OnStack(t, i.addr)
     IN  /\ Own(t, i.addr) = {} /\ ~ LoadFaults(t, i.addr)
         /\ Advance(t, mem[i.addr])
         /\ observed' = [observed EXCEPT ![t] = Seen(i.addr, mem[i.addr])]
         /\ Record(IF shared THEN <<RWEvent("READ", t, i.addr, i.label)>> ELSE <<>>)
         /\ Proceed(t, FALSE, shared, FALSE)
  /\ UNCHANGED <<buffers, mem, heap, history, nextThreadNum, allonAssertExist>>

LoadFault(t) ==
  /\ At(t, "load")
  /\ LoadFaults(t, Instr(t).addr)
  /\ Skip(t)
  /\ Proceed(t, FALSE, FALSE, TRUE)
  /\ UNCHANGED <<buffers, mem, heap, history, nextThreadNum, allonAssertExist,
                 observed, rwtrace_rec>>

-----------------------------------------------------------------------------
(* Fences and atomic instructions.                                         *)

Membar_ss(t) ==
  /\ At(t, "membar_ss")
  /\ mem' = Flushed(t, SSQueues)
  /\ Empty(t, SSQueues)
  /\ Proceed(t, FALSE, FALSE, FlushFaults(t, SSQueues))
  /\ Record(<<RWEvent("FLUSH_FENCE", t, NoLoc, 0)>>)
  /\ Skip(t)
  /\ UNCHANGED <<heap, history, nextThreadNum, allonAssertExist, observed>>

Membar_sl(t) ==
  /\ At(t, "membar_sl")
  /\ mem' = Flushed(t, SLQueues)
  /\ Empty(t, SLQueues)
  /\ Proceed(t, FALSE, FALSE, FlushFaults(t, SLQueues))
  /\ Record(<<RWEvent("FLUSH_FENCE", t, NoLoc, 0)>>)
  /\ Skip(t)
  /\ UNCHANGED <<heap, history, nextThreadNum, allonAssertExist, observed>>

(* What a cas32 leaves in the trace: its write, when it succeeded, and the *)
(* flush of the buffers; nothing under NONE.                               *)
CASRecords(t, i, success) ==
  CASE WMM = "NONE" -> <<>>
    [] WMM = "TSO"  -> (IF success THEN <<RWEvent("WRITE", t, i.addr, 0)>> ELSE <<>>)
                         \o <<RWEvent("FLUSH_CAS_TSO", t, NoLoc, 0)>>
    [] OTHER        -> (IF success THEN <<RWEvent("WRITE", t, i.addr, i.label)>> ELSE <<>>)
                         \o <<RWEvent("FLUSH_CAS_PSO", t, i.addr, -1)>>

(* cas32 flushes, looks the base address up under every model, and         *)
(* compares and writes in place. It is no shared access to the scheduler.  *)
Cas32(t) ==
  /\ At(t, "cas32")
  /\ LET i == Instr(t)
         Q == CASQueues(i.addr)
         m == Flushed(t, Q)
         success == m[i.addr] = i.x
     IN  /\ i.addr \in heap
         /\ mem' = IF success THEN [m EXCEPT ![i.addr] = i.y] ELSE m
         /\ Empty(t, Q)
         /\ observed' = [observed EXCEPT ![t] = Seen(i.addr, m[i.addr])]
         /\ Record(CASRecords(t, i, success))
         /\ Advance(t, IF success THEN 1 ELSE 0)
         /\ Proceed(t, FALSE, FALSE, FlushFaults(t, Q))
  /\ UNCHANGED <<heap, history, nextThreadNum, allonAssertExist>>

Cas32Fault(t) ==
  /\ At(t, "cas32")
  /\ LET a == Instr(t).addr
         Q == CASQueues(a)
     IN  /\ a \notin heap
         /\ mem' = Flushed(t, Q)
         /\ Empty(t, Q)
  /\ Skip(t)
  /\ Proceed(t, FALSE, FALSE, TRUE)
  /\ UNCHANGED <<heap, history, nextThreadNum, allonAssertExist, observed, rwtrace_rec>>

(* caspo begins with a membar_sl and returns the old value.                *)
CasPO(t) ==
  /\ At(t, "caspo")
  /\ LET i == Instr(t)
         m == Flushed(t, SLQueues)
     IN  /\ mem' = IF m[i.addr] = i.x THEN [m EXCEPT ![i.addr] = i.y] ELSE m
         /\ Empty(t, SLQueues)
         /\ observed' = [observed EXCEPT ![t] = Seen(i.addr, m[i.addr])]
         /\ Advance(t, m[i.addr])
         /\ Proceed(t, FALSE, FALSE, FlushFaults(t, SLQueues))
  /\ Record(<<RWEvent("FLUSH_FENCE", t, NoLoc, 0)>>)
  /\ UNCHANGED <<heap, history, nextThreadNum, allonAssertExist>>

(* faspo begins with a membar_sl under TSO only: under PSO it exchanges    *)
(* the cell behind the back of the thread's own buffered stores.           *)
FasPO(t) ==
  /\ At(t, "faspo")
  /\ LET i == Instr(t)
         m == Flushed(t, FASQueues)
     IN  /\ mem' = [m EXCEPT ![i.addr] = i.x]
         /\ Empty(t, FASQueues)
         /\ observed' = [observed EXCEPT ![t] = Seen(i.addr, m[i.addr])]
         /\ Advance(t, m[i.addr])
  /\ Record(IF WMM = "TSO" THEN <<RWEvent("FLUSH_FENCE", t, NoLoc, 0)>> ELSE <<>>)
  /\ Proceed(t, FALSE, FALSE, FALSE)
  /\ UNCHANGED <<heap, history, nextThreadNum, allonAssertExist>>

-----------------------------------------------------------------------------
(* Memory management.                                                      *)

(* alloca and malloc take memory from the C library, with whatever it      *)
(* holds; the cell is one the program does not already use.                *)
Alloca(t) ==
  /\ At(t, "alloca")
  /\ LET a == Instr(t).addr
     IN  /\ ~ Allocated(a)
         /\ \E v \in Val : mem' = [mem EXCEPT ![a] = v]
         /\ threadStacks' = WithTop(t, [fn |-> Top(t).fn, pc |-> Top(t).pc + 1,
                                        acc |-> Top(t).acc,
                                        allocas |-> Top(t).allocas \cup {a}])
  /\ Proceed(t, FALSE, FALSE, FALSE)
  /\ UNCHANGED <<buffers, heap, history, nextThreadNum, allonAssertExist, observed,
                 rwtrace_rec>>

Malloc(t) ==
  /\ At(t, "malloc")
  /\ LET a == Instr(t).addr
     IN  /\ ~ Allocated(a)
         /\ \E v \in Val : mem' = [mem EXCEPT ![a] = v]
         /\ heap' = heap \cup {a}
  /\ Skip(t)
  /\ Proceed(t, FALSE, FALSE, FALSE)
  /\ UNCHANGED <<buffers, history, nextThreadNum, allonAssertExist, observed, rwtrace_rec>>

(* free leaves the stores buffered for the cell where they are.            *)
Free(t) ==
  /\ At(t, "free")
  /\ Instr(t).addr \in heap
  /\ heap' = heap \ {Instr(t).addr}
  /\ Skip(t)
  /\ Proceed(t, FALSE, FALSE, FALSE)
  /\ UNCHANGED <<buffers, mem, history, nextThreadNum, allonAssertExist, observed,
                 rwtrace_rec>>

(* "pointer for free is out-of-bounds": ASSERT leaves the process.         *)
FreeFault(t) ==
  /\ At(t, "free")
  /\ Instr(t).addr \notin heap
  /\ status' = "aborted"
  /\ UNCHANGED <<buffers, program, threadStacks, currThread, instr_info, segmentFaultFlag,
                 mem, heap, history, nextThreadNum, allonAssertExist, observed,
                 rwtrace_rec>>

-----------------------------------------------------------------------------
(* Control.                                                                *)

(* Arithmetic and the other instructions that set an SSA value.            *)
SetValue(t) ==
  /\ At(t, "set")
  /\ Advance(t, Instr(t).x)
  /\ Proceed(t, FALSE, FALSE, FALSE)
  /\ UNCHANGED <<buffers, mem, heap, history, nextThreadNum, allonAssertExist, observed,
                 rwtrace_rec>>

(* A branch taken when the last value equals the instruction's.            *)
Branch(t) ==
  /\ At(t, "br")
  /\ LET i == Instr(t)
         pc == IF Top(t).acc = i.x THEN i.to ELSE Top(t).pc + 1
     IN  threadStacks' = WithTop(t, Moved(Top(t), pc, Top(t).acc))
  /\ Proceed(t, FALSE, FALSE, FALSE)
  /\ UNCHANGED <<buffers, mem, heap, history, nextThreadNum, allonAssertExist, observed,
                 rwtrace_rec>>

(* RecordInvokeEvent: only the outermost recorded function of a thread     *)
(* leaves a record.                                                        *)
RecordInvokeEvent(f, t, arg) ==
  /\ trace_rec' = IF f \in Recorded /\ recur_calls[t] = 0
                  THEN Append(trace_rec, [type |-> "CALL_FUNC", func |-> f, thread |-> t,
                                          val |-> arg])
                  ELSE trace_rec
  /\ recur_calls' = IF f \in Recorded THEN [recur_calls EXCEPT ![t] = @ + 1] ELSE recur_calls

(* Mutant: nested returns are recorded too.                                *)
RecordEveryReturn(f, t, ret) ==
  /\ trace_rec' = IF f \in Recorded
                  THEN Append(trace_rec, [type |-> "RETURN_FUNC", func |-> f, thread |-> t,
                                          val |-> ret])
                  ELSE trace_rec
  /\ recur_calls' = IF f \in Recorded THEN [recur_calls EXCEPT ![t] = @ - 1] ELSE recur_calls

RecordReturnEvent(f, t, ret) ==
  /\ trace_rec' = IF f \in Recorded /\ recur_calls[t] = 1
                  THEN Append(trace_rec, [type |-> "RETURN_FUNC", func |-> f, thread |-> t,
                                          val |-> ret])
                  ELSE trace_rec
  /\ recur_calls' = IF f \in Recorded THEN [recur_calls EXCEPT ![t] = @ - 1] ELSE recur_calls

Call(t) ==
  /\ At(t, "call")
  /\ LET i == Instr(t)
     IN  /\ RecordInvokeEvent(i.fn, t, i.x)
         /\ threadStacks' =
              [threadStacks EXCEPT ![t] =
                 Append(WithTop(t, Moved(Top(t), Top(t).pc + 1, Top(t).acc))[t],
                        NewFrame(i.fn, i.x))]
  /\ Proceed(t, FALSE, FALSE, FALSE)
  /\ UNCHANGED <<buffers, mem, heap, nextThreadNum, allonAssertExist, observed, rwtrace_rec>>

(* The frame goes with its allocas, the value to the caller's frame if     *)
(* there is one. The thread's buffered stores stay.                        *)
Return(t) ==
  /\ At(t, "ret")
  /\ RecordReturnEvent(Top(t).fn, t, Top(t).acc)
  /\ LET n == Len(threadStacks[t])
         caller == threadStacks[t][n - 1]
     IN  threadStacks' = [threadStacks EXCEPT ![t] =
            IF n = 1 THEN <<>>
            ELSE Append(SubSeq(threadStacks[t], 1, n - 2),
                        Moved(caller, caller.pc, Top(t).acc))]
  /\ Proceed(t, FALSE, FALSE, FALSE)
  /\ UNCHANGED <<buffers, mem, heap, nextThreadNum, allonAssertExist, observed, rwtrace_rec>>

(* The new thread gets the next number (bound: the numbers in Thread) and  *)
(* its first frame, without a call record.                                 *)
Spawn(t) ==
  /\ At(t, "spawn")
  /\ nextThreadNum \in Thread
  /\ threadStacks' = [WithTop(t, Moved(Top(t), Top(t).pc + 1, Top(t).acc)) EXCEPT
                         ![nextThreadNum] = <<NewFrame(Instr(t).fn, 0)>>]
  /\ nextThreadNum' = nextThreadNum + 1
  /\ recur_calls' = Append(recur_calls, 0)
  /\ Record(<<RWEvent("SPAWN", t, NoLoc, 0)>>)
  /\ Proceed(t, FALSE, FALSE, FALSE)
  /\ UNCHANGED <<buffers, mem, heap, trace_rec, allonAssertExist, observed>>

(* join_all waits by executing again. It leaves a record each time.        *)
JoinBlocked(t) ==
  /\ At(t, "join")
  /\ Active # {t}
  /\ Proceed(t, TRUE, FALSE, FALSE)
  /\ Record(<<RWEvent("JOIN", t, NoLoc, 0)>>)
  /\ UNCHANGED <<buffers, threadStacks, mem, heap, history, nextThreadNum, allonAssertExist,
                 observed>>

Join(t) ==
  /\ At(t, "join")
  /\ Active = {t}
  /\ Skip(t)
  /\ Proceed(t, FALSE, FALSE, FALSE)
  /\ Record(<<RWEvent("JOIN", t, NoLoc, 0)>>)
  /\ UNCHANGED <<buffers, mem, heap, history, nextThreadNum, allonAssertExist, observed>>

(* assert_exist looks in memory, past every buffer, and reports a failure  *)
(* as a segment fault.                                                     *)
AssertExist(t) ==
  /\ At(t, "assert_exist")
  /\ allonAssertExist' = TRUE
  /\ Skip(t)
  /\ Proceed(t, FALSE, FALSE, mem[Instr(t).addr] # Instr(t).x)
  /\ UNCHANGED <<buffers, mem, heap, history, nextThreadNum, observed, rwtrace_rec>>

Execute(t) ==
  \/ StoreToMemory(t) \/ StoreToBuffer(t)
  \/ LoadFromBuffer(t) \/ LoadFromMemory(t) \/ LoadFault(t)
  \/ Membar_ss(t) \/ Membar_sl(t)
  \/ Cas32(t) \/ Cas32Fault(t) \/ CasPO(t) \/ FasPO(t)
  \/ Alloca(t) \/ Malloc(t) \/ Free(t) \/ FreeFault(t)
  \/ SetValue(t) \/ Branch(t) \/ Call(t) \/ Return(t)
  \/ Spawn(t) \/ JoinBlocked(t) \/ Join(t) \/ AssertExist(t)

-----------------------------------------------------------------------------
(* Flushes chosen by the scheduler, and the end of a run.                  *)

(* Mutant: the newest store is flushed first.                              *)
FlushNewest(t, q) ==
  LET n == Len(thread_buffer[t][q])
      e == thread_buffer[t][q][n]
  IN  /\ thread_buffer' = [thread_buffer EXCEPT ![t][q] = SubSeq(@, 1, n - 1)]
      /\ retired' = [retired EXCEPT ![t][q] = Append(@, e)]
      /\ mem' = IF Storable(e.addr) THEN [mem EXCEPT ![e.addr] = e.val] ELSE mem
      /\ segmentFaultFlag' = (segmentFaultFlag \/ ~ Storable(e.addr))

(* flush_buffer_tso and flush_buffer_pso on a queue that is not empty.     *)
FlushOne(t, q) ==
  LET e == Head(thread_buffer[t][q])
  IN  /\ thread_buffer' = [thread_buffer EXCEPT ![t][q] = Tail(@)]
      /\ retired' = [retired EXCEPT ![t][q] = Append(@, e)]
      /\ mem' = IF Storable(e.addr) THEN [mem EXCEPT ![e.addr] = e.val] ELSE mem
      /\ segmentFaultFlag' = (segmentFaultFlag \/ ~ Storable(e.addr))

(* selectAction1 with the RANDOM scheduler: a flush is chosen, as a thread *)
(* to switch to is, among the active threads. Under TSO an empty buffer    *)
(* may be chosen; under PSO a thread without buffered stores gives         *)
(* NO_ACTION. The record names the current thread, not t.                  *)
RandomFlushTSO(t) ==
  /\ status = "running" /\ WMM = "TSO"
  /\ t \in Active /\ Undecided
  /\ IF thread_buffer[t][Fifo] = <<>>
     THEN UNCHANGED <<thread_buffer, retired, mem, segmentFaultFlag>>
     ELSE FlushOne(t, Fifo)
  /\ Record(<<RWEvent("FLUSH_RANDOM_TSO", currThread, NoLoc, -1)>>)
  /\ UNCHANGED <<program, threadStacks, currThread, nextThreadNum, instr_info, heap,
                 allonAssertExist, status, history, issued, observed>>

RandomFlushPSO(t, q) ==
  /\ status = "running" /\ WMM = "PSO"
  /\ t \in Active /\ Undecided
  /\ thread_buffer[t][q] # <<>>
  /\ FlushOne(t, q)
  /\ Record(<<RWEvent("FLUSH_RANDOM_PSO", currThread, q, -1)>>)
  /\ UNCHANGED <<program, threadStacks, currThread, nextThreadNum, instr_info, heap,
                 allonAssertExist, status, history, issued, observed>>

RandomFlush(t) == RandomFlushTSO(t) \/ \E q \in Queue : RandomFlushPSO(t, q)

(* run() ends when no thread is active. It first calls flushAll, which     *)
(* visits the buffers of the active threads: there are none, so it flushes *)
(* and records nothing.                                                    *)
Finish ==
  /\ status = "running"
  /\ Active = {}
  /\ status' = "finished"
  /\ UNCHANGED <<buffers, program, threadStacks, currThread, nextThreadNum, instr_info,
                 segmentFaultFlag, mem, heap, allonAssertExist, history, observed,
                 rwtrace_rec>>

(* The constructor, and the call of Main by runFunction. It leaves         *)
(* instr_info.isSharedAccessing as it finds it.                            *)
Started ==
  /\ program \in DOMAIN Code
  /\ threadStacks = [t \in Thread |-> IF t = 1 THEN <<NewFrame(Main, 0)>> ELSE <<>>]
  /\ currThread = 1
  /\ nextThreadNum = 2
  /\ instr_info \in [isBlocked : {FALSE}, isSharedAccessing : BOOLEAN]
  /\ mem = [a \in Addr |-> 0]
  /\ heap = Globals
  /\ thread_buffer = [t \in Thread |-> [q \in Queue |-> <<>>]]
  /\ segmentFaultFlag = FALSE
  /\ status = "running"
  /\ rwtrace_rec = <<>>
  /\ trace_rec = <<>>
  /\ recur_calls = <<0>>
  /\ issued = [t \in Thread |-> [q \in Queue |-> <<>>]]
  /\ retired = [t \in Thread |-> [q \in Queue |-> <<>>]]
  /\ observed = [t \in Thread |-> Seen(NoLoc, 0)]

(* lli clears allonAssertExist itself.                                     *)
Init == Started /\ allonAssertExist = FALSE

Next == (\E t \in Thread : Execute(t) \/ RandomFlush(t)) \/ Finish

Spec == Init /\ [][Next]_vars

(* selectAction1 draws a thread or a flush with rand(), and FLUSHPROB lies *)
(* strictly between 0 and 1: what can be drawn again and again is drawn.   *)
Fairness ==
  /\ \A t \in Thread : SF_vars(Execute(t))
  /\ \A t \in Thread, q \in Queue :
        SF_vars((RandomFlushTSO(t) \/ RandomFlushPSO(t, q)) /\ thread_buffer[t][q] # <<>>)
  /\ WF_vars(Finish)

FairSpec == Spec /\ Fairness

-----------------------------------------------------------------------------
(* Invariants.                                                             *)

(***************************************************************************)
(* No store is lost, duplicated or overtaken in its queue, whatever mix of *)
(* random flushes, fences and atomic instructions emptied it: what was put *)
(* into a queue is what left it, in order, followed by what is still in it *)
(* (visitStoreInst, flush_buffer_tso, flush_buffer_pso, membar_ss,         *)
(* membar_sl, visitCAS, visitCASPO, visitFASPO).                           *)
(***************************************************************************)
QueueOrder ==
  \A t \in Thread, q \in Queue : issued[t][q] = retired[t][q] \o thread_buffer[t][q]

(* The events of one thread in the recorded history, those of them that    *)
(* follow one another, and whether the last is a call.                     *)
EventsOf(t) == {k \in 1 .. Len(trace_rec) : trace_rec[k].thread = t}
Follows(j, k, t) == j < k /\ ~ \E i \in EventsOf(t) : j < i /\ i < k
InCall(t) ==
  \E k \in EventsOf(t) : trace_rec[k].type = "CALL_FUNC" /\ \A j \in EventsOf(t) : j <= k

(* Recorded functions a thread has called and not returned from. Its first *)
(* frame was pushed without a call record.                                 *)
OpenCalls(t) == {k \in 2 .. Len(threadStacks[t]) : threadStacks[t][k].fn \in Recorded}

(***************************************************************************)
(* recur_calls counts exactly the recorded functions on a thread's stack,  *)
(* and the thread's part of the history alternates calls and returns of    *)
(* the same function, with an open call at its end just when the thread is *)
(* inside one: what gen_init_sc_perm needs to pair calls with returns.     *)
(***************************************************************************)
HistoryWellFormed ==
  \A t \in Thread :
    /\ t < nextThreadNum /\ threadStacks[t] # <<>> =>
         recur_calls[t] = Cardinality(OpenCalls(t))
    /\ \A k \in EventsOf(t) :
         IF trace_rec[k].type = "CALL_FUNC"
         THEN \A j \in EventsOf(t) : Follows(j, k, t) => trace_rec[j].type = "RETURN_FUNC"
         ELSE \E j \in EventsOf(t) :
                 /\ Follows(j, k, t)
                 /\ trace_rec[j].type = "CALL_FUNC" /\ trace_rec[j].func = trace_rec[k].func
    /\ InCall(t) <=> OpenCalls(t) # {}

(***************************************************************************)
(* A buffered store of a thread that still runs is flushed in the end, or  *)
(* the thread ends, or the run does: the scheduler does not starve the     *)
(* buffers (README: it "chooses randomly what do to: to switch to a thread *)
(* or to flush the buffer").                                               *)
(***************************************************************************)
EveryBufferDrains ==
  \A t \in Thread, q \in Queue :
    (thread_buffer[t][q] # <<>>) ~>
      (thread_buffer[t][q] = <<>> \/ threadStacks[t] = <<>> \/ status # "running")

(* Every run comes to an end.                                              *)
Termination == <>(status # "running")

(***************************************************************************)
(* A finished run leaves no store in a buffer: flushAll "flushes all       *)
(* buffers that have something to left to flush (execute at the end of     *)
(* program)" (Interpreter.h).                                              *)
(***************************************************************************)
EndsFlushed ==
  status = "finished" => \A t \in Thread, q \in Queue : thread_buffer[t][q] = <<>>

(***************************************************************************)
(* When a store leaves a queue and the trace records it, the record names  *)
(* the thread whose store it was: thr is "the thread that executes the     *)
(* operation" (RWHistory.h).                                               *)
(***************************************************************************)
FlushNamesItsThread ==
  [][\A t \in Thread :
       retired'[t] # retired[t] /\ rwtrace_rec' # rwtrace_rec
          => rwtrace_rec'[Len(rwtrace_rec')].thr = t]_vars
=============================================================================
