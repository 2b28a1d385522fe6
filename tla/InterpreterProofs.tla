------------------------- MODULE InterpreterProofs -------------------------
(***************************************************************************)
(* Proofs about the interpreter, for every program, memory model, set of   *)
(* threads and set of addresses: its variables keep their types, and no    *)
(* store buffer loses, duplicates or reorders a store.                     *)
(***************************************************************************)
EXTENDS Interpreter, SequenceTheorems, WellFoundedInduction, TLAPS

(* Every frame is at an instruction of its function. With it the variables *)
(* keep their types: without it a thread could run off its code.           *)
AtInstructions ==
  \A t \in Thread : \A k \in 1 .. Len(threadStacks[t]) :
     threadStacks[t][k].pc \in 1 .. Len(Code[program][threadStacks[t][k].fn])

IInv == TypeOK /\ AtInstructions

-----------------------------------------------------------------------------
(* Programs, stacks and instructions.                                      *)

LEMMA CodeType ==
  ASSUME NEW p \in DOMAIN Code, NEW f \in Fn
  PROVE  /\ Code[p][f] \in Seq(Instruction)
         /\ Len(Code[p][f]) \in Nat \ {0}
         /\ Code[p][f][Len(Code[p][f])].op = "ret"
         /\ \A i \in 1 .. Len(Code[p][f]) :
               Code[p][f][i].op = "br" => Code[p][f][i].to \in 1 .. Len(Code[p][f])
<1>1. WellFormed(Code[p][f])
  BY ProgramAssumption
<1>2. QED
  BY <1>1, LenProperties DEF WellFormed

LEMMA TopType ==
  ASSUME IInv, NEW t \in Active
  PROVE  /\ t \in Thread
         /\ Len(threadStacks[t]) \in Nat \ {0}
         /\ Top(t) \in Frame
         /\ Top(t).pc \in 1 .. Len(Code[program][Top(t).fn])
         /\ Instr(t) \in Instruction
         /\ Instr(t).op # "ret" => Top(t).pc + 1 \in 1 .. Len(Code[program][Top(t).fn])
         /\ Instr(t).op = "br" => Instr(t).to \in 1 .. Len(Code[program][Top(t).fn])
<1>1. t \in Thread /\ threadStacks[t] \in Seq(Frame) /\ threadStacks[t] # <<>>
  BY DEF IInv, TypeOK, Active
<1>2. Len(threadStacks[t]) \in Nat \ {0}
  BY <1>1, EmptySeq
<1>3. Top(t) \in Frame
  BY <1>1, <1>2, ElementOfSeq DEF Top
<1>4. Top(t).pc \in 1 .. Len(Code[program][Top(t).fn])
  <2>1. Len(threadStacks[t]) \in 1 .. Len(threadStacks[t])
    BY <1>2
  <2>2. QED
    BY <1>1, <2>1 DEF IInv, AtInstructions, Top
<1>5. Top(t).fn \in Fn /\ program \in DOMAIN Code
  BY <1>3 DEF Frame, IInv, TypeOK
<1>6. Instr(t) \in Instruction
  BY <1>4, <1>5, CodeType, ElementOfSeq DEF Instr
<1>7. Instr(t).op # "ret" => Top(t).pc # Len(Code[program][Top(t).fn])
  BY <1>5, CodeType DEF Instr
<1>8. QED
  BY <1>1, <1>2, <1>3, <1>4, <1>5, <1>6, <1>7, CodeType DEF Instr

(* Replacing the top frame by one at an instruction of its function.       *)
LEMMA ReplaceTop ==
  ASSUME IInv, NEW t \in Active, NEW fr \in Frame,
         fr.pc \in 1 .. Len(Code[program][fr.fn])
  PROVE  /\ WithTop(t, fr) \in [Thread -> Seq(Frame)]
         /\ Len(WithTop(t, fr)[t]) = Len(threadStacks[t])
         /\ \A u \in Thread : \A k \in 1 .. Len(WithTop(t, fr)[u]) :
               WithTop(t, fr)[u][k].pc \in 1 .. Len(Code[program][WithTop(t, fr)[u][k].fn])
<1> DEFINE s == WithTop(t, fr)
<1>1. t \in Thread /\ Len(threadStacks[t]) \in Nat \ {0} /\ threadStacks \in [Thread -> Seq(Frame)]
  BY TopType DEF IInv, TypeOK
<1>2. s[t] = [threadStacks[t] EXCEPT ![Len(threadStacks[t])] = fr]
  BY <1>1 DEF WithTop
<1>3. /\ s[t] \in Seq(Frame)
      /\ Len(s[t]) = Len(threadStacks[t])
      /\ \A k \in 1 .. Len(threadStacks[t]) :
            s[t][k] = IF k = Len(threadStacks[t]) THEN fr ELSE threadStacks[t][k]
  BY <1>1, <1>2, ExceptSeq
<1>4. \A u \in Thread \ {t} : s[u] = threadStacks[u]
  BY <1>1 DEF WithTop
<1>5. s \in [Thread -> Seq(Frame)]
  BY <1>1, <1>3 DEF WithTop
<1>6. ASSUME NEW u \in Thread, NEW k \in 1 .. Len(s[u])
      PROVE  s[u][k].pc \in 1 .. Len(Code[program][s[u][k].fn])
  <2>1. CASE u = t
    BY <2>1, <1>1, <1>3 DEF IInv, AtInstructions
  <2>2. CASE u # t
    BY <2>2, <1>4 DEF IInv, AtInstructions
  <2>3. QED
    BY <2>1, <2>2
<1>7. QED
  BY <1>3, <1>5, <1>6

LEMMA AdvanceType ==
  ASSUME IInv, NEW t \in Active, Instr(t).op # "ret", NEW v \in Val, Advance(t, v),
         program' = program
  PROVE  threadStacks' \in [Thread -> Seq(Frame)] /\ AtInstructions'
<1> DEFINE fr == Moved(Top(t), Top(t).pc + 1, v)
<1>1. fr \in Frame /\ fr.pc \in 1 .. Len(Code[program][fr.fn])
  BY TopType DEF Moved, Frame
<1>2. threadStacks' = WithTop(t, fr)
  BY DEF Advance
<1>3. QED
  BY <1>1, <1>2, ReplaceTop DEF AtInstructions, Code

-----------------------------------------------------------------------------
(* Buffers and memory.                                                     *)

LEMMA MaximumExists ==
  ASSUME NEW n \in Nat, NEW S \in SUBSET (1 .. n), S # {}
  PROVE  \E k \in S : \A j \in S : j <= k
<1> DEFINE T == {n - k : k \in S}
<1>1. T \subseteq Nat /\ T # {}
  <2>1. \A k \in S : k \in Nat /\ n - k \in Nat
    OBVIOUS
  <2>2. QED
    BY <2>1
<1>2. \E x \in T : \A y \in T : ~ (<<y, x>> \in OpToRel(<, Nat))
  BY <1>1, NatLessThanWellFounded, WFMin
<1>3. PICK x \in T : \A y \in T : ~ (y < x)
  BY <1>1, <1>2 DEF OpToRel
<1>4. PICK k \in S : x = n - k
  BY <1>3
<1>5. ASSUME NEW j \in S PROVE j <= k
  <2>1. ~ (n - j < n - k)
    BY <1>3, <1>4
  <2>2. j \in Nat /\ k \in Nat
    OBVIOUS
  <2>3. QED
    BY <2>1, <2>2
<1>6. QED
  BY <1>5

LEMMA QueueType ==
  ASSUME TypeOK, NEW t \in Thread, NEW q \in Queue
  PROVE  /\ thread_buffer[t][q] \in Seq(Elem)
         /\ issued[t][q] \in Seq(Elem)
         /\ retired[t][q] \in Seq(Elem)
BY DEF TypeOK

LEMMA QueueOfType ==
  ASSUME NEW a \in Addr
  PROVE  QueueOf(a) \in Queue
BY DEF QueueOf, Queue

LEMMA NewestType ==
  ASSUME TypeOK, NEW t \in Thread, NEW a \in Addr, Own(t, a) # {}
  PROVE  Newest(t, a) \in Val
<1> DEFINE b == thread_buffer[t][QueueOf(a)]
<1>1. b \in Seq(Elem) /\ Len(b) \in Nat
  BY QueueType, QueueOfType, LenProperties
<1>2. Own(t, a) \in SUBSET (1 .. Len(b))
  BY DEF Own
<1>3. \E k \in Own(t, a) : \A j \in Own(t, a) : j <= k
  BY <1>1, <1>2, MaximumExists
<1>4. PICK k \in Own(t, a) : Newest(t, a) = b[k].val
  BY <1>3 DEF Newest
<1>5. b[k] \in Elem
  BY <1>1, <1>2, ElementOfSeq
<1>6. QED
  BY <1>4, <1>5 DEF Elem

LEMMA FlushedType ==
  ASSUME TypeOK, NEW t \in Thread, NEW Q
  PROVE  Flushed(t, Q) \in [Addr -> Val]
BY NewestType DEF Flushed, TypeOK

(* Putting an element at the end of b, and moving one from the front of b  *)
(* to the end of r, in the sequence r \o b.                                *)
LEMMA PushOrder ==
  ASSUME NEW r \in Seq(Elem), NEW b \in Seq(Elem), NEW e \in Elem
  PROVE  Append(r \o b, e) = r \o Append(b, e)
<1>1. Append(r \o b, e) = (r \o b) \o <<e>> /\ Append(b, e) = b \o <<e>>
  BY ConcatProperties, AppendIsConcat
<1>2. (r \o b) \o <<e>> = r \o (b \o <<e>>)
  BY ConcatAssociative
<1>3. QED
  BY <1>1, <1>2

LEMMA PopOrder ==
  ASSUME NEW r \in Seq(Elem), NEW b \in Seq(Elem), b # <<>>
  PROVE  Append(r, Head(b)) \o Tail(b) = r \o b
<1>1. Head(b) \in Elem /\ Tail(b) \in Seq(Elem)
  BY HeadTailProperties
<1>2. b = <<Head(b)>> \o Tail(b)
  BY <1>1
<1>3. Append(r, Head(b)) = r \o <<Head(b)>>
  BY <1>1, AppendIsConcat
<1>4. ASSUME NEW h \in Elem, NEW u \in Seq(Elem)
      PROVE  (r \o <<h>>) \o u = r \o (<<h>> \o u)
  BY ConcatAssociative
<1>5. (r \o <<Head(b)>>) \o Tail(b) = r \o (<<Head(b)>> \o Tail(b))
  BY <1>1, <1>4
<1>6. QED
  BY <1>2, <1>3, <1>5

(* Emptying queues keeps the buffers' types and their order.               *)
LEMMA EmptyType ==
  ASSUME TypeOK, NEW t \in Thread, NEW Q, Empty(t, Q)
  PROVE  /\ thread_buffer' \in [Thread -> [Queue -> Seq(Elem)]]
         /\ issued' \in [Thread -> [Queue -> Seq(Elem)]]
         /\ retired' \in [Thread -> [Queue -> Seq(Elem)]]
         /\ QueueOrder => QueueOrder'
<1>1. /\ thread_buffer \in [Thread -> [Queue -> Seq(Elem)]]
      /\ issued \in [Thread -> [Queue -> Seq(Elem)]]
      /\ retired \in [Thread -> [Queue -> Seq(Elem)]]
  BY DEF TypeOK
<1>2. /\ thread_buffer'[t] = [q \in Queue |-> IF q \in Q THEN <<>> ELSE thread_buffer[t][q]]
      /\ retired'[t] = [q \in Queue |-> IF q \in Q THEN retired[t][q] \o thread_buffer[t][q]
                                                    ELSE retired[t][q]]
      /\ issued' = issued
      /\ \A u \in Thread \ {t} : thread_buffer'[u] = thread_buffer[u] /\ retired'[u] = retired[u]
  BY <1>1 DEF Empty
<1>3. \A q \in Queue : retired[t][q] \o thread_buffer[t][q] \in Seq(Elem)
  BY QueueType, ConcatProperties
<1>4. /\ thread_buffer' \in [Thread -> [Queue -> Seq(Elem)]]
      /\ retired' \in [Thread -> [Queue -> Seq(Elem)]]
  <2>1. <<>> \in Seq(Elem)
    BY EmptySeq
  <2>2. [q \in Queue |-> IF q \in Q THEN <<>> ELSE thread_buffer[t][q]] \in [Queue -> Seq(Elem)]
    BY <1>1, <2>1
  <2>3. [q \in Queue |-> IF q \in Q THEN retired[t][q] \o thread_buffer[t][q] ELSE retired[t][q]]
           \in [Queue -> Seq(Elem)]
    BY <1>1, <1>3
  <2>4. QED
    BY <1>1, <2>2, <2>3 DEF Empty
<1>5. ASSUME QueueOrder, NEW u \in Thread, NEW q \in Queue
      PROVE  issued'[u][q] = retired'[u][q] \o thread_buffer'[u][q]
  <2>1. CASE u = t /\ q \in Q
    <3>1. retired'[u][q] = retired[t][q] \o thread_buffer[t][q] /\ thread_buffer'[u][q] = <<>>
      BY <1>2, <2>1
    <3>2. issued'[u][q] = retired[t][q] \o thread_buffer[t][q]
      BY <1>2, <1>5, <2>1 DEF QueueOrder
    <3>3. QED
      BY <1>3, <3>1, <3>2, ConcatEmptySeq
  <2>2. CASE u = t /\ q \notin Q
    BY <1>2, <1>5, <2>2 DEF QueueOrder
  <2>3. CASE u # t
    BY <1>2, <1>5, <2>3 DEF QueueOrder
  <2>4. QED
    BY <2>1, <2>2, <2>3
<1>6. QED
  BY <1>1, <1>2, <1>4, <1>5 DEF QueueOrder

(* So does putting a store into a queue ...                                *)
LEMMA IssueType ==
  ASSUME TypeOK, NEW t \in Thread, NEW q \in Queue, NEW e \in Elem,
         thread_buffer' = [thread_buffer EXCEPT ![t][q] = Append(@, e)],
         issued' = [issued EXCEPT ![t][q] = Append(@, e)],
         retired' = retired
  PROVE  /\ thread_buffer' \in [Thread -> [Queue -> Seq(Elem)]]
         /\ issued' \in [Thread -> [Queue -> Seq(Elem)]]
         /\ retired' \in [Thread -> [Queue -> Seq(Elem)]]
         /\ QueueOrder => QueueOrder'
<1>1. /\ thread_buffer \in [Thread -> [Queue -> Seq(Elem)]]
      /\ issued \in [Thread -> [Queue -> Seq(Elem)]]
      /\ retired \in [Thread -> [Queue -> Seq(Elem)]]
  BY DEF TypeOK
<1>2. Append(thread_buffer[t][q], e) \in Seq(Elem) /\ Append(issued[t][q], e) \in Seq(Elem)
  BY QueueType, AppendProperties
<1>3. /\ thread_buffer' \in [Thread -> [Queue -> Seq(Elem)]]
      /\ issued' \in [Thread -> [Queue -> Seq(Elem)]]
  BY <1>1, <1>2
<1>4. ASSUME QueueOrder, NEW u \in Thread, NEW r \in Queue
      PROVE  issued'[u][r] = retired'[u][r] \o thread_buffer'[u][r]
  <2>1. CASE u = t /\ r = q
    <3>1. thread_buffer'[u][r] = Append(thread_buffer[t][q], e) /\ issued'[u][r] = Append(issued[t][q], e)
      BY <1>1, <2>1
    <3>2. issued[t][q] = retired[t][q] \o thread_buffer[t][q]
      BY <1>4 DEF QueueOrder
    <3>3. Append(retired[t][q] \o thread_buffer[t][q], e) = retired[t][q] \o Append(thread_buffer[t][q], e)
      BY QueueType, PushOrder
    <3>4. QED
      BY <2>1, <3>1, <3>2, <3>3
  <2>2. CASE u # t \/ r # q
    <3>1. thread_buffer'[u][r] = thread_buffer[u][r] /\ issued'[u][r] = issued[u][r]
      BY <1>1, <2>2
    <3>2. QED
      BY <1>4, <3>1 DEF QueueOrder
  <2>3. QED
    BY <2>1, <2>2
<1>5. QED
  BY <1>1, <1>3, <1>4 DEF QueueOrder

(* ... and taking the oldest out of one, which also keeps memory's type.   *)
LEMMA FlushOneType ==
  ASSUME TypeOK, NEW t \in Thread, NEW q \in Queue, thread_buffer[t][q] # <<>>,
         FlushOne(t, q), issued' = issued
  PROVE  /\ thread_buffer' \in [Thread -> [Queue -> Seq(Elem)]]
         /\ issued' \in [Thread -> [Queue -> Seq(Elem)]]
         /\ retired' \in [Thread -> [Queue -> Seq(Elem)]]
         /\ mem' \in [Addr -> Val]
         /\ segmentFaultFlag' \in BOOLEAN
         /\ QueueOrder => QueueOrder'
<1> DEFINE b == thread_buffer[t][q]
           e == Head(b)
<1>1. /\ thread_buffer \in [Thread -> [Queue -> Seq(Elem)]]
      /\ issued \in [Thread -> [Queue -> Seq(Elem)]]
      /\ retired \in [Thread -> [Queue -> Seq(Elem)]]
      /\ mem \in [Addr -> Val] /\ segmentFaultFlag \in BOOLEAN
  BY DEF TypeOK
<1>2. b \in Seq(Elem) /\ retired[t][q] \in Seq(Elem)
  BY QueueType
<1>3. e \in Elem /\ Tail(b) \in Seq(Elem)
  BY <1>2, HeadTailProperties
<1>4. /\ thread_buffer' = [thread_buffer EXCEPT ![t][q] = Tail(@)]
      /\ retired' = [retired EXCEPT ![t][q] = Append(@, e)]
      /\ mem' = IF Storable(e.addr) THEN [mem EXCEPT ![e.addr] = e.val] ELSE mem
      /\ segmentFaultFlag' = (segmentFaultFlag \/ ~ Storable(e.addr))
  BY DEF FlushOne
<1>5. Append(retired[t][q], e) \in Seq(Elem)
  BY <1>2, <1>3, AppendProperties
<1>6. /\ thread_buffer' \in [Thread -> [Queue -> Seq(Elem)]]
      /\ retired' \in [Thread -> [Queue -> Seq(Elem)]]
  BY <1>1, <1>3, <1>4, <1>5
<1>7. mem' \in [Addr -> Val]
  BY <1>1, <1>3, <1>4 DEF Elem
<1>8. segmentFaultFlag' \in BOOLEAN
  BY <1>1, <1>4 DEF Storable
<1>9. ASSUME QueueOrder, NEW u \in Thread, NEW r \in Queue
      PROVE  issued'[u][r] = retired'[u][r] \o thread_buffer'[u][r]
  <2>1. CASE u = t /\ r = q
    <3>1. thread_buffer'[u][r] = Tail(b) /\ retired'[u][r] = Append(retired[t][q], e)
      BY <1>1, <1>4, <2>1
    <3>2. issued[t][q] = retired[t][q] \o b
      BY <1>9 DEF QueueOrder
    <3>3. Append(retired[t][q], e) \o Tail(b) = retired[t][q] \o b
      BY <1>2, PopOrder
    <3>4. QED
      BY <2>1, <3>1, <3>2, <3>3
  <2>2. CASE u # t \/ r # q
    <3>1. thread_buffer'[u][r] = thread_buffer[u][r] /\ retired'[u][r] = retired[u][r]
      BY <1>1, <1>4, <2>2
    <3>2. QED
      BY <1>9, <3>1 DEF QueueOrder
  <2>3. QED
    BY <2>1, <2>2
<1>10. QED
  BY <1>1, <1>6, <1>7, <1>8, <1>9 DEF QueueOrder

-----------------------------------------------------------------------------
(* The invariant in the parts an action changes together.                  *)

StacksOK == threadStacks \in [Thread -> Seq(Frame)] /\ AtInstructions
ControlOK ==
  /\ program \in DOMAIN Code
  /\ currThread \in Thread
  /\ instr_info \in [isBlocked : BOOLEAN, isSharedAccessing : BOOLEAN]
  /\ segmentFaultFlag \in BOOLEAN
  /\ status \in {"running", "finished", "segfault", "aborted"}
MemoryOK ==
  /\ mem \in [Addr -> Val]
  /\ heap \subseteq Addr
  /\ observed \in [Thread -> [addr : Addr \cup {NoLoc}, val : Val]]
BuffersOK ==
  /\ thread_buffer \in [Thread -> [Queue -> Seq(Elem)]]
  /\ issued \in [Thread -> [Queue -> Seq(Elem)]]
  /\ retired \in [Thread -> [Queue -> Seq(Elem)]]
CallsOK == trace_rec \in Seq(CallRecord) /\ recur_calls \in Seq(Int)
FlagsOK == allonAssertExist \in BOOLEAN /\ nextThreadNum \in Nat
TraceOK == rwtrace_rec \in Seq(RWRecord)

LEMMA Parts ==
  IInv <=> StacksOK /\ ControlOK /\ MemoryOK /\ BuffersOK /\ CallsOK /\ FlagsOK /\ TraceOK
BY DEF IInv, TypeOK, StacksOK, ControlOK, MemoryOK, BuffersOK, CallsOK, FlagsOK, TraceOK

LEMMA PartsNext ==
  StacksOK' /\ ControlOK' /\ MemoryOK' /\ BuffersOK' /\ CallsOK' /\ FlagsOK' /\ TraceOK' => IInv'
BY DEF IInv, TypeOK, StacksOK, ControlOK, MemoryOK, BuffersOK, CallsOK, FlagsOK, TraceOK

(* What an action leaves alone stays in order.                             *)
LEMMA Kept ==
  ASSUME IInv
  PROVE  /\ UNCHANGED <<program, threadStacks>> => StacksOK'
         /\ UNCHANGED <<mem, heap, observed>> => MemoryOK'
         /\ UNCHANGED buffers => BuffersOK' /\ (QueueOrder => QueueOrder')
         /\ UNCHANGED history => CallsOK'
         /\ UNCHANGED <<allonAssertExist, nextThreadNum>> => FlagsOK'
         /\ UNCHANGED rwtrace_rec => TraceOK'
<1>1. UNCHANGED <<program, threadStacks>> => StacksOK'
  BY Parts DEF StacksOK, AtInstructions, Code
<1>2. UNCHANGED <<mem, heap, observed>> => MemoryOK'
  BY Parts DEF MemoryOK
<1>3. UNCHANGED buffers => BuffersOK' /\ (QueueOrder => QueueOrder')
  BY Parts DEF BuffersOK, QueueOrder, buffers
<1>4. UNCHANGED history => CallsOK'
  BY Parts DEF CallsOK, history
<1>5. UNCHANGED <<allonAssertExist, nextThreadNum>> => FlagsOK'
  BY Parts DEF FlagsOK
<1>6. UNCHANGED rwtrace_rec => TraceOK'
  BY Parts DEF TraceOK
<1>7. QED
  BY <1>1, <1>2, <1>3, <1>4, <1>5, <1>6

LEMMA ProceedType ==
  ASSUME IInv, NEW t \in Thread, NEW blocked \in BOOLEAN, NEW shared \in BOOLEAN,
         NEW fault \in BOOLEAN, Proceed(t, blocked, shared, fault)
  PROVE  ControlOK' /\ program' = program
BY Parts DEF ControlOK, Proceed, Code

LEMMA RecordType ==
  ASSUME IInv, NEW events \in Seq(RWRecord), Record(events)
  PROVE  TraceOK'
BY Parts, ConcatProperties DEF TraceOK, Record

LEMMA EventType ==
  ASSUME NEW type \in RWType, NEW t \in Thread, NEW loc \in Addr \cup {NoLoc}, NEW label \in Int
  PROVE  RWEvent(type, t, loc, label) \in RWRecord
BY DEF RWRecord, RWEvent

LEMMA OneEvent ==
  ASSUME IInv, NEW type \in RWType, NEW t \in Thread, NEW loc \in Addr \cup {NoLoc},
         NEW label \in Int,
         Record(<<RWEvent(type, t, loc, label)>>) \/ Record(<<>>)
  PROVE  TraceOK'
<1>1. RWEvent(type, t, loc, label) \in RWRecord
  BY EventType
<1>2. <<RWEvent(type, t, loc, label)>> \in Seq(RWRecord) /\ <<>> \in Seq(RWRecord)
  BY <1>1
<1>3. QED
  BY <1>2, RecordType

(* The same for an event that is not about a cell.                         *)
LEMMA NoLocEvent ==
  ASSUME IInv, NEW type \in RWType, NEW t \in Thread,
         Record(<<RWEvent(type, t, NoLoc, 0)>>) \/ Record(<<>>)
  PROVE  TraceOK'
<1>1. NoLoc \in Addr \cup {NoLoc} /\ 0 \in Int
  OBVIOUS
<1>2. QED
  BY <1>1, OneEvent

LEMMA RandomEvent ==
  ASSUME IInv, NEW q \in Addr \cup {Fifo},
         \/ Record(<<RWEvent("FLUSH_RANDOM_TSO", currThread, NoLoc, -1)>>)
         \/ q \in Addr /\ Record(<<RWEvent("FLUSH_RANDOM_PSO", currThread, q, -1)>>)
  PROVE  TraceOK'
<1>1. currThread \in Thread /\ -1 \in Int /\ NoLoc \in Addr \cup {NoLoc}
  BY Parts DEF ControlOK
<1>2. "FLUSH_RANDOM_TSO" \in RWType /\ "FLUSH_RANDOM_PSO" \in RWType
  BY DEF RWType
<1>3. QED
  BY <1>1, <1>2, OneEvent

-----------------------------------------------------------------------------
(* Every step keeps the invariant and the order of the queues.           *)

LEMMA Running ==
  ASSUME IInv, NEW t \in Thread, NEW op, At(t, op)
  PROVE  /\ t \in Active
         /\ Instr(t) \in Instruction
         /\ Instr(t).op = op
         /\ Instr(t).addr \in Addr
         /\ Instr(t).x \in Val
         /\ Instr(t).y \in Val
         /\ Instr(t).fn \in Fn
         /\ Instr(t).label \in Nat
         /\ Top(t).acc \in Val
         /\ Top(t).fn \in Fn
         /\ Top(t).pc \in Nat
         /\ Top(t).allocas \in SUBSET Addr
<1>1. t \in Active /\ Instr(t).op = op
  BY DEF At
<1>2. Instr(t) \in Instruction /\ Top(t) \in Frame
  BY <1>1, TopType
<1>3. QED
  BY <1>1, <1>2 DEF Instruction, Frame

(* Going on to the next instruction, with or without a new value.          *)
LEMMA OnwardType ==
  ASSUME IInv, NEW t \in Active, Instr(t).op # "ret", program' = program,
         Skip(t) \/ \E v \in Val : Advance(t, v)
  PROVE  StacksOK'
<1>1. Top(t).acc \in Val
  BY TopType DEF Frame
<1>2. PICK v \in Val : Advance(t, v)
  BY <1>1 DEF Skip
<1>3. QED
  BY <1>2, AdvanceType DEF StacksOK

LEMMA CounterType ==
  ASSUME NEW c \in Seq(Int), NEW t
  PROVE  [c EXCEPT ![t] = @ + 1] \in Seq(Int) /\ [c EXCEPT ![t] = @ - 1] \in Seq(Int)
<1>1. CASE t \in 1 .. Len(c)
  <2>1. c[t] \in Int
    BY <1>1, ElementOfSeq
  <2>2. QED
    BY <1>1, <2>1, ExceptSeq
<1>2. CASE t \notin 1 .. Len(c)
  <2>1. [c EXCEPT ![t] = @ + 1] = c /\ [c EXCEPT ![t] = @ - 1] = c
    BY <1>2, LenProperties
  <2>2. QED
    BY <2>1
<1>3. QED
  BY <1>1, <1>2

LEMMA CASRecordsType ==
  ASSUME NEW t \in Thread, NEW i \in Instruction, NEW success \in BOOLEAN
  PROVE  CASRecords(t, i, success) \in Seq(RWRecord)
<1>1. /\ RWEvent("WRITE", t, i.addr, 0) \in RWRecord
      /\ RWEvent("WRITE", t, i.addr, i.label) \in RWRecord
      /\ RWEvent("FLUSH_CAS_TSO", t, NoLoc, 0) \in RWRecord
      /\ RWEvent("FLUSH_CAS_PSO", t, i.addr, -1) \in RWRecord
  BY EventType DEF Instruction, RWType
<1>2. /\ <<>> \in Seq(RWRecord)
      /\ <<RWEvent("WRITE", t, i.addr, 0)>> \in Seq(RWRecord)
      /\ <<RWEvent("WRITE", t, i.addr, i.label)>> \in Seq(RWRecord)
      /\ <<RWEvent("FLUSH_CAS_TSO", t, NoLoc, 0)>> \in Seq(RWRecord)
      /\ <<RWEvent("FLUSH_CAS_PSO", t, i.addr, -1)>> \in Seq(RWRecord)
  BY <1>1
<1>3. \A r \in Seq(RWRecord), u \in Seq(RWRecord) : r \o u \in Seq(RWRecord)
  BY ConcatProperties
<1>4. CASE WMM = "NONE"
  BY <1>2, <1>4 DEF CASRecords
<1>5. CASE WMM = "TSO"
  <2>1. CASRecords(t, i, success) =
          (IF success THEN <<RWEvent("WRITE", t, i.addr, 0)>> ELSE <<>>)
            \o <<RWEvent("FLUSH_CAS_TSO", t, NoLoc, 0)>>
    BY <1>5 DEF CASRecords
  <2>2. QED
    BY <1>2, <1>3, <2>1
<1>6. CASE WMM = "PSO"
  <2>1. CASRecords(t, i, success) =
          (IF success THEN <<RWEvent("WRITE", t, i.addr, i.label)>> ELSE <<>>)
            \o <<RWEvent("FLUSH_CAS_PSO", t, i.addr, -1)>>
    BY <1>6 DEF CASRecords
  <2>2. QED
    BY <1>2, <1>3, <2>1
<1>7. QED
  BY <1>4, <1>5, <1>6, WMMAssumption

LEMMA InvokeType ==
  ASSUME IInv, NEW t \in Thread, NEW f \in Fn, NEW v \in Val, RecordInvokeEvent(f, t, v)
  PROVE  CallsOK'
<1>1. [type |-> "CALL_FUNC", func |-> f, thread |-> t, val |-> v] \in CallRecord
  BY DEF CallRecord
<1>2. trace_rec' \in Seq(CallRecord)
  BY <1>1, Parts, AppendProperties DEF CallsOK, RecordInvokeEvent
<1>3. recur_calls' \in Seq(Int)
  BY Parts, CounterType DEF CallsOK, RecordInvokeEvent
<1>4. QED
  BY <1>2, <1>3 DEF CallsOK

LEMMA ReturnType ==
  ASSUME IInv, NEW t \in Thread, NEW f \in Fn, NEW v \in Val, RecordReturnEvent(f, t, v)
  PROVE  CallsOK'
<1>1. [type |-> "RETURN_FUNC", func |-> f, thread |-> t, val |-> v] \in CallRecord
  BY DEF CallRecord
<1>2. trace_rec' \in Seq(CallRecord)
  BY <1>1, Parts, AppendProperties DEF CallsOK, RecordReturnEvent
<1>3. recur_calls' \in Seq(Int)
  BY Parts, CounterType DEF CallsOK, RecordReturnEvent
<1>4. QED
  BY <1>2, <1>3 DEF CallsOK

LEMMA PushFrame ==
  ASSUME threadStacks \in [Thread -> Seq(Frame)], NEW t \in Thread, NEW s, NEW new \in Frame,
         s \in [Thread -> Seq(Frame)],
         \A u \in Thread : \A k \in 1 .. Len(s[u]) :
            s[u][k].pc \in 1 .. Len(Code[program][s[u][k].fn]),
         new.pc \in 1 .. Len(Code[program][new.fn]),
         \A u \in Thread \ {t} : threadStacks[u] = s[u],
         threadStacks' = [threadStacks EXCEPT ![t] = Append(s[t], new)],
         program' = program
  PROVE  StacksOK'
<1>1. /\ Append(s[t], new) \in Seq(Frame)
      /\ Len(Append(s[t], new)) = Len(s[t]) + 1
      /\ Len(s[t]) \in Nat
      /\ \A k \in 1 .. Len(s[t]) : Append(s[t], new)[k] = s[t][k]
      /\ Append(s[t], new)[Len(s[t]) + 1] = new
  BY AppendProperties, LenProperties
<1>2. ASSUME NEW u \in Thread, NEW k \in 1 .. Len(threadStacks'[u])
      PROVE  threadStacks'[u][k].pc \in 1 .. Len(Code[program][threadStacks'[u][k].fn])
  <2>1. CASE u # t
    BY <2>1
  <2>2. CASE u = t /\ k = Len(s[t]) + 1
    BY <1>1, <2>2
  <2>3. CASE u = t /\ k # Len(s[t]) + 1
    <3>1. k \in 1 .. Len(s[t]) /\ threadStacks'[u][k] = s[t][k]
      BY <1>1, <2>3
    <3>2. QED
      BY <2>3, <3>1
  <2>4. QED
    BY <2>1, <2>2, <2>3
<1>3. QED
  BY <1>1, <1>2 DEF StacksOK, AtInstructions, Code

(* A new stack of one frame.                                               *)
LEMMA StartStack ==
  ASSUME NEW u \in Thread, NEW s \in [Thread -> Seq(Frame)], NEW new \in Frame,
         \A t \in Thread : \A k \in 1 .. Len(s[t]) :
            s[t][k].pc \in 1 .. Len(Code[program][s[t][k].fn]),
         new.pc \in 1 .. Len(Code[program][new.fn]),
         threadStacks' = [s EXCEPT ![u] = <<new>>],
         program' = program
  PROVE  StacksOK'
<1>1. <<new>> \in Seq(Frame) /\ Len(<<new>>) = 1 /\ <<new>>[1] = new
  OBVIOUS
<1>2. threadStacks' \in [Thread -> Seq(Frame)]
  BY <1>1
<1>3. threadStacks'[u] = <<new>> /\ \A t \in Thread \ {u} : threadStacks'[t] = s[t]
  OBVIOUS
<1>4. ASSUME NEW t \in Thread, NEW k \in 1 .. Len(threadStacks'[t])
      PROVE  threadStacks'[t][k].pc \in 1 .. Len(Code[program][threadStacks'[t][k].fn])
  <2>1. CASE t = u
    <3>1. k = 1
      BY <1>1, <1>3, <2>1
    <3>2. threadStacks'[t][k] = new
      BY <1>1, <1>3, <2>1, <3>1
    <3>3. QED
      BY <3>2
  <2>2. CASE t # u
    BY <1>3, <2>2
  <2>3. QED
    BY <2>1, <2>2
<1>5. QED
  BY <1>2, <1>4 DEF StacksOK, AtInstructions, Code

(* A return takes the top frame off and gives its value to the next one,   *)
(* if there is one.                                                        *)
LEMMA EndStack ==
  ASSUME IInv, NEW t \in Thread, threadStacks' = [threadStacks EXCEPT ![t] = <<>>],
         program' = program
  PROVE  StacksOK'
<1>1. <<>> \in Seq(Frame) /\ Len(<<>>) = 0 /\ threadStacks \in [Thread -> Seq(Frame)]
  BY EmptySeq DEF IInv, TypeOK
<1>2. threadStacks' \in [Thread -> Seq(Frame)]
  BY <1>1
<1>3. threadStacks'[t] = <<>> /\ \A u \in Thread \ {t} : threadStacks'[u] = threadStacks[u]
  BY <1>1
<1>4. ASSUME NEW u \in Thread, NEW k \in 1 .. Len(threadStacks'[u])
      PROVE  threadStacks'[u][k].pc \in 1 .. Len(Code[program][threadStacks'[u][k].fn])
  <2>1. CASE u = t
    <3>1. k \in 1 .. 0
      BY <1>1, <1>3, <2>1
    <3>2. QED
      BY <3>1
  <2>2. CASE u # t
    BY <1>3, <2>2 DEF IInv, AtInstructions
  <2>3. QED
    BY <2>1, <2>2
<1>5. QED
  BY <1>2, <1>4 DEF StacksOK, AtInstructions, Code

LEMMA PopFrame ==
  ASSUME IInv, NEW t \in Thread, NEW n \in Nat, n = Len(threadStacks[t]), n > 1,
         NEW new \in Frame, new.pc \in 1 .. Len(Code[program][new.fn]),
         threadStacks' = [threadStacks EXCEPT ![t] =
                            Append(SubSeq(threadStacks[t], 1, n - 2), new)],
         program' = program
  PROVE  StacksOK'
<1> DEFINE rest == SubSeq(threadStacks[t], 1, n - 2)
           s == [threadStacks EXCEPT ![t] = rest]
<1>1. threadStacks \in [Thread -> Seq(Frame)] /\ threadStacks[t] \in Seq(Frame)
  BY DEF IInv, TypeOK
<1>2. n - 2 \in Nat /\ \A k \in 1 .. n - 2 : k \in 1 .. n
  OBVIOUS
<1>3. \A k \in 1 .. n - 2 : threadStacks[t][k] \in Frame
  BY <1>1, <1>2, ElementOfSeq
<1>4. /\ rest \in Seq(Frame)
      /\ Len(rest) = n - 2
      /\ \A k \in 1 .. n - 2 : rest[k] = threadStacks[t][k]
  <2>1. ASSUME NEW q \in Seq(Frame), NEW m \in Nat, \A k \in 1 .. m : q[k] \in Frame
        PROVE  /\ SubSeq(q, 1, m) \in Seq(Frame)
               /\ Len(SubSeq(q, 1, m)) = m
               /\ \A k \in 1 .. m : SubSeq(q, 1, m)[k] = q[k]
    BY <2>1
  <2>2. QED
    BY <1>1, <1>2, <1>3, <2>1
<1> HIDE DEF rest
<1>5. s \in [Thread -> Seq(Frame)] /\ s[t] = rest /\ \A u \in Thread \ {t} : threadStacks[u] = s[u]
  BY <1>1, <1>4
<1>6. ASSUME NEW u \in Thread, NEW k \in 1 .. Len(s[u])
      PROVE  s[u][k].pc \in 1 .. Len(Code[program][s[u][k].fn])
  <2>1. CASE u = t
    <3>1. k \in 1 .. n - 2
      BY <1>4, <1>5, <2>1
    <3>2. s[u][k] = threadStacks[t][k] /\ k \in 1 .. Len(threadStacks[t])
      BY <1>2, <1>4, <1>5, <2>1, <3>1
    <3>3. QED
      BY <3>2 DEF IInv, AtInstructions
  <2>2. CASE u # t
    BY <1>5, <2>2 DEF IInv, AtInstructions
  <2>3. QED
    BY <2>1, <2>2
<1>7. threadStacks' = [threadStacks EXCEPT ![t] = Append(s[t], new)]
  BY <1>5 DEF rest
<1>8. \A u \in Thread : \A k \in 1 .. Len(s[u]) :
         s[u][k].pc \in 1 .. Len(Code[program][s[u][k].fn])
  BY <1>6
<1>9. /\ t \in Thread /\ new \in Frame
      /\ new.pc \in 1 .. Len(Code[program][new.fn])
      /\ program' = program
  OBVIOUS
<1> HIDE DEF s
<1>10. QED
  BY ONLY <1>1, <1>5, <1>7, <1>8, <1>9, PushFrame

LEMMA InstructionStep ==
  ASSUME IInv, NEW t \in Thread, Execute(t)
  PROVE  IInv' /\ (QueueOrder => QueueOrder')
<1> DEFINE i == Instr(t)
<1>1. CASE StoreToMemory(t)
  <2>0. /\ t \in Active /\ i \in Instruction /\ i.op = "store" /\ i.addr \in Addr
        /\ i.x \in Val /\ i.y \in Val /\ i.fn \in Fn /\ i.label \in Nat /\ Top(t).acc \in Val
    BY <1>1, Running DEF StoreToMemory
  <2>1. ControlOK' /\ program' = program
    <3>1. Proceed(t, FALSE, ~ OnStack(t, i.addr), FALSE)
      BY <1>1 DEF StoreToMemory
    <3>2. QED
      BY <3>1, ProceedType DEF OnStack
  <2>2. StacksOK'
    BY <1>1, <2>0, <2>1, OnwardType DEF StoreToMemory
  <2>3. MemoryOK'
    BY <1>1, <2>0, Parts DEF StoreToMemory, MemoryOK
  <2>4. BuffersOK' /\ (QueueOrder => QueueOrder') /\ CallsOK' /\ FlagsOK'
    BY <1>1, Kept DEF StoreToMemory, history
  <2>7. TraceOK'
    <3>1. Record(<<RWEvent("WRITE", t, i.addr, i.label)>>) \/ Record(<<>>)
      BY <1>1 DEF StoreToMemory
    <3>2. QED
      BY <2>0, <3>1, OneEvent DEF RWType
  <2>8. QED
    BY <2>1, <2>2, <2>3, <2>4, <2>7, PartsNext
<1>2. CASE StoreToBuffer(t)
  <2>0. /\ t \in Active /\ i \in Instruction /\ i.op = "store" /\ i.addr \in Addr
        /\ i.x \in Val /\ i.y \in Val /\ i.fn \in Fn /\ i.label \in Nat /\ Top(t).acc \in Val
    BY <1>2, Running DEF StoreToBuffer
  <2>1. ControlOK' /\ program' = program
    <3>1. Proceed(t, FALSE, TRUE, FALSE)
      BY <1>2 DEF StoreToBuffer
    <3>2. QED
      BY <3>1, ProceedType
  <2>2. StacksOK'
    BY <1>2, <2>0, <2>1, OnwardType DEF StoreToBuffer
  <2>3. MemoryOK' /\ CallsOK' /\ FlagsOK'
    BY <1>2, Kept DEF StoreToBuffer, history
  <2>4. BuffersOK' /\ (QueueOrder => QueueOrder')
    <3>1. [addr |-> i.addr, val |-> i.x, label |-> i.label] \in Elem
      BY <2>0 DEF Elem
    <3>2. QueueOf(i.addr) \in Queue
      BY <2>0, QueueOfType
    <3>3. QED
      BY <1>2, <3>1, <3>2, IssueType DEF StoreToBuffer, IInv, BuffersOK
  <2>7. TraceOK'
    <3>1. Record(<<RWEvent("WRITE", t, i.addr, i.label)>>)
      BY <1>2 DEF StoreToBuffer
    <3>2. QED
      BY <2>0, <3>1, OneEvent DEF RWType
  <2>8. QED
    BY <2>1, <2>2, <2>3, <2>4, <2>7, PartsNext
<1>3. CASE LoadFromBuffer(t)
  <2>0. /\ t \in Active /\ i \in Instruction /\ i.op = "load" /\ i.addr \in Addr
        /\ i.x \in Val /\ i.y \in Val /\ i.fn \in Fn /\ i.label \in Nat /\ Top(t).acc \in Val
    BY <1>3, Running DEF LoadFromBuffer
  <2>9. Newest(t, i.addr) \in Val
    BY <1>3, <2>0, NewestType DEF LoadFromBuffer, IInv
  <2>1. ControlOK' /\ program' = program
    <3>1. Proceed(t, FALSE, WMM = "PSO" /\ ~ OnStack(t, i.addr), FALSE)
      BY <1>3 DEF LoadFromBuffer
    <3>2. QED
      BY <3>1, ProceedType DEF OnStack
  <2>2. StacksOK'
    BY <1>3, <2>0, <2>1, <2>9, OnwardType DEF LoadFromBuffer
  <2>3. MemoryOK'
    BY <1>3, <2>0, <2>9, Parts DEF LoadFromBuffer, MemoryOK, Seen
  <2>4. BuffersOK' /\ (QueueOrder => QueueOrder') /\ CallsOK' /\ FlagsOK'
    BY <1>3, Kept DEF LoadFromBuffer, history
  <2>7. TraceOK'
    <3>1. Record(<<RWEvent("READ", t, i.addr, i.label)>>) \/ Record(<<>>)
      BY <1>3 DEF LoadFromBuffer
    <3>2. QED
      BY <2>0, <3>1, OneEvent DEF RWType
  <2>8. QED
    BY <2>1, <2>2, <2>3, <2>4, <2>7, PartsNext
<1>4. CASE LoadFromMemory(t)
  <2>0. /\ t \in Active /\ i \in Instruction /\ i.op = "load" /\ i.addr \in Addr
        /\ i.x \in Val /\ i.y \in Val /\ i.fn \in Fn /\ i.label \in Nat /\ Top(t).acc \in Val
    BY <1>4, Running DEF LoadFromMemory
  <2>9. mem[i.addr] \in Val
    BY <2>0 DEF IInv, TypeOK
  <2>1. ControlOK' /\ program' = program
    <3>1. Proceed(t, FALSE, ~ OnStack(t, i.addr), FALSE)
      BY <1>4 DEF LoadFromMemory
    <3>2. QED
      BY <3>1, ProceedType DEF OnStack
  <2>2. StacksOK'
    BY <1>4, <2>0, <2>1, <2>9, OnwardType DEF LoadFromMemory
  <2>3. MemoryOK'
    BY <1>4, <2>0, <2>9, Parts DEF LoadFromMemory, MemoryOK, Seen
  <2>4. BuffersOK' /\ (QueueOrder => QueueOrder') /\ CallsOK' /\ FlagsOK'
    BY <1>4, Kept DEF LoadFromMemory, history
  <2>7. TraceOK'
    <3>1. Record(<<RWEvent("READ", t, i.addr, i.label)>>) \/ Record(<<>>)
      BY <1>4 DEF LoadFromMemory
    <3>2. QED
      BY <2>0, <3>1, OneEvent DEF RWType
  <2>8. QED
    BY <2>1, <2>2, <2>3, <2>4, <2>7, PartsNext
<1>5. CASE LoadFault(t)
  <2>0. /\ t \in Active /\ i \in Instruction /\ i.op = "load" /\ i.addr \in Addr
        /\ i.x \in Val /\ i.y \in Val /\ i.fn \in Fn /\ i.label \in Nat /\ Top(t).acc \in Val
    BY <1>5, Running DEF LoadFault
  <2>1. ControlOK' /\ program' = program
    <3>1. Proceed(t, FALSE, FALSE, TRUE)
      BY <1>5 DEF LoadFault
    <3>2. QED
      BY <3>1, ProceedType
  <2>2. StacksOK'
    BY <1>5, <2>0, <2>1, OnwardType DEF LoadFault
  <2>3. MemoryOK' /\ BuffersOK' /\ (QueueOrder => QueueOrder') /\ CallsOK' /\ FlagsOK' /\ TraceOK'
    BY <1>5, Kept DEF LoadFault, history
  <2>8. QED
    BY <2>1, <2>2, <2>3, PartsNext
<1>6. CASE Membar_ss(t)
  <2>0. /\ t \in Active /\ i \in Instruction /\ i.op = "membar_ss" /\ i.addr \in Addr
        /\ i.x \in Val /\ i.y \in Val /\ i.fn \in Fn /\ i.label \in Nat /\ Top(t).acc \in Val
    BY <1>6, Running DEF Membar_ss
  <2>1. ControlOK' /\ program' = program
    <3>1. FlushFaults(t, SSQueues) \in BOOLEAN
      BY DEF FlushFaults
    <3>2. Proceed(t, FALSE, FALSE, FlushFaults(t, SSQueues))
      BY <1>6 DEF Membar_ss
    <3>3. QED
      BY <3>1, <3>2, ProceedType
  <2>2. StacksOK'
    BY <1>6, <2>0, <2>1, OnwardType DEF Membar_ss
  <2>3. MemoryOK'
    BY <1>6, FlushedType, Parts DEF Membar_ss, MemoryOK, IInv
  <2>4. BuffersOK' /\ (QueueOrder => QueueOrder')
    BY <1>6, EmptyType DEF Membar_ss, IInv, BuffersOK
  <2>5. CallsOK' /\ FlagsOK'
    BY <1>6, Kept DEF Membar_ss, history
  <2>7. TraceOK'
    <3>1. Record(<<RWEvent("FLUSH_FENCE", t, NoLoc, 0)>>)
      BY <1>6 DEF Membar_ss
    <3>2. QED
      BY <3>1, NoLocEvent DEF RWType
  <2>8. QED
    BY <2>1, <2>2, <2>3, <2>4, <2>5, <2>7, PartsNext
<1>7. CASE Membar_sl(t)
  <2>0. /\ t \in Active /\ i \in Instruction /\ i.op = "membar_sl" /\ i.addr \in Addr
        /\ i.x \in Val /\ i.y \in Val /\ i.fn \in Fn /\ i.label \in Nat /\ Top(t).acc \in Val
    BY <1>7, Running DEF Membar_sl
  <2>1. ControlOK' /\ program' = program
    <3>1. FlushFaults(t, SLQueues) \in BOOLEAN
      BY DEF FlushFaults
    <3>2. Proceed(t, FALSE, FALSE, FlushFaults(t, SLQueues))
      BY <1>7 DEF Membar_sl
    <3>3. QED
      BY <3>1, <3>2, ProceedType
  <2>2. StacksOK'
    BY <1>7, <2>0, <2>1, OnwardType DEF Membar_sl
  <2>3. MemoryOK'
    BY <1>7, FlushedType, Parts DEF Membar_sl, MemoryOK, IInv
  <2>4. BuffersOK' /\ (QueueOrder => QueueOrder')
    BY <1>7, EmptyType DEF Membar_sl, IInv, BuffersOK
  <2>5. CallsOK' /\ FlagsOK'
    BY <1>7, Kept DEF Membar_sl, history
  <2>7. TraceOK'
    <3>1. Record(<<RWEvent("FLUSH_FENCE", t, NoLoc, 0)>>)
      BY <1>7 DEF Membar_sl
    <3>2. QED
      BY <3>1, NoLocEvent DEF RWType
  <2>8. QED
    BY <2>1, <2>2, <2>3, <2>4, <2>5, <2>7, PartsNext
<1>8. CASE Cas32(t)
  <2>0. /\ t \in Active /\ i \in Instruction /\ i.op = "cas32" /\ i.addr \in Addr
        /\ i.x \in Val /\ i.y \in Val /\ i.fn \in Fn /\ i.label \in Nat /\ Top(t).acc \in Val
    BY <1>8, Running DEF Cas32
  <2>1. ControlOK' /\ program' = program
    <3>1. FlushFaults(t, CASQueues(i.addr)) \in BOOLEAN
      BY DEF FlushFaults
    <3>2. Proceed(t, FALSE, FALSE, FlushFaults(t, CASQueues(i.addr)))
      BY <1>8 DEF Cas32
    <3>3. QED
      BY <3>1, <3>2, ProceedType
  <2>2. StacksOK'
    <3>1. \E v \in Val : Advance(t, v)
      BY <1>8, ValAssumption DEF Cas32
    <3>2. QED
      BY <2>0, <2>1, <3>1, OnwardType
  <2>3. MemoryOK'
    <3> DEFINE m == Flushed(t, CASQueues(i.addr))
    <3>1. m \in [Addr -> Val]
      BY FlushedType DEF IInv
    <3>2. /\ mem' = m \/ mem' = [m EXCEPT ![i.addr] = i.y]
          /\ observed' = [observed EXCEPT ![t] = Seen(i.addr, m[i.addr])] /\ heap' = heap
      BY <1>8 DEF Cas32
    <3> HIDE DEF m
    <3>3. QED
      BY <2>0, <3>1, <3>2, Parts DEF MemoryOK, Seen
  <2>4. BuffersOK' /\ (QueueOrder => QueueOrder')
    BY <1>8, EmptyType DEF Cas32, IInv, BuffersOK
  <2>5. CallsOK' /\ FlagsOK'
    BY <1>8, Kept DEF Cas32, history
  <2>7. TraceOK'
    <3> DEFINE r == CASRecords(t, i, Flushed(t, CASQueues(i.addr))[i.addr] = i.x)
    <3>1. r \in Seq(RWRecord)
      BY <2>0, CASRecordsType
    <3>2. Record(r)
      BY <1>8 DEF Cas32
    <3>3. QED
      BY <3>1, <3>2, RecordType
  <2>8. QED
    BY <2>1, <2>2, <2>3, <2>4, <2>5, <2>7, PartsNext
<1>9. CASE Cas32Fault(t)
  <2>0. /\ t \in Active /\ i \in Instruction /\ i.op = "cas32" /\ i.addr \in Addr
        /\ i.x \in Val /\ i.y \in Val /\ i.fn \in Fn /\ i.label \in Nat /\ Top(t).acc \in Val
    BY <1>9, Running DEF Cas32Fault
  <2>1. ControlOK' /\ program' = program
    <3>1. Proceed(t, FALSE, FALSE, TRUE)
      BY <1>9 DEF Cas32Fault
    <3>2. QED
      BY <3>1, ProceedType
  <2>2. StacksOK'
    BY <1>9, <2>0, <2>1, OnwardType DEF Cas32Fault
  <2>3. MemoryOK'
    BY <1>9, FlushedType, Parts DEF Cas32Fault, MemoryOK, IInv
  <2>4. BuffersOK' /\ (QueueOrder => QueueOrder')
    BY <1>9, EmptyType DEF Cas32Fault, IInv, BuffersOK
  <2>5. CallsOK' /\ FlagsOK' /\ TraceOK'
    BY <1>9, Kept DEF Cas32Fault, history
  <2>8. QED
    BY <2>1, <2>2, <2>3, <2>4, <2>5, PartsNext
<1>10. CASE CasPO(t)
  <2>0. /\ t \in Active /\ i \in Instruction /\ i.op = "caspo" /\ i.addr \in Addr
        /\ i.x \in Val /\ i.y \in Val /\ i.fn \in Fn /\ i.label \in Nat /\ Top(t).acc \in Val
    BY <1>10, Running DEF CasPO
  <2>9. Flushed(t, SLQueues) \in [Addr -> Val] /\ Flushed(t, SLQueues)[i.addr] \in Val
    BY <2>0, FlushedType DEF IInv
  <2>1. ControlOK' /\ program' = program
    <3>1. FlushFaults(t, SLQueues) \in BOOLEAN
      BY DEF FlushFaults
    <3>2. Proceed(t, FALSE, FALSE, FlushFaults(t, SLQueues))
      BY <1>10 DEF CasPO
    <3>3. QED
      BY <3>1, <3>2, ProceedType
  <2>2. StacksOK'
    BY <1>10, <2>0, <2>1, <2>9, OnwardType DEF CasPO
  <2>3. MemoryOK'
    <3> DEFINE m == Flushed(t, SLQueues)
    <3>1. /\ mem' = m \/ mem' = [m EXCEPT ![i.addr] = i.y]
          /\ observed' = [observed EXCEPT ![t] = Seen(i.addr, m[i.addr])] /\ heap' = heap
      BY <1>10 DEF CasPO
    <3>2. m \in [Addr -> Val]
      BY <2>9
    <3> HIDE DEF m
    <3>3. QED
      BY <2>0, <3>1, <3>2, Parts DEF MemoryOK, Seen
  <2>4. BuffersOK' /\ (QueueOrder => QueueOrder')
    BY <1>10, EmptyType DEF CasPO, IInv, BuffersOK
  <2>5. CallsOK' /\ FlagsOK'
    BY <1>10, Kept DEF CasPO, history
  <2>7. TraceOK'
    <3>1. Record(<<RWEvent("FLUSH_FENCE", t, NoLoc, 0)>>) \/ Record(<<>>)
      BY <1>10 DEF CasPO
    <3>2. QED
      BY <3>1, NoLocEvent DEF RWType
  <2>8. QED
    BY <2>1, <2>2, <2>3, <2>4, <2>5, <2>7, PartsNext
<1>11. CASE FasPO(t)
  <2>0. /\ t \in Active /\ i \in Instruction /\ i.op = "faspo" /\ i.addr \in Addr
        /\ i.x \in Val /\ i.y \in Val /\ i.fn \in Fn /\ i.label \in Nat /\ Top(t).acc \in Val
    BY <1>11, Running DEF FasPO
  <2>9. Flushed(t, FASQueues) \in [Addr -> Val] /\ Flushed(t, FASQueues)[i.addr] \in Val
    BY <2>0, FlushedType DEF IInv
  <2>1. ControlOK' /\ program' = program
    <3>1. Proceed(t, FALSE, FALSE, FALSE)
      BY <1>11 DEF FasPO
    <3>2. QED
      BY <3>1, ProceedType
  <2>2. StacksOK'
    BY <1>11, <2>0, <2>1, <2>9, OnwardType DEF FasPO
  <2>3. MemoryOK'
    <3> DEFINE m == Flushed(t, FASQueues)
    <3>1. /\ mem' = [m EXCEPT ![i.addr] = i.x]
          /\ observed' = [observed EXCEPT ![t] = Seen(i.addr, m[i.addr])] /\ heap' = heap
      BY <1>11 DEF FasPO
    <3>2. m \in [Addr -> Val]
      BY <2>9
    <3> HIDE DEF m
    <3>3. QED
      BY <2>0, <3>1, <3>2, Parts DEF MemoryOK, Seen
  <2>4. BuffersOK' /\ (QueueOrder => QueueOrder')
    BY <1>11, EmptyType DEF FasPO, IInv, BuffersOK
  <2>5. CallsOK' /\ FlagsOK'
    BY <1>11, Kept DEF FasPO, history
  <2>7. TraceOK'
    <3>1. Record(<<RWEvent("FLUSH_FENCE", t, NoLoc, 0)>>) \/ Record(<<>>)
      BY <1>11 DEF FasPO
    <3>2. QED
      BY <3>1, NoLocEvent DEF RWType
  <2>8. QED
    BY <2>1, <2>2, <2>3, <2>4, <2>5, <2>7, PartsNext
<1>12. CASE Alloca(t)
  <2>0. /\ t \in Active /\ i \in Instruction /\ i.op = "alloca" /\ i.addr \in Addr
        /\ i.x \in Val /\ i.y \in Val /\ i.fn \in Fn /\ i.label \in Nat /\ Top(t).acc \in Val
    BY <1>12, Running DEF Alloca
  <2>1. ControlOK' /\ program' = program
    <3>1. Proceed(t, FALSE, FALSE, FALSE)
      BY <1>12 DEF Alloca
    <3>2. QED
      BY <3>1, ProceedType
  <2>2. StacksOK'
    <3> DEFINE fr == [fn |-> Top(t).fn, pc |-> Top(t).pc + 1, acc |-> Top(t).acc,
                      allocas |-> Top(t).allocas \cup {i.addr}]
    <3>1. fr \in Frame /\ fr.pc \in 1 .. Len(Code[program][fr.fn])
      BY <2>0, TopType DEF Frame
    <3>2. threadStacks' = WithTop(t, fr)
      BY <1>12 DEF Alloca
    <3>3. QED
      BY <2>0, <2>1, <3>1, <3>2, ReplaceTop DEF StacksOK, AtInstructions, Code
  <2>3. MemoryOK'
    BY <1>12, <2>0, Parts DEF Alloca, MemoryOK
  <2>4. BuffersOK' /\ (QueueOrder => QueueOrder') /\ CallsOK' /\ FlagsOK' /\ TraceOK'
    BY <1>12, Kept DEF Alloca, history
  <2>8. QED
    BY <2>1, <2>2, <2>3, <2>4, PartsNext
<1>13. CASE Malloc(t)
  <2>0. /\ t \in Active /\ i \in Instruction /\ i.op = "malloc" /\ i.addr \in Addr
        /\ i.x \in Val /\ i.y \in Val /\ i.fn \in Fn /\ i.label \in Nat /\ Top(t).acc \in Val
    BY <1>13, Running DEF Malloc
  <2>1. ControlOK' /\ program' = program
    <3>1. Proceed(t, FALSE, FALSE, FALSE)
      BY <1>13 DEF Malloc
    <3>2. QED
      BY <3>1, ProceedType
  <2>2. StacksOK'
    BY <1>13, <2>0, <2>1, OnwardType DEF Malloc
  <2>3. MemoryOK'
    BY <1>13, <2>0, Parts DEF Malloc, MemoryOK
  <2>4. BuffersOK' /\ (QueueOrder => QueueOrder') /\ CallsOK' /\ FlagsOK' /\ TraceOK'
    BY <1>13, Kept DEF Malloc, history
  <2>8. QED
    BY <2>1, <2>2, <2>3, <2>4, PartsNext
<1>14. CASE Free(t)
  <2>0. /\ t \in Active /\ i \in Instruction /\ i.op = "free" /\ i.addr \in Addr
        /\ i.x \in Val /\ i.y \in Val /\ i.fn \in Fn /\ i.label \in Nat /\ Top(t).acc \in Val
    BY <1>14, Running DEF Free
  <2>1. ControlOK' /\ program' = program
    <3>1. Proceed(t, FALSE, FALSE, FALSE)
      BY <1>14 DEF Free
    <3>2. QED
      BY <3>1, ProceedType
  <2>2. StacksOK'
    BY <1>14, <2>0, <2>1, OnwardType DEF Free
  <2>3. MemoryOK'
    BY <1>14, <2>0, Parts DEF Free, MemoryOK
  <2>4. BuffersOK' /\ (QueueOrder => QueueOrder') /\ CallsOK' /\ FlagsOK' /\ TraceOK'
    BY <1>14, Kept DEF Free, history
  <2>8. QED
    BY <2>1, <2>2, <2>3, <2>4, PartsNext
<1>15. CASE FreeFault(t)
  <2>0. /\ t \in Active /\ i \in Instruction /\ i.op = "free" /\ i.addr \in Addr
        /\ i.x \in Val /\ i.y \in Val /\ i.fn \in Fn /\ i.label \in Nat /\ Top(t).acc \in Val
    BY <1>15, Running DEF FreeFault
  <2>1. ControlOK' /\ program' = program
    BY <1>15, Parts DEF FreeFault, ControlOK
  <2>2. StacksOK' /\ MemoryOK' /\ BuffersOK' /\ (QueueOrder => QueueOrder') /\ CallsOK' /\ FlagsOK' /\ TraceOK'
    BY <1>15, Kept DEF FreeFault, history
  <2>8. QED
    BY <2>1, <2>2, PartsNext
<1>16. CASE SetValue(t)
  <2>0. /\ t \in Active /\ i \in Instruction /\ i.op = "set" /\ i.addr \in Addr
        /\ i.x \in Val /\ i.y \in Val /\ i.fn \in Fn /\ i.label \in Nat /\ Top(t).acc \in Val
    BY <1>16, Running DEF SetValue
  <2>1. ControlOK' /\ program' = program
    <3>1. Proceed(t, FALSE, FALSE, FALSE)
      BY <1>16 DEF SetValue
    <3>2. QED
      BY <3>1, ProceedType
  <2>2. StacksOK'
    BY <1>16, <2>0, <2>1, OnwardType DEF SetValue
  <2>3. MemoryOK' /\ BuffersOK' /\ (QueueOrder => QueueOrder') /\ CallsOK' /\ FlagsOK' /\ TraceOK'
    BY <1>16, Kept DEF SetValue, history
  <2>8. QED
    BY <2>1, <2>2, <2>3, PartsNext
<1>17. CASE Branch(t)
  <2>0. /\ t \in Active /\ i \in Instruction /\ i.op = "br" /\ i.addr \in Addr
        /\ i.x \in Val /\ i.y \in Val /\ i.fn \in Fn /\ i.label \in Nat /\ Top(t).acc \in Val
    BY <1>17, Running DEF Branch
  <2>1. ControlOK' /\ program' = program
    <3>1. Proceed(t, FALSE, FALSE, FALSE)
      BY <1>17 DEF Branch
    <3>2. QED
      BY <3>1, ProceedType
  <2>2. StacksOK'
    <3> DEFINE pc == IF Top(t).acc = i.x THEN i.to ELSE Top(t).pc + 1
               fr == Moved(Top(t), pc, Top(t).acc)
    <3>1. fr \in Frame /\ fr.pc \in 1 .. Len(Code[program][fr.fn])
      BY <2>0, TopType DEF Frame, Moved, Instruction
    <3>2. threadStacks' = WithTop(t, fr)
      BY <1>17 DEF Branch
    <3> HIDE DEF fr
    <3>3. QED
      BY <2>0, <2>1, <3>1, <3>2, ReplaceTop DEF StacksOK, AtInstructions, Code
  <2>3. MemoryOK' /\ BuffersOK' /\ (QueueOrder => QueueOrder') /\ CallsOK' /\ FlagsOK' /\ TraceOK'
    BY <1>17, Kept DEF Branch, history
  <2>8. QED
    BY <2>1, <2>2, <2>3, PartsNext
<1>18. CASE Call(t)
  <2>0. /\ t \in Active /\ i \in Instruction /\ i.op = "call" /\ i.addr \in Addr
        /\ i.x \in Val /\ i.y \in Val /\ i.fn \in Fn /\ i.label \in Nat /\ Top(t).acc \in Val
    BY <1>18, Running DEF Call
  <2>1. ControlOK' /\ program' = program
    <3>1. Proceed(t, FALSE, FALSE, FALSE)
      BY <1>18 DEF Call
    <3>2. QED
      BY <3>1, ProceedType
  <2>2. StacksOK'
    <3> DEFINE fr == Moved(Top(t), Top(t).pc + 1, Top(t).acc)
               s == WithTop(t, fr)
               new == NewFrame(i.fn, i.x)
    <3>1. fr \in Frame /\ fr.pc \in 1 .. Len(Code[program][fr.fn])
      BY <2>0, TopType DEF Frame, Moved
    <3>2. /\ s \in [Thread -> Seq(Frame)]
          /\ \A u \in Thread : \A k \in 1 .. Len(s[u]) :
                s[u][k].pc \in 1 .. Len(Code[program][s[u][k].fn])
      BY <2>0, <3>1, ReplaceTop
    <3>3. new \in Frame /\ new.pc \in 1 .. Len(Code[program][new.fn])
      BY <2>0, CodeType DEF NewFrame, Frame, IInv, TypeOK
    <3>4. threadStacks' = [threadStacks EXCEPT ![t] = Append(s[t], new)]
      BY <1>18 DEF Call
    <3>5. \A u \in Thread \ {t} : threadStacks[u] = s[u]
      BY DEF WithTop, IInv, TypeOK
    <3> HIDE DEF fr, s, new
    <3>6. QED
      BY <2>1, <3>2, <3>3, <3>4, <3>5, PushFrame DEF IInv, TypeOK
  <2>3. MemoryOK' /\ BuffersOK' /\ (QueueOrder => QueueOrder') /\ FlagsOK' /\ TraceOK'
    BY <1>18, Kept DEF Call
  <2>5. CallsOK'
    BY <1>18, <2>0, InvokeType DEF Call
  <2>8. QED
    BY <2>1, <2>2, <2>3, <2>5, PartsNext
<1>19. CASE Return(t)
  <2>0. /\ t \in Active /\ i \in Instruction /\ i.op = "ret" /\ i.addr \in Addr
        /\ i.x \in Val /\ i.y \in Val /\ i.fn \in Fn /\ i.label \in Nat /\ Top(t).acc \in Val
    BY <1>19, Running DEF Return
  <2>9. Top(t).fn \in Fn
    BY <2>0, TopType DEF Frame
  <2>1. ControlOK' /\ program' = program
    <3>1. Proceed(t, FALSE, FALSE, FALSE)
      BY <1>19 DEF Return
    <3>2. QED
      BY <3>1, ProceedType
  <2>2. StacksOK'
    <3> DEFINE n == Len(threadStacks[t])
               caller == threadStacks[t][n - 1]
               new == Moved(caller, caller.pc, Top(t).acc)
    <3>1. t \in Thread /\ n \in Nat \ {0} /\ threadStacks[t] \in Seq(Frame)
      BY <2>0, TopType DEF IInv, TypeOK
    <3>2. CASE n = 1
      <4>1. threadStacks' = [threadStacks EXCEPT ![t] = <<>>]
        BY <1>19, <3>2 DEF Return
      <4>2. QED
        BY <2>1, <4>1, EndStack
    <3>3. CASE n # 1
      <4>1. n - 1 \in 1 .. n /\ n > 1
        <5> HIDE DEF n
        <5>1. QED
          BY <3>1, <3>3
      <4>2. caller \in Frame /\ caller.pc \in 1 .. Len(Code[program][caller.fn])
        BY <3>1, <4>1, ElementOfSeq DEF IInv, AtInstructions
      <4>3. new \in Frame /\ new.pc \in 1 .. Len(Code[program][new.fn])
        BY <2>0, <4>2 DEF Moved, Frame
      <4>4. threadStacks' = [threadStacks EXCEPT ![t] =
                               Append(SubSeq(threadStacks[t], 1, n - 2), new)]
        BY <1>19, <3>3 DEF Return
      <4> HIDE DEF new
      <4>5. QED
        BY <2>1, <3>1, <4>1, <4>3, <4>4, PopFrame
    <3>4. QED
      BY <3>2, <3>3
  <2>3. MemoryOK' /\ BuffersOK' /\ (QueueOrder => QueueOrder') /\ FlagsOK' /\ TraceOK'
    BY <1>19, Kept DEF Return
  <2>5. CallsOK'
    BY <1>19, <2>0, <2>9, ReturnType DEF Return
  <2>8. QED
    BY <2>1, <2>2, <2>3, <2>5, PartsNext
<1>20. CASE Spawn(t)
  <2>0. /\ t \in Active /\ i \in Instruction /\ i.op = "spawn" /\ i.addr \in Addr
        /\ i.x \in Val /\ i.y \in Val /\ i.fn \in Fn /\ i.label \in Nat /\ Top(t).acc \in Val
    BY <1>20, Running DEF Spawn
  <2>1. ControlOK' /\ program' = program
    <3>1. Proceed(t, FALSE, FALSE, FALSE)
      BY <1>20 DEF Spawn
    <3>2. QED
      BY <3>1, ProceedType
  <2>2. StacksOK'
    <3> DEFINE fr == Moved(Top(t), Top(t).pc + 1, Top(t).acc)
               s == WithTop(t, fr)
               new == NewFrame(i.fn, 0)
    <3>1. fr \in Frame /\ fr.pc \in 1 .. Len(Code[program][fr.fn])
      BY <2>0, TopType DEF Frame, Moved
    <3>2. /\ s \in [Thread -> Seq(Frame)]
          /\ \A u \in Thread : \A k \in 1 .. Len(s[u]) :
                s[u][k].pc \in 1 .. Len(Code[program][s[u][k].fn])
      BY <2>0, <3>1, ReplaceTop
    <3>3. new \in Frame /\ new.pc \in 1 .. Len(Code[program][new.fn])
      BY <2>0, CodeType, ValAssumption DEF NewFrame, Frame, IInv, TypeOK
    <3>4. threadStacks' = [s EXCEPT ![nextThreadNum] = <<new>>] /\ nextThreadNum \in Thread
      BY <1>20 DEF Spawn
    <3> HIDE DEF fr, s, new
    <3>5. QED
      BY <2>1, <3>2, <3>3, <3>4, StartStack
  <2>3. MemoryOK' /\ BuffersOK' /\ (QueueOrder => QueueOrder')
    BY <1>20, Kept DEF Spawn
  <2>5. CallsOK'
    <3>1. trace_rec' = trace_rec /\ recur_calls' = Append(recur_calls, 0)
      BY <1>20 DEF Spawn
    <3>2. QED
      BY <3>1, Parts, AppendProperties DEF CallsOK
  <2>6. FlagsOK'
    BY <1>20, Parts DEF Spawn, FlagsOK
  <2>7. TraceOK'
    <3>1. Record(<<RWEvent("SPAWN", t, NoLoc, 0)>>)
      BY <1>20 DEF Spawn
    <3>2. QED
      BY <3>1, NoLocEvent DEF RWType
  <2>8. QED
    BY <2>1, <2>2, <2>3, <2>5, <2>6, <2>7, PartsNext
<1>21. CASE JoinBlocked(t)
  <2>0. /\ t \in Active /\ i \in Instruction /\ i.op = "join" /\ i.addr \in Addr
        /\ i.x \in Val /\ i.y \in Val /\ i.fn \in Fn /\ i.label \in Nat /\ Top(t).acc \in Val
    BY <1>21, Running DEF JoinBlocked
  <2>1. ControlOK' /\ program' = program
    <3>1. Proceed(t, TRUE, FALSE, FALSE)
      BY <1>21 DEF JoinBlocked
    <3>2. QED
      BY <3>1, ProceedType
  <2>2. StacksOK'
    BY <1>21, <2>1, Kept DEF JoinBlocked
  <2>3. MemoryOK' /\ BuffersOK' /\ (QueueOrder => QueueOrder') /\ CallsOK' /\ FlagsOK'
    BY <1>21, Kept DEF JoinBlocked, history
  <2>7. TraceOK'
    <3>1. Record(<<RWEvent("JOIN", t, NoLoc, 0)>>)
      BY <1>21 DEF JoinBlocked
    <3>2. QED
      BY <3>1, NoLocEvent DEF RWType
  <2>8. QED
    BY <2>1, <2>2, <2>3, <2>7, PartsNext
<1>22. CASE Join(t)
  <2>0. /\ t \in Active /\ i \in Instruction /\ i.op = "join" /\ i.addr \in Addr
        /\ i.x \in Val /\ i.y \in Val /\ i.fn \in Fn /\ i.label \in Nat /\ Top(t).acc \in Val
    BY <1>22, Running DEF Join
  <2>1. ControlOK' /\ program' = program
    <3>1. Proceed(t, FALSE, FALSE, FALSE)
      BY <1>22 DEF Join
    <3>2. QED
      BY <3>1, ProceedType
  <2>2. StacksOK'
    BY <1>22, <2>0, <2>1, OnwardType DEF Join
  <2>3. MemoryOK' /\ BuffersOK' /\ (QueueOrder => QueueOrder') /\ CallsOK' /\ FlagsOK'
    BY <1>22, Kept DEF Join, history
  <2>7. TraceOK'
    <3>1. Record(<<RWEvent("JOIN", t, NoLoc, 0)>>)
      BY <1>22 DEF Join
    <3>2. QED
      BY <3>1, NoLocEvent DEF RWType
  <2>8. QED
    BY <2>1, <2>2, <2>3, <2>7, PartsNext
<1>23. CASE AssertExist(t)
  <2>0. /\ t \in Active /\ i \in Instruction /\ i.op = "assert_exist" /\ i.addr \in Addr
        /\ i.x \in Val /\ i.y \in Val /\ i.fn \in Fn /\ i.label \in Nat /\ Top(t).acc \in Val
    BY <1>23, Running DEF AssertExist
  <2>1. ControlOK' /\ program' = program
    <3>1. Proceed(t, FALSE, FALSE, mem[i.addr] # i.x)
      BY <1>23 DEF AssertExist
    <3>2. QED
      BY <3>1, ProceedType
  <2>2. StacksOK'
    BY <1>23, <2>0, <2>1, OnwardType DEF AssertExist
  <2>3. MemoryOK' /\ BuffersOK' /\ (QueueOrder => QueueOrder') /\ CallsOK' /\ TraceOK'
    BY <1>23, Kept DEF AssertExist, history
  <2>6. FlagsOK'
    BY <1>23, Parts DEF AssertExist, FlagsOK
  <2>8. QED
    BY <2>1, <2>2, <2>3, <2>6, PartsNext
<1>24. QED
  BY <1>1, <1>2, <1>3, <1>4, <1>5, <1>6, <1>7, <1>8, <1>9, <1>10, <1>11, <1>12, <1>13, <1>14, <1>15, <1>16, <1>17, <1>18, <1>19, <1>20, <1>21, <1>22, <1>23 DEF Execute

-----------------------------------------------------------------------------
(* Flushes, the end of a run, and the theorems.                            *)

LEMMA FlushStep ==
  ASSUME IInv, NEW t \in Thread, RandomFlush(t)
  PROVE  IInv' /\ (QueueOrder => QueueOrder')
<1>1. CASE RandomFlushTSO(t)
  <2>1. Fifo \in Queue
    BY <1>1 DEF RandomFlushTSO, Queue
  <2>2. CASE thread_buffer[t][Fifo] = <<>>
    <3>1. UNCHANGED <<thread_buffer, retired, mem, segmentFaultFlag>>
      BY <1>1, <2>2 DEF RandomFlushTSO
    <3>2. ControlOK'
      BY <1>1, <3>1, Parts DEF RandomFlushTSO, ControlOK, Code
    <3>3. StacksOK' /\ MemoryOK' /\ BuffersOK' /\ (QueueOrder => QueueOrder') /\ CallsOK' /\ FlagsOK'
      BY <1>1, <3>1, Kept DEF RandomFlushTSO, buffers, history
    <3>4. TraceOK'
      BY <1>1, RandomEvent DEF RandomFlushTSO
    <3>5. QED
      BY <3>2, <3>3, <3>4, PartsNext
  <2>3. CASE thread_buffer[t][Fifo] # <<>>
    <3>1. FlushOne(t, Fifo) /\ issued' = issued
      BY <1>1, <2>3 DEF RandomFlushTSO
    <3>2. /\ BuffersOK' /\ (QueueOrder => QueueOrder')
          /\ mem' \in [Addr -> Val] /\ segmentFaultFlag' \in BOOLEAN
      BY <2>1, <2>3, <3>1, FlushOneType DEF IInv, BuffersOK
    <3>3. ControlOK' /\ MemoryOK'
      BY <1>1, <3>2, Parts DEF RandomFlushTSO, ControlOK, MemoryOK, Code
    <3>4. StacksOK' /\ CallsOK' /\ FlagsOK'
      BY <1>1, Kept DEF RandomFlushTSO, history
    <3>5. TraceOK'
      BY <1>1, RandomEvent DEF RandomFlushTSO
    <3>6. QED
      BY <3>2, <3>3, <3>4, <3>5, PartsNext
  <2>4. QED
    BY <2>2, <2>3
<1>2. ASSUME NEW q \in Queue, RandomFlushPSO(t, q)
      PROVE  IInv' /\ (QueueOrder => QueueOrder')
  <2>1. thread_buffer[t][q] # <<>> /\ FlushOne(t, q) /\ issued' = issued
    BY <1>2 DEF RandomFlushPSO
  <2>2. /\ BuffersOK' /\ (QueueOrder => QueueOrder')
        /\ mem' \in [Addr -> Val] /\ segmentFaultFlag' \in BOOLEAN
    BY <2>1, FlushOneType DEF IInv, BuffersOK
  <2>3. ControlOK' /\ MemoryOK'
    BY <1>2, <2>2, Parts DEF RandomFlushPSO, ControlOK, MemoryOK, Code
  <2>4. StacksOK' /\ CallsOK' /\ FlagsOK'
    BY <1>2, Kept DEF RandomFlushPSO, history
  <2>5. TraceOK'
    BY <1>2, RandomEvent DEF RandomFlushPSO, Queue
  <2>6. QED
    BY <2>2, <2>3, <2>4, <2>5, PartsNext
<1>3. QED
  BY <1>1, <1>2 DEF RandomFlush

LEMMA FinishStep ==
  ASSUME IInv, Finish \/ UNCHANGED vars
  PROVE  IInv' /\ (QueueOrder => QueueOrder')
<1>1. ControlOK'
  BY Parts DEF ControlOK, Finish, vars, Code
<1>2. StacksOK' /\ MemoryOK' /\ CallsOK' /\ FlagsOK' /\ TraceOK'
  BY Kept DEF Finish, vars, history
<1>3. BuffersOK' /\ (QueueOrder => QueueOrder')
  BY Kept DEF Finish, vars, buffers
<1>4. QED
  BY <1>1, <1>2, <1>3, PartsNext

LEMMA NextStep ==
  ASSUME IInv, [Next]_vars
  PROVE  IInv' /\ (QueueOrder => QueueOrder')
<1>1. ASSUME NEW t \in Thread, Execute(t) \/ RandomFlush(t)
      PROVE  IInv' /\ (QueueOrder => QueueOrder')
  BY <1>1, InstructionStep, FlushStep
<1>2. ASSUME Finish \/ UNCHANGED vars
      PROVE  IInv' /\ (QueueOrder => QueueOrder')
  BY <1>2, FinishStep
<1>3. QED
  BY <1>1, <1>2 DEF Next

(* Whoever starts the interpreter sets allonAssertExist, or does not.      *)
LEMMA StartedType ==
  ASSUME Started, allonAssertExist \in BOOLEAN
  PROVE  IInv /\ QueueOrder
<1> DEFINE first == NewFrame(Main, 0)
<1>1. program \in DOMAIN Code /\ 1 \in Thread
  BY ThreadAssumption DEF Started
<1>2. first \in Frame /\ first.pc \in 1 .. Len(Code[program][first.fn])
  BY <1>1, CodeType, FnAssumption, ValAssumption DEF NewFrame, Frame
<1> HIDE DEF first
<1>3. /\ <<first>> \in Seq(Frame) /\ Len(<<first>>) = 1 /\ <<first>>[1] = first
      /\ <<>> \in Seq(Frame) /\ Len(<<>>) = 0
  BY <1>2
<1>4. threadStacks = [t \in Thread |-> IF t = 1 THEN <<first>> ELSE <<>>]
  BY DEF Started, first
<1>5. StacksOK
  <2>1. threadStacks \in [Thread -> Seq(Frame)]
    BY <1>3, <1>4
  <2>2. ASSUME NEW t \in Thread, NEW k \in 1 .. Len(threadStacks[t])
        PROVE  threadStacks[t][k].pc \in 1 .. Len(Code[program][threadStacks[t][k].fn])
    <3>1. CASE t = 1
      <4>1. threadStacks[t] = <<first>> /\ k = 1
        BY <1>3, <1>4, <3>1
      <4>2. QED
        BY <1>2, <1>3, <4>1
    <3>2. CASE t # 1
      <4>1. k \in 1 .. 0
        BY <1>3, <1>4, <3>2
      <4>2. QED
        BY <4>1
    <3>3. QED
      BY <3>1, <3>2
  <2>3. QED
    BY <2>1, <2>2 DEF StacksOK, AtInstructions
<1>6. ControlOK
  BY <1>1 DEF Started, ControlOK
<1>7. MemoryOK
  BY ValAssumption, AddrAssumption DEF Started, MemoryOK, Seen
<1>8. BuffersOK
  <2>1. <<>> \in Seq(Elem)
    BY EmptySeq
  <2>2. QED
    BY <2>1 DEF Started, BuffersOK
<1>9. CallsOK /\ FlagsOK /\ TraceOK
  <2>1. /\ <<>> \in Seq(CallRecord)
        /\ <<>> \in Seq(RWRecord)
        /\ <<0>> \in Seq(Int)
    BY EmptySeq
  <2>2. CallsOK /\ TraceOK
    BY <2>1 DEF Started, CallsOK, TraceOK
  <2>3. FlagsOK
    BY DEF Started, FlagsOK
  <2>4. QED
    BY <2>2, <2>3
<1>10. QueueOrder
  <2>1. <<>> \o <<>> = <<>>
    OBVIOUS
  <2>2. QED
    BY <2>1 DEF Started, QueueOrder
<1>11. QED
  BY <1>5, <1>6, <1>7, <1>8, <1>9, <1>10, Parts

LEMMA InitType ==
  ASSUME Init
  PROVE  IInv /\ QueueOrder
BY StartedType DEF Init

(***************************************************************************)
(* Whatever the program, the memory model and the schedule, a step of      *)
(* run() leaves every variable with a value of its type: no thread runs    *)
(* off its code, and no load, return or flush reads what is not there.     *)
(***************************************************************************)
THEOREM TypeCorrect == Spec => []TypeOK
<1>1. Init => IInv
  BY InitType
<1>2. IInv /\ [Next]_vars => IInv'
  BY NextStep
<1>3. IInv => TypeOK
  BY DEF IInv
<1>4. QED
  BY <1>1, <1>2, <1>3, PTL DEF Spec

(***************************************************************************)
(* No store is lost, duplicated or overtaken in its queue, by any mix of   *)
(* stores, random flushes, fences and atomic instructions.                 *)
(***************************************************************************)
THEOREM QueuesInOrder == Spec => []QueueOrder
<1>1. Init => IInv /\ QueueOrder
  BY InitType
<1>2. IInv /\ QueueOrder /\ [Next]_vars => IInv' /\ QueueOrder'
  BY NextStep
<1>3. QED
  BY <1>1, <1>2, PTL DEF Spec

-----------------------------------------------------------------------------
(* Where the frames on the stacks come from.                               *)

Untouched(u, k, g) ==
  /\ k \in 1 .. Len(threadStacks[u])
  /\ LET f == threadStacks[u][k] IN g.fn = f.fn /\ g.pc = f.pc /\ g.allocas = f.allocas
Moves(t, g) ==
  /\ g.fn = Top(t).fn
  /\ Instr(t).op # "alloca" => g.allocas = Top(t).allocas
  /\ g.pc = Top(t).pc + 1 \/ (Instr(t).op = "br" /\ g.pc = Instr(t).to)
Entered(t, g) ==
  /\ Instr(t).op \in {"call", "spawn"}
  /\ g.fn = Instr(t).fn /\ g.pc = 1 /\ g.allocas = {}
FrameFrom(t, u, k, g) ==
  \/ Untouched(u, k, g)
  \/ u = t /\ k = Len(threadStacks[t]) /\ Moves(t, g)
  \/ Entered(t, g)
FramesFrom(t, stacks) ==
  \A u \in Thread : \A k \in 1 .. Len(stacks[u]) : FrameFrom(t, u, k, stacks[u][k])

LEMMA ExecutesActive ==
  ASSUME NEW t, Execute(t)
  PROVE  t \in Active
BY DEF Execute, StoreToMemory, StoreToBuffer, LoadFromBuffer, LoadFromMemory, LoadFault,
   Membar_ss, Membar_sl, Cas32, Cas32Fault, CasPO, FasPO, Alloca, Malloc, Free, FreeFault,
   SetValue, Branch, Call, Return, Spawn, JoinBlocked, Join, AssertExist, At

LEMMA FramesSame ==
  ASSUME NEW t
  PROVE  FramesFrom(t, threadStacks)
BY DEF FramesFrom, FrameFrom, Untouched

LEMMA FramesMoved ==
  ASSUME IInv, NEW t \in Active, NEW frame \in Frame, Moves(t, frame)
  PROVE  FramesFrom(t, WithTop(t, frame)) /\ WithTop(t, frame) \in [Thread -> Seq(Frame)]
<1> DEFINE n == Len(threadStacks[t])
<1>1. t \in Thread /\ n \in Nat \ {0} /\ threadStacks \in [Thread -> Seq(Frame)]
  BY TopType DEF IInv, TypeOK
<1>2. PICK s : s = WithTop(t, frame)
  OBVIOUS
<1>3. s[t] = [threadStacks[t] EXCEPT ![n] = frame] /\ \A u \in Thread \ {t} : s[u] = threadStacks[u]
  BY <1>1, <1>2 DEF WithTop
<1>4. /\ s[t] \in Seq(Frame) /\ Len(s[t]) = n
      /\ \A k \in 1 .. n : s[t][k] = IF k = n THEN frame ELSE threadStacks[t][k]
  BY <1>1, <1>3, ExceptSeq
<1>5. s \in [Thread -> Seq(Frame)]
  BY <1>1, <1>2, <1>3, <1>4 DEF WithTop
<1>6. ASSUME NEW u \in Thread, NEW k \in 1 .. Len(s[u]) PROVE FrameFrom(t, u, k, s[u][k])
  <2>1. CASE u = t /\ k = n
    BY <1>1, <1>4, <2>1 DEF FrameFrom
  <2>2. CASE u # t \/ k # n
    <3>1. k \in 1 .. Len(threadStacks[u]) /\ s[u][k] = threadStacks[u][k]
      BY <1>1, <1>3, <1>4, <2>2
    <3>2. QED
      BY <3>1 DEF FrameFrom, Untouched
  <2>3. QED
    BY <2>1, <2>2
<1>7. QED
  BY <1>2, <1>5, <1>6 DEF FramesFrom

(* A frame more, on the stack of u.                                        *)
LEMMA FramesPushed ==
  ASSUME NEW t, NEW s \in [Thread -> Seq(Frame)], FramesFrom(t, s), NEW u \in Thread,
         NEW rest \in Seq(Frame), NEW frame \in Frame, FrameFrom(t, u, Len(rest) + 1, frame),
         \A k \in 1 .. Len(rest) : FrameFrom(t, u, k, rest[k])
  PROVE  FramesFrom(t, [s EXCEPT ![u] = Append(rest, frame)])
<1>1. PICK s2 : s2 = [s EXCEPT ![u] = Append(rest, frame)]
  OBVIOUS
<1>2. s2[u] = Append(rest, frame) /\ \A v \in Thread \ {u} : s2[v] = s[v]
  BY <1>1
<1>3. /\ Len(s2[u]) = Len(rest) + 1 /\ Len(rest) \in Nat
      /\ \A k \in 1 .. Len(rest) : s2[u][k] = rest[k]
      /\ s2[u][Len(rest) + 1] = frame
  BY <1>2, AppendProperties, LenProperties
<1>4. ASSUME NEW v \in Thread, NEW k \in 1 .. Len(s2[v]) PROVE FrameFrom(t, v, k, s2[v][k])
  <2>1. CASE v # u
    BY <1>2, <2>1 DEF FramesFrom
  <2>2. CASE v = u
    <3>1. k \in 1 .. Len(rest) \/ k = Len(rest) + 1
      BY <1>3, <2>2
    <3>2. QED
      BY <1>3, <2>2, <3>1
  <2>3. QED
    BY <2>1, <2>2
<1>5. QED
  BY <1>1, <1>4 DEF FramesFrom

LEMMA MovedFrame ==
  ASSUME IInv, NEW t \in Active, NEW v \in Val
  PROVE  LET frame == Moved(Top(t), Top(t).pc + 1, v)
         IN  frame \in Frame /\ Moves(t, frame)
BY TopType DEF Moved, Frame, Moves

LEMMA NewFrameType ==
  ASSUME NEW f \in Fn, NEW v \in Val
  PROVE  NewFrame(f, v) \in Frame
BY DEF NewFrame, Frame

LEMMA ReturnedFrames ==
  ASSUME IInv, NEW t \in Active, Return(t)
  PROVE  FramesFrom(t, threadStacks')
<1> DEFINE n == Len(threadStacks[t])
           caller == threadStacks[t][n - 1]
           rest == SubSeq(threadStacks[t], 1, n - 2)
           frame == Moved(caller, caller.pc, Top(t).acc)
<1>1. /\ t \in Thread /\ n \in Nat \ {0} /\ threadStacks \in [Thread -> Seq(Frame)]
      /\ threadStacks[t] \in Seq(Frame) /\ Top(t) \in Frame
  BY TopType DEF IInv, TypeOK
<1>5. threadStacks' = [threadStacks EXCEPT ![t] = IF n = 1 THEN <<>> ELSE Append(rest, frame)]
  BY DEF Return
<1>2. CASE n = 1
  <2>1. threadStacks' = [threadStacks EXCEPT ![t] = <<>>]
    BY <1>2, <1>5
  <2>2. \A u \in Thread \ {t} : threadStacks'[u] = threadStacks[u]
    BY <1>1, <2>1
  <2>3. threadStacks'[t] = <<>> /\ Len(<<>>) = 0
    BY <1>1, <2>1, EmptySeq
  <2>4. \A k : ~ (k \in 1 .. Len(threadStacks'[t]))
    BY <2>3
  <2>5. QED
    BY <2>2, <2>4, FramesSame DEF FramesFrom
<1>3. CASE n > 1
  <2>1. threadStacks' = [threadStacks EXCEPT ![t] = Append(rest, frame)]
    <3>1. \A m \in Nat \ {0} : m > 1 => m # 1
      OBVIOUS
    <3>2. n # 1
      BY <1>1, <1>3, <3>1, Zenon
    <3> HIDE DEF rest, frame, n
    <3>3. QED
      BY <1>5, <3>2
  <2>2. n - 1 \in 1 .. n /\ n - 2 \in Nat /\ \A k \in 1 .. n - 2 : k \in 1 .. n
    BY <1>1, <1>3
  <2>3. caller \in Frame /\ \A k \in 1 .. n - 2 : threadStacks[t][k] \in Frame
    BY <1>1, <2>2, ElementOfSeq
  <2>4. rest \in Seq(Frame) /\ Len(rest) = n - 2 /\ \A k \in 1 .. n - 2 : rest[k] = threadStacks[t][k]
    <3>1. ASSUME NEW q \in Seq(Frame), NEW m \in Nat, \A k \in 1 .. m : q[k] \in Frame
          PROVE  /\ SubSeq(q, 1, m) \in Seq(Frame)
                 /\ Len(SubSeq(q, 1, m)) = m
                 /\ \A k \in 1 .. m : SubSeq(q, 1, m)[k] = q[k]
      BY <3>1
    <3>2. QED
      BY <1>1, <2>2, <2>3, <3>1
  <2>5. frame \in Frame /\ frame.fn = caller.fn /\ frame.pc = caller.pc /\ frame.allocas = caller.allocas
    BY <1>1, <2>3 DEF Moved, Frame
  <2>6. FrameFrom(t, t, Len(rest) + 1, frame)
    <3>1. Len(rest) + 1 = n - 1
      BY <1>1, <2>4
    <3> HIDE DEF rest, frame, n
    <3>2. FrameFrom(t, t, n - 1, frame)
      BY <2>2, <2>5 DEF FrameFrom, Untouched, n
    <3>3. QED
      BY <3>1, <3>2
  <2> HIDE DEF rest, frame, caller
  <2>7. \A k \in 1 .. Len(rest) : FrameFrom(t, t, k, rest[k])
    BY <2>2, <2>4 DEF FrameFrom, Untouched
  <2>8. FramesFrom(t, threadStacks)
    BY FramesSame
  <2>9. QED
    BY <1>1, <2>1, <2>4, <2>5, <2>6, <2>7, <2>8, FramesPushed
<1>6. n = 1 \/ n > 1
  <2>1. \A m \in Nat \ {0} : m = 1 \/ m > 1
    OBVIOUS
  <2>2. QED
    BY <1>1, <2>1, Zenon
<1>7. QED
  BY <1>2, <1>3, <1>6

LEMMA FramesAfter ==
  ASSUME IInv, NEW t \in Thread, Execute(t)
  PROVE  FramesFrom(t, threadStacks')
<1>1. IInv /\ t \in Active
  BY ExecutesActive
<1>2. /\ Top(t) \in Frame /\ Instr(t) \in Instruction /\ Len(threadStacks[t]) \in Nat \ {0}
      /\ threadStacks \in [Thread -> Seq(Frame)] /\ mem \in [Addr -> Val]
  BY <1>1, TopType DEF IInv, TypeOK
<1>3. /\ Top(t).acc \in Val /\ Instr(t).fn \in Fn /\ Instr(t).x \in Val /\ 0 \in Val
      /\ Instr(t).addr \in Addr
  BY <1>2, ValAssumption DEF Frame, Instruction
<1>4. ASSUME NEW v \in Val, Advance(t, v) PROVE FramesFrom(t, threadStacks')
  <2>1. Moved(Top(t), Top(t).pc + 1, v) \in Frame /\ Moves(t, Moved(Top(t), Top(t).pc + 1, v))
    BY <1>1, MovedFrame
  <2>2. QED
    BY <1>1, <1>4, <2>1, FramesMoved DEF Advance
<1>5. CASE \E v : Advance(t, v)
  <2>1. \E v \in Val : Advance(t, v)
    <3>1. PICK v : Advance(t, v)
      BY <1>5
    <3>2. threadStacks' = WithTop(t, Moved(Top(t), Top(t).pc + 1, v))
      BY <3>1 DEF Advance
    <3>3. /\ Len(threadStacks[t]) \in 1 .. Len(threadStacks[t])
          /\ threadStacks[t] \in Seq(Frame)
      BY <1>2
    <3>4. threadStacks'[t] = [threadStacks[t] EXCEPT ![Len(threadStacks[t])] =
                                Moved(Top(t), Top(t).pc + 1, v)]
      BY <1>2, <3>2 DEF WithTop
    <3>5. threadStacks'[t][Len(threadStacks[t])] = Moved(Top(t), Top(t).pc + 1, v)
      BY <3>3, <3>4
    <3>6. threadStacks'[t] \in Seq(Frame)
      BY InstructionStep DEF IInv, TypeOK
    <3>7. Len(threadStacks'[t]) = Len(threadStacks[t])
      BY <3>3, <3>4
    <3>8. Moved(Top(t), Top(t).pc + 1, v) \in Frame
      BY <3>3, <3>5, <3>6, <3>7, ElementOfSeq
    <3>9. QED
      BY <3>1, <3>8 DEF Moved, Frame
  <2>2. QED
    BY <1>4, <2>1
<1>6. CASE \/ StoreToMemory(t) \/ StoreToBuffer(t) \/ LoadFromBuffer(t) \/ LoadFromMemory(t)
           \/ LoadFault(t) \/ Membar_ss(t) \/ Membar_sl(t)
           \/ Cas32(t) \/ Cas32Fault(t) \/ CasPO(t) \/ FasPO(t)
           \/ Malloc(t) \/ Free(t) \/ SetValue(t) \/ Join(t) \/ AssertExist(t)
  <2>1. \E v : Advance(t, v)
    BY <1>6 DEF StoreToMemory, StoreToBuffer, LoadFromBuffer, LoadFromMemory, LoadFault, Membar_ss,
       Membar_sl, Cas32, Cas32Fault, CasPO, FasPO, Malloc, Free, SetValue, Join, AssertExist, Skip
  <2>2. QED
    BY <1>5, <2>1
<1>7. CASE Branch(t)
  <2>1. PICK frame : /\ frame = Moved(Top(t), IF Top(t).acc = Instr(t).x THEN Instr(t).to
                                                                       ELSE Top(t).pc + 1, Top(t).acc)
                     /\ threadStacks' = WithTop(t, frame)
    BY <1>7 DEF Branch
  <2>2. Instr(t).op = "br" /\ Instr(t).to \in Nat
    BY <1>2, <1>7 DEF Branch, At, Instruction
  <2>3. frame \in Frame /\ Moves(t, frame)
    BY <1>2, <2>1, <2>2 DEF Moved, Frame, Moves
  <2>4. QED
    BY <1>1, <2>1, <2>3, FramesMoved
<1>8. CASE FreeFault(t) \/ JoinBlocked(t)
  BY <1>8, FramesSame DEF FreeFault, JoinBlocked
<1>9. CASE Return(t)
  BY <1>1, <1>9, ReturnedFrames
<1>10. CASE Call(t)
  <2>1. PICK s : s = WithTop(t, Moved(Top(t), Top(t).pc + 1, Top(t).acc))
    OBVIOUS
  <2>2. FramesFrom(t, s) /\ s \in [Thread -> Seq(Frame)]
    BY <1>1, <1>3, <2>1, MovedFrame, FramesMoved
  <2>3. PICK frame : frame = NewFrame(Instr(t).fn, Instr(t).x)
    OBVIOUS
  <2>4. frame \in Frame /\ \A k : FrameFrom(t, t, k, frame)
    <3>1. Instr(t).op = "call"
      BY <1>10 DEF Call, At
    <3>2. frame \in Frame
      BY <1>3, <2>3, NewFrameType
    <3>3. Entered(t, frame)
      BY <2>3, <3>1 DEF Entered, NewFrame
    <3>4. QED
      BY <3>2, <3>3 DEF FrameFrom
  <2>5. threadStacks' = [threadStacks EXCEPT ![t] = Append(s[t], frame)]
    BY <1>10, <2>1, <2>3 DEF Call
  <2>6. [threadStacks EXCEPT ![t] = Append(s[t], frame)] = [s EXCEPT ![t] = Append(s[t], frame)]
    BY <1>2, <2>1 DEF WithTop
  <2>7. PICK rest : rest = s[t]
    OBVIOUS
  <2>8. t \in Thread /\ rest \in Seq(Frame) /\ \A k \in 1 .. Len(rest) : FrameFrom(t, t, k, rest[k])
    BY <2>2, <2>7 DEF FramesFrom
  <2>9. FramesFrom(t, [s EXCEPT ![t] = Append(rest, frame)])
    BY <2>2, <2>4, <2>8, FramesPushed
  <2>10. QED
    BY <2>5, <2>6, <2>7, <2>9
<1>11. CASE Spawn(t)
  <2>1. PICK s : s = WithTop(t, Moved(Top(t), Top(t).pc + 1, Top(t).acc))
    OBVIOUS
  <2>2. FramesFrom(t, s) /\ s \in [Thread -> Seq(Frame)]
    BY <1>1, <1>3, <2>1, MovedFrame, FramesMoved
  <2>3. PICK frame : frame = NewFrame(Instr(t).fn, 0)
    OBVIOUS
  <2>4. frame \in Frame /\ \A k : FrameFrom(t, nextThreadNum, k, frame)
    <3>1. Instr(t).op = "spawn"
      BY <1>11 DEF Spawn, At
    <3>2. frame \in Frame
      BY <1>3, <2>3, NewFrameType
    <3>3. Entered(t, frame)
      BY <2>3, <3>1 DEF Entered, NewFrame
    <3>4. QED
      BY <3>2, <3>3 DEF FrameFrom
  <2>5. /\ threadStacks' = [s EXCEPT ![nextThreadNum] = <<frame>>]
        /\ nextThreadNum \in Thread
    BY <1>11, <2>1, <2>3 DEF Spawn
  <2>6. <<frame>> = Append(<<>>, frame) /\ <<>> \in Seq(Frame) /\ Len(<<>>) = 0
    BY <2>4, EmptySeq
  <2>7. \A k \in 1 .. Len(<<>>) : FrameFrom(t, nextThreadNum, k, <<>>[k])
    BY <2>6
  <2>8. QED
    BY <2>2, <2>4, <2>5, <2>6, <2>7, FramesPushed
<1>12. CASE Alloca(t)
  <2>1. PICK frame : /\ frame = [fn |-> Top(t).fn, pc |-> Top(t).pc + 1, acc |-> Top(t).acc,
                                 allocas |-> Top(t).allocas \cup {Instr(t).addr}]
                     /\ threadStacks' = WithTop(t, frame)
    BY <1>12 DEF Alloca
  <2>2. Instr(t).op = "alloca"
    BY <1>12 DEF Alloca, At
  <2>3. frame \in Frame /\ Moves(t, frame)
    BY <1>2, <1>3, <2>1, <2>2 DEF Frame, Moves
  <2>4. QED
    BY <1>1, <2>1, <2>3, FramesMoved
<1>13. QED
  BY <1>6, <1>7, <1>8, <1>9, <1>10, <1>11, <1>12 DEF Execute

(* A flush drawn by the scheduler.                                         *)
LEMMA FlushedOf ==
  ASSUME NEW t \in Thread, RandomFlush(t)
  PROVE  /\ t \in Active /\ UNCHANGED <<program, threadStacks, heap, nextThreadNum, observed>>
         /\ \/ UNCHANGED <<thread_buffer, mem>>
            \/ \E q \in Queue : thread_buffer[t][q] # <<>> /\ FlushOne(t, q)
<1>1. WMM = "TSO" => Fifo \in Queue
  BY DEF Queue
<1>2. QED
  BY <1>1 DEF RandomFlush, RandomFlushTSO, RandomFlushPSO

(* A run stays in its program.                                            *)
LEMMA ProgramStays ==
  ASSUME [Next]_vars
  PROVE  program' = program
<1>1. ASSUME NEW t \in Thread, Execute(t), ~ FreeFault(t)
      PROVE  \E b, s, f : Proceed(t, b, s, f)
  BY <1>1 DEF Execute, StoreToMemory, StoreToBuffer, LoadFromBuffer, LoadFromMemory, LoadFault,
       Membar_ss, Membar_sl, Cas32, Cas32Fault, CasPO, FasPO, Alloca, Malloc, Free,
       SetValue, Branch, Call, Return, Spawn, JoinBlocked, Join, AssertExist
<1>2. ASSUME NEW t \in Thread, NEW b, NEW s, NEW f, Proceed(t, b, s, f)
      PROVE  program' = program
  BY <1>2 DEF Proceed
<1>3. ASSUME NEW t \in Thread, FreeFault(t)
      PROVE  program' = program
  BY <1>3 DEF FreeFault
<1>4. CASE Finish \/ UNCHANGED vars
  BY <1>4 DEF Finish, vars
<1>5. QED
  BY <1>1, <1>2, <1>3, <1>4, FlushedOf DEF Next
=============================================================================
