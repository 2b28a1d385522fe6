---------------------------- MODULE FenceProofs ----------------------------
(***************************************************************************)
(* Fences restore sequential consistency: a program in which a fence       *)
(* stands wherever an instruction could overtake a store implements        *)
(* SCMemory, for every such program, memory model, number of threads and   *)
(* of addresses, and every choice of flushes.                              *)
(*                                                                         *)
(* The invariant says where a buffered store of a running thread comes     *)
(* from: a store instruction the thread has passed, after which it has     *)
(* passed no fence that drains it. At an instruction that could overtake   *)
(* the store such a fence would have to be there; so a thread has pending  *)
(* stores in one queue at most, and what it executes is to their address.  *)
(***************************************************************************)
EXTENDS CoherenceProofs

(* Program p runs, with functions of F, on the globals.                    *)
RunsIn(p, F) ==
  /\ program = p /\ F \subseteq Fn /\ RunsOnly(p, F) /\ OnGlobals(p, F)
  /\ heap = Globals
  /\ \A u \in Thread : \A k \in 1 .. Len(threadStacks[u]) :
        threadStacks[u][k].fn \in F /\ threadStacks[u][k].allocas = {}
  /\ \A u \in Thread, q \in Queue : \A k \in 1 .. Len(thread_buffer[u][q]) :
        thread_buffer[u][q][k].addr \in Globals

(* Every thread has its stores in one queue.                               *)
Serial ==
  \A u \in Thread : \A q, r \in Queue :
     thread_buffer[u][q] # <<>> /\ thread_buffer[u][r] # <<>> => q = r

(* The instruction t is at overtakes none of its buffered stores.          *)
Unovertaken(t) ==
  \A q \in Queue : \A k \in 1 .. Len(thread_buffer[t][q]) :
     ~ Delay([op |-> "store", addr |-> thread_buffer[t][q][k].addr], Instr(t))

Here(t) == <<Top(t).fn, Top(t).pc>>

-----------------------------------------------------------------------------
(* What an instruction on globals can meet.                                *)

LEMMA Standing ==
  ASSUME CInv, NEW p, NEW F, RunsIn(p, F), NEW t \in Thread, t \in Active
  PROVE  /\ Here(t) \in Places(p, F) /\ Instr(t) = InstrAt(p, Here(t))
         /\ Here(t)[1] = Top(t).fn /\ Here(t)[2] = Top(t).pc /\ Top(t).pc \in Nat \ {0}
         /\ Instr(t).op \notin {"malloc", "free", "alloca"} /\ Instr(t).addr \in Globals
         /\ Instr(t).addr \in heap /\ Instr(t).addr \in Addr
         /\ Instr(t).op \in {"spawn", "call"} => Instr(t).fn \in F
         /\ \A a : ~ OnStack(t, a)
<1>1. /\ IInv /\ program = p /\ heap = Globals /\ RunsOnly(p, F) /\ OnGlobals(p, F)
      /\ \A k \in 1 .. Len(threadStacks[t]) :
            threadStacks[t][k].fn \in F /\ threadStacks[t][k].allocas = {}
  BY DEF RunsIn, CInv
<1>2. /\ Len(threadStacks[t]) \in Nat \ {0} /\ Top(t) \in Frame
      /\ Top(t).pc \in 1 .. Len(Code[p][Top(t).fn])
  BY <1>1, TopType
<1>3. Len(threadStacks[t]) \in 1 .. Len(threadStacks[t])
  BY <1>2
<1>4. Top(t).fn \in F
  BY <1>1, <1>3 DEF Top
<1>5. Top(t).pc \in Nat \ {0}
  <2>1. \A n \in Nat : \A m \in 1 .. n : m \in Nat \ {0}
    OBVIOUS
  <2>2. Len(Code[p][Top(t).fn]) \in Nat
    BY <1>1, <1>2, CodeType DEF Frame, IInv, TypeOK
  <2>3. QED
    BY <1>2, <2>1, <2>2
<1>6. Here(t)[1] = Top(t).fn /\ Here(t)[2] = Top(t).pc /\ Here(t) \in {Top(t).fn} \X (1 .. Len(Code[p][Top(t).fn]))
  BY <1>2 DEF Here
<1>7. Here(t) \in Places(p, F)
  BY <1>4, <1>6 DEF Places
<1>8. Instr(t) = InstrAt(p, Here(t))
  BY <1>1, <1>6 DEF Instr, InstrAt
<1>9. Instr(t).op \notin {"malloc", "free", "alloca"} /\ Instr(t).addr \in Globals
  BY <1>1, <1>7, <1>8 DEF OnGlobals
<1>10. Instr(t).op \in {"spawn", "call"} => Instr(t).fn \in F
  BY <1>1, <1>2, <1>4 DEF RunsOnly, Instr
<1>11. \A a : ~ OnStack(t, a)
  BY <1>1 DEF OnStack
<1>12. QED
  BY <1>1, <1>5, <1>6, <1>7, <1>8, <1>9, <1>10, <1>11, AddrAssumption

(* An instruction that overtakes nothing is to the address of every store  *)
(* that its memory model would let it overtake.                            *)
LEMMA SameAddress ==
  ASSUME NEW t \in Thread, Unovertaken(t), NEW q \in Queue, NEW k \in 1 .. Len(thread_buffer[t][q])
  PROVE  /\ WMM = "TSO" /\ Instr(t).op = "load" => thread_buffer[t][q][k].addr = Instr(t).addr
         /\ WMM = "PSO" /\ Instr(t).op \in {"load", "store", "cas32"}
              => thread_buffer[t][q][k].addr = Instr(t).addr
         /\ WMM = "PSO" => Instr(t).op # "faspo"
<1>1. ~ Delay([op |-> "store", addr |-> thread_buffer[t][q][k].addr], Instr(t))
  BY DEF Unovertaken
<1>2. QED
  BY <1>1 DEF Delay

-----------------------------------------------------------------------------
(* The pending stores of the mapping.                                      *)

Line(t) ==
  LET busy == {q \in Queue : thread_buffer[t][q] # <<>>}
  IN  IF busy = {} THEN <<>> ELSE thread_buffer[t][CHOOSE q \in busy : TRUE]
SCpend == [t \in Thread |-> Line(t)]

LEMMA LineIs ==
  ASSUME CInv, Serial, NEW t \in Thread, t \in Active
  PROVE  /\ \A q \in Queue : thread_buffer[t][q] # <<>> => Line(t) = thread_buffer[t][q]
         /\ (\A q \in Queue : thread_buffer[t][q] = <<>>) => Line(t) = <<>>
         /\ Line(t) # <<>> => \E q \in Queue : Line(t) = thread_buffer[t][q]
BY DEF Serial, Line

LEMMA LineSame ==
  ASSUME NEW t \in Thread, thread_buffer'[t] = thread_buffer[t]
  PROVE  Line(t)' = Line(t)
BY DEF Line, Queue

LEMMA LineEmpty ==
  ASSUME NEW t \in Thread, \A q \in Queue : thread_buffer'[t][q] = <<>>
  PROVE  Line(t)' = <<>>
BY DEF Line, Queue

LEMMA SCpendOthers ==
  ASSUME NEW t \in Thread, NEW s, Line(t)' = s,
         \A u \in Thread \ {t} : thread_buffer'[u] = thread_buffer[u]
  PROVE  SCpend' = [SCpend EXCEPT ![t] = s]
<1>1. \A u \in Thread \ {t} : Line(u)' = Line(u)
  BY LineSame
<1>2. QED
  BY <1>1 DEF SCpend

LEMMA SCpendSame ==
  ASSUME thread_buffer' = thread_buffer
  PROVE  SCpend' = SCpend
BY LineSame DEF SCpend

(* What SCMemory!MemAfter does at an address, for a sequence s of stores.  *)
After(s, n, a) ==
  LET own == {k \in 1 .. n : s[k].addr = a}
  IN  IF own = {} THEN mem[a] ELSE s[CHOOSE k \in own : \A j \in own : j <= k].val

LEMMA SCMemAfter ==
  ASSUME NEW t \in Thread, NEW n
  PROVE  SC!MemAfter(t, n) = [a \in Addr |-> After(Line(t), n, a)]
<1>1. SCpend[t] = Line(t)
  BY DEF SCpend
<1>2. SC!MemAfter(t, n) = [a \in Addr |-> After(SCpend[t], n, a)]
  BY Zenon DEF SC!MemAfter, SCpend, Line, After
<1>3. QED
  BY <1>1, <1>2

LEMMA NewestAfter ==
  ASSUME NEW s, NEW n \in Nat, NEW a, NEW m \in 1 .. n, s[m].addr = a,
         \A j \in 1 .. n : s[j].addr = a => j <= m
  PROVE  After(s, n, a) = s[m].val
<1> DEFINE own == {k \in 1 .. n : s[k].addr = a}
<1>1. m \in own /\ \A j \in own : j <= m
  OBVIOUS
<1>2. \A k \in own : (\A j \in own : j <= k) => k = m
  BY <1>1
<1>3. (CHOOSE k \in own : \A j \in own : j <= k) = m
  BY <1>1, <1>2
<1>4. QED
  BY <1>1, <1>3 DEF After

LEMMA NoneVisible ==
  ASSUME NEW t \in Thread, NEW n \in Nat, NEW a \in Addr, \A k \in 1 .. n : Line(t)[k].addr # a
  PROVE  SC!MemAfter(t, n)[a] = mem[a]
<1>1. After(Line(t), n, a) = mem[a]
  BY DEF After
<1>2. QED
  BY <1>1, SCMemAfter

LEMMA NewestVisible ==
  ASSUME NEW t \in Thread, NEW n \in Nat, NEW a \in Addr,
         NEW m \in 1 .. n, Line(t)[m].addr = a,
         \A j \in 1 .. n : Line(t)[j].addr = a => j <= m
  PROVE  SC!MemAfter(t, n)[a] = Line(t)[m].val
<1>1. PICK s : s = Line(t)
  OBVIOUS
<1>2. After(s, n, a) = s[m].val
  BY <1>1, NewestAfter
<1>3. QED
  BY <1>1, <1>2, SCMemAfter

(* Memory when all pending stores of a thread have become visible.         *)
LEMMA AllVisible ==
  ASSUME CInv, Serial, NEW t \in Thread, t \in Active, NEW a \in Addr
  PROVE  SC!MemAfter(t, Len(Line(t)))[a] = IF Own(t, a) = {} THEN mem[a] ELSE Newest(t, a)
<1>1. Len(<<>>) = 0 /\ \A k : ~ (k \in 1 .. 0)
  OBVIOUS
<1>2. QueueOf(a) \in Queue
  BY QueueOfType
<1>3. CASE \A q \in Queue : thread_buffer[t][q] = <<>>
  <2>1. Line(t) = <<>> /\ Own(t, a) = {}
    BY <1>1, <1>2, <1>3, LineIs DEF Own
  <2>2. SC!MemAfter(t, 0)[a] = mem[a]
    BY <1>1, NoneVisible
  <2>3. QED
    BY <1>1, <2>1, <2>2
<1>4. ASSUME NEW q \in Queue, thread_buffer[t][q] # <<>>
      PROVE  SC!MemAfter(t, Len(Line(t)))[a] = IF Own(t, a) = {} THEN mem[a] ELSE Newest(t, a)
  <2>1. Line(t) = thread_buffer[t][q]
    BY <1>4, LineIs
  <2>2. PICK n \in Nat : n = Len(Line(t))
    BY <2>1, QueueType, LenProperties DEF CInv, IInv
  <2>3. QueueOf(a) # q => Own(t, a) = {} /\ \A k \in 1 .. n : Line(t)[k].addr # a
    <3>1. QueueOf(a) # q => thread_buffer[t][QueueOf(a)] = <<>>
      BY <1>2, <1>4 DEF Serial
    <3>2. QueueOf(a) # q => Own(t, a) = {}
      BY <1>1, <3>1 DEF Own
    <3>3. QED
      BY <2>1, <2>2, <3>2 DEF CInv, Sorted
  <2>4. QueueOf(a) = q => Own(t, a) = {k \in 1 .. n : Line(t)[k].addr = a}
    BY <2>1, <2>2 DEF Own
  <2>5. CASE Own(t, a) = {}
    <3>1. \A k \in 1 .. n : Line(t)[k].addr # a
      BY <2>3, <2>4, <2>5
    <3>2. QED
      BY <2>2, <2>5, <3>1, NoneVisible
  <2>6. CASE Own(t, a) # {}
    <3>1. QueueOf(a) = q
      BY <2>3, <2>6
    <3>2. Own(t, a) \in SUBSET (1 .. n)
      BY <2>4, <3>1
    <3>3. PICK m \in Own(t, a) : \A j \in Own(t, a) : j <= m
      BY <2>6, <3>2, MaximumExists
    <3>4. \A k \in Own(t, a) : (\A j \in Own(t, a) : j <= k) => k = m
      BY <3>2, <3>3
    <3>5. Newest(t, a) = Line(t)[m].val
      BY <2>1, <3>1, <3>3, <3>4 DEF Newest
    <3>6. SC!MemAfter(t, n)[a] = Line(t)[m].val
      BY <2>4, <3>1, <3>2, <3>3, NewestVisible
    <3>7. QED
      BY <2>2, <2>6, <3>5, <3>6
  <2>7. QED
    BY <2>5, <2>6
<1>5. QED
  BY <1>3, <1>4

(* The queues in Q are all that t has stores in.                           *)
Covers(t, Q) == \A q \in Queue : thread_buffer[t][q] # <<>> => q \in Q

LEMMA AllFlushed ==
  ASSUME CInv, NEW p, NEW F, RunsIn(p, F), Serial, NEW t \in Thread, t \in Active, NEW Q, Covers(t, Q)
  PROVE  SC!MemAfter(t, Len(Line(t))) = Flushed(t, Q) /\ ~ FlushFaults(t, Q)
<1>1. Len(<<>>) = 0 /\ \A k : ~ (k \in 1 .. 0)
  OBVIOUS
<1>2. ASSUME NEW a \in Addr, Own(t, a) # {}
      PROVE  QueueOf(a) \in Q /\ Storable(a)
  <2>1. QueueOf(a) \in Queue
    BY QueueOfType
  <2>2. PICK k \in 1 .. Len(thread_buffer[t][QueueOf(a)]) : thread_buffer[t][QueueOf(a)][k].addr = a
    BY <1>2 DEF Own
  <2>3. QueueOf(a) \in Q
    BY <1>1, <2>1, <2>2 DEF Covers
  <2>4. a \in heap
    BY <2>1, <2>2 DEF RunsIn
  <2>5. QED
    BY <2>3, <2>4 DEF Storable
<1>3. SC!MemAfter(t, Len(Line(t))) = [a \in Addr |-> SC!MemAfter(t, Len(Line(t)))[a]]
  BY SCMemAfter
<1>4. \A a \in Addr : SC!MemAfter(t, Len(Line(t)))[a] =
         IF QueueOf(a) \in Q /\ Own(t, a) # {} /\ Storable(a) THEN Newest(t, a) ELSE mem[a]
  BY <1>2, AllVisible
<1>5. QED
  BY <1>2, <1>3, <1>4 DEF Flushed, FlushFaults

LEMMA AllEmptied ==
  ASSUME CInv, NEW t \in Thread, NEW Q, Covers(t, Q), Empty(t, Q)
  PROVE  /\ \A q \in Queue : thread_buffer'[t][q] = <<>>
         /\ \A u \in Thread \ {t} : thread_buffer'[u] = thread_buffer[u]
         /\ SCpend' = [SCpend EXCEPT ![t] = <<>>]
<1>1. thread_buffer \in [Thread -> [Queue -> Seq(Elem)]]
  BY DEF CInv, IInv, TypeOK
<1>2. /\ \A u \in Thread \ {t} : thread_buffer'[u] = thread_buffer[u]
      /\ \A q \in Queue : thread_buffer'[t][q] = IF q \in Q THEN <<>> ELSE thread_buffer[t][q]
  BY <1>1 DEF Empty
<1>3. \A q \in Queue : thread_buffer'[t][q] = <<>>
  BY <1>2 DEF Covers
<1>4. QED
  BY <1>2, <1>3, LineEmpty, SCpendOthers

-----------------------------------------------------------------------------
(* Steps of sequential consistency.                                        *)

SCStep1 == SC!Next \/ UNCHANGED <<mem, SCpend, observed>>

(* Stores stay in one queue when one thread's queues have changed, and     *)
(* only one of them is not empty, or when all queues have become shorter.  *)
LEMMA OneQueueEach ==
  ASSUME Serial, NEW t \in Thread, NEW q \in Queue,
         \A u \in Thread \ {t} : thread_buffer'[u] = thread_buffer[u],
         \A r \in Queue \ {q} : thread_buffer'[t][r] = <<>>
  PROVE  Serial'
BY DEF Serial, Queue

LEMMA StillSerial ==
  ASSUME Serial, thread_buffer' = thread_buffer
  PROVE  Serial'
BY DEF Serial, Queue

LEMMA EmptiedSerial ==
  ASSUME CInv, Serial, NEW t \in Thread, NEW Q, Covers(t, Q), Empty(t, Q)
  PROVE  Serial'
<1>1. /\ \A q \in Queue : thread_buffer'[t][q] = <<>>
      /\ \A u \in Thread \ {t} : thread_buffer'[u] = thread_buffer[u]
  BY AllEmptied
<1>2. QED
  BY <1>1 DEF Serial, Queue

LEMMA CommitAll ==
  ASSUME CInv, NEW p, NEW F, RunsIn(p, F), Serial, NEW t \in Thread, t \in Active, NEW Q, Covers(t, Q),
         Empty(t, Q), mem' = Flushed(t, Q), observed' = observed
  PROVE  SCStep1
<1>1. SCpend' = [SCpend EXCEPT ![t] = <<>>] /\ mem' = SC!MemAfter(t, Len(Line(t)))
  BY AllEmptied, AllFlushed
<1>2. CASE Line(t) = <<>>
  <2>1. SCpend' = SCpend
    BY <1>1, <1>2 DEF SCpend
  <2>2. \A a \in Addr : Own(t, a) = {}
    <3>1. \A q \in Queue : thread_buffer[t][q] = <<>>
      BY <1>2, LineIs
    <3>2. Len(<<>>) = 0 /\ \A k : ~ (k \in 1 .. 0)
      OBVIOUS
    <3>3. QED
      BY <3>1, <3>2, QueueOfType DEF Own
  <2>3. mem' = mem
    <3>1. mem \in [Addr -> Val]
      BY DEF CInv, IInv, TypeOK
    <3>2. Flushed(t, Q) = [a \in Addr |-> mem[a]]
      BY <2>2 DEF Flushed
    <3>3. QED
      BY <3>1, <3>2
  <2>4. QED
    BY <2>1, <2>3 DEF SCStep1
<1>3. CASE Line(t) # <<>>
  <2>1. PICK q \in Queue : Line(t) = thread_buffer[t][q]
    BY <1>3, LineIs
  <2>2. Line(t) \in Seq(Elem)
    BY <2>1, QueueType DEF CInv, IInv
  <2>3. Len(Line(t)) \in 1 .. Len(Line(t)) /\ SubSeq(Line(t), Len(Line(t)) + 1, Len(Line(t))) = <<>>
    <3>1. ASSUME NEW s \in Seq(Elem), s # <<>>
          PROVE  Len(s) \in 1 .. Len(s) /\ SubSeq(s, Len(s) + 1, Len(s)) = <<>>
      BY <3>1
    <3>2. QED
      BY <1>3, <2>2, <3>1
  <2>4. PICK n : n = Len(Line(t))
    OBVIOUS
  <2>5. SCpend[t] = Line(t)
    BY DEF SCpend
  <2>6. /\ n \in 1 .. Len(SCpend[t]) /\ mem' = SC!MemAfter(t, n)
        /\ SCpend' = [SCpend EXCEPT ![t] = SubSeq(SCpend[t], n + 1, Len(SCpend[t]))]
    BY <1>1, <2>3, <2>4, <2>5
  <2>7. SC!Commit(t)
    BY <2>6 DEF SC!Commit, SCpend, Line
  <2>8. QED
    BY <2>7 DEF SC!Next, SCStep1
<1>4. QED
  BY <1>2, <1>3

LEMMA ExchangeAll ==
  ASSUME CInv, NEW p, NEW F, RunsIn(p, F), Serial, NEW t \in Thread, t \in Active, NEW Q, Covers(t, Q),
         Empty(t, Q), NEW a \in Addr,
         observed' = [observed EXCEPT ![t] = Seen(a, Flushed(t, Q)[a])],
         \/ mem' = Flushed(t, Q)
         \/ \E v \in Val : mem' = [Flushed(t, Q) EXCEPT ![a] = v]
  PROVE  SCStep1
<1>1. SCpend' = [SCpend EXCEPT ![t] = <<>>] /\ SCpend[t] = Line(t)
  BY AllEmptied DEF SCpend
<1>2. PICK m : m = SC!MemAfter(t, Len(SCpend[t]))
  OBVIOUS
<1>3. m = Flushed(t, Q)
  BY <1>1, <1>2, AllFlushed
<1>4. /\ observed' = [observed EXCEPT ![t] = [addr |-> a, val |-> m[a]]]
      /\ mem' = m \/ \E v \in Val : mem' = [m EXCEPT ![a] = v]
  BY <1>3 DEF Seen
<1>5. SC!Exchange(t)
  BY <1>1, <1>2, <1>4 DEF SC!Exchange, SCpend, Line
<1>6. QED
  BY <1>5 DEF SC!Next, SCStep1

LEMMA ReadVisible ==
  ASSUME CInv, Serial, NEW t \in Thread, t \in Active, NEW a \in Addr,
         \A q \in Queue : \A k \in 1 .. Len(thread_buffer[t][q]) : thread_buffer[t][q][k].addr = a,
         observed' = [observed EXCEPT ![t] = Seen(a, IF Own(t, a) = {} THEN mem[a] ELSE Newest(t, a))],
         UNCHANGED <<mem, thread_buffer>>
  PROVE  SCStep1
<1>1. SCpend' = SCpend /\ SCpend[t] = Line(t)
  BY SCpendSame DEF SCpend
<1>2. PICK m : m = SC!MemAfter(t, Len(SCpend[t]))
  OBVIOUS
<1>3. observed' = [observed EXCEPT ![t] = [addr |-> a, val |-> m[a]]]
  BY <1>1, <1>2, AllVisible DEF Seen
<1>4. \A k \in 1 .. Len(SCpend[t]) : SCpend[t][k].addr = a
  <2>1. CASE Line(t) = <<>>
    <3>1. Len(<<>>) = 0 /\ \A k : ~ (k \in 1 .. 0)
      OBVIOUS
    <3>2. QED
      BY <1>1, <2>1, <3>1
  <2>2. CASE Line(t) # <<>>
    BY <1>1, <2>2, LineIs
  <2>3. QED
    BY <2>1, <2>2
<1>5. SC!Read(t)
  BY <1>1, <1>2, <1>3, <1>4 DEF SC!Read, SCpend, Line
<1>6. QED
  BY <1>5 DEF SC!Next, SCStep1

LEMMA WriteVisible ==
  ASSUME NEW t \in Thread, NEW a \in Addr, NEW v \in Val, mem' = [mem EXCEPT ![a] = v],
         \A q \in Queue : thread_buffer[t][q] = <<>>, UNCHANGED <<thread_buffer, observed>>
  PROVE  SCStep1
<1>1. SCpend' = SCpend
  BY SCpendSame
<1>2. SCpend[t] = <<>>
  BY DEF SCpend, Line
<1>3. SC!Write(t)
  BY <1>1, <1>2 DEF SC!Write, SCpend, Line
<1>4. QED
  BY <1>3 DEF SC!Next, SCStep1

LEMMA LineNext ==
  ASSUME NEW t \in Thread, NEW q \in Queue
  PROVE  /\ (\A r \in Queue \ {q} : thread_buffer[t][r] = <<>>) => Line(t) = thread_buffer[t][q]
         /\ (\A r \in Queue \ {q} : thread_buffer'[t][r] = <<>>) => Line(t)' = thread_buffer'[t][q]
<1>1. (\A r \in Queue \ {q} : thread_buffer[t][r] = <<>>) => Line(t) = thread_buffer[t][q]
  BY DEF Line
<1>2. (\A r \in Queue \ {q} : thread_buffer'[t][r] = <<>>) => Line(t)' = thread_buffer'[t][q]
  BY DEF Line, Queue
<1>3. QED
  BY <1>1, <1>2

LEMMA CommitFirst ==
  ASSUME CInv, NEW p, NEW F, RunsIn(p, F), Serial, NEW t \in Thread, t \in Active,
         NEW q \in Queue, thread_buffer[t][q] # <<>>, FlushOne(t, q), observed' = observed
  PROVE  SCStep1 /\ Serial'
<1>1. thread_buffer \in [Thread -> [Queue -> Seq(Elem)]] /\ mem \in [Addr -> Val]
  BY DEF CInv, IInv, TypeOK
<1>2. PICK s \in Seq(Elem) : s = thread_buffer[t][q]
  BY <1>1
<1>3. s # <<>> /\ \A r \in Queue \ {q} : thread_buffer[t][r] = <<>>
  BY <1>2 DEF Serial
<1>4. Line(t) = s
  BY <1>2, <1>3, LineNext
<1>5. /\ 1 \in 1 .. Len(s) /\ Head(s) = s[1] /\ SubSeq(s, 1 + 1, Len(s)) = Tail(s) /\ s[1] \in Elem
  <2>1. s[1] \in Elem /\ 1 \in 1 .. Len(s) /\ Head(s) = s[1]
    BY <1>3
  <2>2. SubSeq(s, 1 + 1, Len(s)) = Tail(s)
    BY <1>3
  <2>3. QED
    BY <2>1, <2>2
<1>6. s[1].addr \in Globals /\ s[1].addr \in heap /\ s[1].addr \in Addr /\ s[1].val \in Val
  BY <1>2, <1>5, AddrAssumption DEF RunsIn, Elem
<1>7. mem' = [mem EXCEPT ![s[1].addr] = s[1].val]
  BY <1>2, <1>5, <1>6 DEF FlushOne, Storable
<1>8. /\ \A u \in Thread \ {t} : thread_buffer'[u] = thread_buffer[u]
      /\ thread_buffer'[t][q] = Tail(s)
      /\ \A r \in Queue \ {q} : thread_buffer'[t][r] = <<>>
  BY <1>1, <1>2, <1>3 DEF FlushOne
<1>9. SCpend' = [SCpend EXCEPT ![t] = SubSeq(s, 1 + 1, Len(s))]
  <2>1. Line(t)' = SubSeq(s, 1 + 1, Len(s))
    BY <1>5, <1>8, LineNext
  <2>2. QED
    BY <1>8, <2>1, SCpendOthers
<1>10. mem' = SC!MemAfter(t, 1)
  <2>1. \A a \in Addr : a # s[1].addr => SC!MemAfter(t, 1)[a] = mem[a]
    <3>1. \A k \in 1 .. 1 : k = 1
      OBVIOUS
    <3>2. QED
      BY <1>4, <3>1, NoneVisible
  <2>2. SC!MemAfter(t, 1)[s[1].addr] = s[1].val
    BY <1>4, <1>6, NewestVisible
  <2>3. SC!MemAfter(t, 1) = [a \in Addr |-> After(Line(t), 1, a)]
    BY SCMemAfter
  <2>4. QED
    BY <1>1, <1>6, <1>7, <2>1, <2>2, <2>3
<1>11. SCpend[t] = s
  BY <1>4 DEF SCpend
<1>12. /\ 1 \in 1 .. Len(SCpend[t])
       /\ SCpend' = [SCpend EXCEPT ![t] = SubSeq(SCpend[t], 1 + 1, Len(SCpend[t]))]
  BY <1>5, <1>9, <1>11
<1>13. SC!Commit(t)
  BY <1>10, <1>12 DEF SC!Commit, SCpend, Line
<1>14. Serial'
  BY <1>8, OneQueueEach
<1>15. QED
  BY <1>13, <1>14 DEF SC!Next, SCStep1

LEMMA IssueVisible ==
  ASSUME CInv, Serial, NEW t \in Thread, Unovertaken(t), StoreToBuffer(t)
  PROVE  SCStep1 /\ Serial'
<1>1. thread_buffer \in [Thread -> [Queue -> Seq(Elem)]] /\ IInv
  BY DEF CInv, IInv, TypeOK
<1>2. At(t, "store")
  BY DEF StoreToBuffer
<1>3. t \in Active /\ Instr(t).addr \in Addr /\ Instr(t).op = "store"
  BY <1>1, <1>2, Running
<1>4. PICK q \in Queue : q = QueueOf(Instr(t).addr)
  BY <1>3, QueueOfType
<1>5. PICK e : e = [addr |-> Instr(t).addr, val |-> Instr(t).x, label |-> Instr(t).label]
  OBVIOUS
<1>6. PICK s \in Seq(Elem) : s = thread_buffer[t][q]
  BY <1>1
<1>7. thread_buffer' = [thread_buffer EXCEPT ![t][q] = Append(@, e)] /\ UNCHANGED <<mem, observed>>
  BY <1>4, <1>5 DEF StoreToBuffer
<1>8. ASSUME NEW r \in Queue, thread_buffer[t][r] # <<>>
      PROVE  r = q
  <2>1. CASE WMM # "PSO"
    BY <2>1 DEF Queue
  <2>2. CASE WMM = "PSO"
    <3>1. 1 \in 1 .. Len(thread_buffer[t][r])
      <4>1. ASSUME NEW b \in Seq(Elem), b # <<>> PROVE 1 \in 1 .. Len(b)
        BY <4>1
      <4>2. QED
        BY <1>1, <1>8, <4>1
    <3>2. thread_buffer[t][r][1].addr = Instr(t).addr
      BY <1>3, <2>2, <3>1, SameAddress
    <3>3. QED
      BY <1>4, <3>1, <3>2 DEF CInv, Sorted
  <2>3. QED
    BY <2>1, <2>2
<1>9. /\ \A u \in Thread \ {t} : thread_buffer'[u] = thread_buffer[u]
      /\ thread_buffer'[t][q] = Append(s, e)
      /\ \A r \in Queue \ {q} : thread_buffer'[t][r] = <<>>
  BY <1>1, <1>6, <1>7, <1>8
<1>10. Line(t) = s /\ Line(t)' = Append(s, e)
  BY <1>6, <1>8, <1>9, LineNext
<1>11. SCpend' = [SCpend EXCEPT ![t] = Append(s, e)]
  BY <1>9, <1>10, SCpendOthers
<1>12. SCpend[t] = s /\ SCpend'[t] = Append(s, e)
  BY <1>10 DEF SCpend
<1>13. Len(Append(s, e)) = Len(s) + 1 /\ Append(s, e)[Len(s) + 1] = e
  OBVIOUS
<1>14. /\ Len(SCpend'[t]) = Len(SCpend[t]) + 1
       /\ SCpend' = [SCpend EXCEPT ![t] = Append(SCpend[t], SCpend'[t][Len(SCpend'[t])])]
  BY <1>11, <1>12, <1>13
<1>15. SC!Issue(t)
  BY <1>7, <1>14 DEF SC!Issue, SCpend, Line
<1>16. Serial'
  BY <1>4, <1>9, OneQueueEach
<1>17. QED
  BY <1>15, <1>16 DEF SC!Next, SCStep1

-----------------------------------------------------------------------------
(* Every step of a program on globals that overtakes nothing.              *)

SerialStep == SCStep1 /\ Serial'

(* Steps that neither memory nor the buffers nor the reads take part in.   *)
LEMMA NothingMoves ==
  ASSUME Serial, UNCHANGED <<mem, thread_buffer, observed>>
  PROVE  SerialStep
BY SCpendSame, StillSerial DEF SCStep1, SerialStep

(* Which stores an instruction that flushes has to flush: all there are.   *)
LEMMA FlushesAll ==
  ASSUME CInv, NEW t \in Thread, Unovertaken(t)
  PROVE  /\ WMM = "PSO" => Covers(t, SSQueues)
         /\ Covers(t, SLQueues)
         /\ Instr(t).op = "cas32" => Covers(t, CASQueues(Instr(t).addr))
         /\ Instr(t).op = "faspo" => Covers(t, FASQueues)
<1>1. WMM = "NONE" => \A q \in Queue : thread_buffer[t][q] = <<>>
  BY DEF CInv, Unused
<1>2. WMM = "TSO" => Queue = {Fifo} /\ \A a : QueueOf(a) = Fifo
  BY DEF Queue, QueueOf
<1>3. ASSUME NEW q \in Queue, thread_buffer[t][q] # <<>>
      PROVE  1 \in 1 .. Len(thread_buffer[t][q]) /\ QueueOf(thread_buffer[t][q][1].addr) = q
  <2>1. thread_buffer[t][q] \in Seq(Elem)
    BY QueueType DEF CInv, IInv
  <2>2. ASSUME NEW b \in Seq(Elem), b # <<>> PROVE 1 \in 1 .. Len(b)
    BY <2>2
  <2>3. 1 \in 1 .. Len(thread_buffer[t][q])
    BY <1>3, <2>1, <2>2
  <2>4. QED
    BY <2>3 DEF CInv, Sorted
<1>4. Instr(t).op = "cas32" => Covers(t, CASQueues(Instr(t).addr))
  BY <1>1, <1>2, <1>3, SameAddress, WMMAssumption DEF Covers, CASQueues
<1>5. Instr(t).op = "faspo" => Covers(t, FASQueues)
  BY <1>1, <1>2, <1>3, SameAddress, WMMAssumption DEF Covers, FASQueues
<1>6. QED
  BY <1>1, <1>4, <1>5, WMMAssumption DEF Covers, SSQueues, SLQueues


LEMMA InstructionSerial ==
  ASSUME CInv, NEW p, NEW F, RunsIn(p, F), Serial, NEW t \in Thread, Execute(t), Unovertaken(t)
  PROVE  SerialStep
<1> DEFINE i == Instr(t)
           a == i.addr
<1>0. /\ IInv /\ t \in Active /\ a \in Addr /\ i.x \in Val /\ i.y \in Val
      /\ i.op \notin {"malloc", "free", "alloca"} /\ a \in heap /\ ~ OnStack(t, a)
  <2>1. \E op : At(t, op)
    BY DEF Execute, StoreToMemory, StoreToBuffer, LoadFromBuffer, LoadFromMemory, LoadFault,
       Membar_ss, Membar_sl, Cas32, Cas32Fault, CasPO, FasPO, Alloca, Malloc, Free, FreeFault,
       SetValue, Branch, Call, Return, Spawn, JoinBlocked, Join, AssertExist
  <2>2. IInv
    BY DEF CInv
  <2>3. QED
    BY <2>1, <2>2, Running, Standing
<1>1. CASE StoreToMemory(t)
  <2>1. WMM = "NONE"
    BY <1>0, <1>1 DEF StoreToMemory
  <2>2. \A q \in Queue : thread_buffer[t][q] = <<>>
    BY <2>1 DEF CInv, Unused
  <2>3. mem' = [mem EXCEPT ![a] = i.x] /\ UNCHANGED <<thread_buffer, observed>>
    BY <1>1 DEF StoreToMemory, buffers
  <2>4. SCStep1
    BY <1>0, <2>2, <2>3, WriteVisible
  <2>5. QED
    BY <2>3, <2>4, StillSerial DEF SerialStep
<1>2. CASE StoreToBuffer(t)
  BY <1>2, IssueVisible DEF SerialStep
<1>3. CASE LoadFromBuffer(t) \/ LoadFromMemory(t)
  <2>1. /\ i.op = "load" /\ UNCHANGED <<mem, thread_buffer>>
        /\ observed' = [observed EXCEPT ![t] = Seen(a, IF Own(t, a) = {} THEN mem[a] ELSE Newest(t, a))]
    BY <1>3 DEF LoadFromBuffer, LoadFromMemory, buffers, At
  <2>2. ASSUME NEW q \in Queue, NEW k \in 1 .. Len(thread_buffer[t][q])
        PROVE  thread_buffer[t][q][k].addr = a
    <3>1. WMM # "NONE"
      <4>1. Len(<<>>) = 0 /\ \A j : ~ (j \in 1 .. 0)
        OBVIOUS
      <4>2. QED
        BY <4>1 DEF CInv, Unused
    <3>2. QED
      BY <1>0, <2>1, <3>1, SameAddress, WMMAssumption
  <2>3. SCStep1
    BY <1>0, <2>1, <2>2, ReadVisible
  <2>4. QED
    BY <2>1, <2>3, StillSerial DEF SerialStep
<1>4. CASE LoadFault(t) \/ Cas32Fault(t)
  BY <1>0, <1>4 DEF LoadFault, LoadFaults, Cas32Fault
<1>5. CASE Membar_ss(t)
  <2>1. mem' = Flushed(t, SSQueues) /\ Empty(t, SSQueues) /\ observed' = observed
    BY <1>5 DEF Membar_ss
  <2>2. CASE WMM = "PSO"
    <3>1. Covers(t, SSQueues)
      BY <2>2, FlushesAll
    <3>2. QED
      BY <1>0, <2>1, <3>1, CommitAll, EmptiedSerial DEF SerialStep
  <2>3. CASE WMM # "PSO"
    <3>1. thread_buffer \in [Thread -> [Queue -> Seq(Elem)]] /\ mem \in [Addr -> Val]
      BY DEF CInv, IInv, TypeOK
    <3>2. SSQueues = {}
      BY <2>3 DEF SSQueues
    <3>3. thread_buffer' = thread_buffer
      <4>1. [q \in Queue |-> IF q \in SSQueues THEN <<>> ELSE thread_buffer[t][q]] = thread_buffer[t]
        BY <3>1, <3>2
      <4>2. thread_buffer' = [thread_buffer EXCEPT ![t] =
                                [q \in Queue |-> IF q \in SSQueues THEN <<>> ELSE thread_buffer[t][q]]]
        BY <2>1 DEF Empty
      <4>3. QED
        BY <3>1, <4>1, <4>2
    <3>4. mem' = mem
      BY <2>1, <3>1, <3>2 DEF Flushed
    <3>5. QED
      BY <2>1, <3>3, <3>4, NothingMoves
  <2>4. QED
    BY <2>2, <2>3
<1>6. CASE Membar_sl(t)
  <2>1. mem' = Flushed(t, SLQueues) /\ Empty(t, SLQueues) /\ observed' = observed
    BY <1>6 DEF Membar_sl
  <2>2. QED
    BY <1>0, <2>1, FlushesAll, CommitAll, EmptiedSerial DEF SerialStep
<1>7. ASSUME NEW Q, Covers(t, Q), Empty(t, Q),
             observed' = [observed EXCEPT ![t] = Seen(a, Flushed(t, Q)[a])],
             \/ mem' = Flushed(t, Q)
             \/ \E v \in Val : mem' = [Flushed(t, Q) EXCEPT ![a] = v]
      PROVE  SerialStep
  <2>1. SCStep1
    BY <1>0, <1>7, ExchangeAll
  <2>2. QED
    BY <1>7, <2>1, EmptiedSerial DEF SerialStep
<1>8. CASE Cas32(t)
  <2>1. i.op = "cas32"
    BY <1>8 DEF Cas32, At
  <2>2. Covers(t, CASQueues(a))
    BY <2>1, FlushesAll
  <2>3. /\ Empty(t, CASQueues(a))
        /\ observed' = [observed EXCEPT ![t] = Seen(a, Flushed(t, CASQueues(a))[a])]
        /\ \/ mem' = Flushed(t, CASQueues(a))
           \/ \E v \in Val : mem' = [Flushed(t, CASQueues(a)) EXCEPT ![a] = v]
    BY <1>0, <1>8 DEF Cas32
  <2>4. QED
    BY <1>7, <2>2, <2>3
<1>9. CASE CasPO(t)
  <2>1. Covers(t, SLQueues)
    BY FlushesAll
  <2>2. /\ Empty(t, SLQueues)
        /\ observed' = [observed EXCEPT ![t] = Seen(a, Flushed(t, SLQueues)[a])]
        /\ \/ mem' = Flushed(t, SLQueues)
           \/ \E v \in Val : mem' = [Flushed(t, SLQueues) EXCEPT ![a] = v]
    BY <1>0, <1>9 DEF CasPO
  <2>3. QED
    BY <1>7, <2>1, <2>2
<1>10. CASE FasPO(t)
  <2>1. Covers(t, FASQueues)
    BY <1>10, FlushesAll DEF FasPO, At
  <2>2. /\ Empty(t, FASQueues)
        /\ observed' = [observed EXCEPT ![t] = Seen(a, Flushed(t, FASQueues)[a])]
        /\ \E v \in Val : mem' = [Flushed(t, FASQueues) EXCEPT ![a] = v]
    BY <1>0, <1>10 DEF FasPO
  <2>3. QED
    BY <1>7, <2>1, <2>2
<1>11. CASE Alloca(t) \/ Malloc(t) \/ Free(t) \/ FreeFault(t)
  BY <1>0, <1>11 DEF Alloca, Malloc, Free, FreeFault, At
<1>12. CASE \/ SetValue(t) \/ Branch(t) \/ Call(t) \/ Return(t)
            \/ Spawn(t) \/ JoinBlocked(t) \/ Join(t) \/ AssertExist(t)
  <2>1. UNCHANGED <<mem, thread_buffer, observed>>
    BY <1>12 DEF SetValue, Branch, Call, Return, Spawn, JoinBlocked, Join, AssertExist, buffers
  <2>2. QED
    BY <2>1, NothingMoves
<1>13. QED
  BY <1>1, <1>2, <1>3, <1>4, <1>5, <1>6, <1>8, <1>9, <1>10, <1>11, <1>12 DEF Execute

(* A flush drawn by the scheduler.                                         *)
LEMMA FlushSerial ==
  ASSUME CInv, NEW p, NEW F, RunsIn(p, F), Serial, NEW t \in Thread, RandomFlush(t)
  PROVE  SerialStep
<1>1. CASE UNCHANGED <<thread_buffer, mem>>
  BY <1>1, FlushedOf, NothingMoves
<1>2. ASSUME NEW q \in Queue, thread_buffer[t][q] # <<>>, FlushOne(t, q)
      PROVE  SerialStep
  BY <1>2, FlushedOf, CommitFirst DEF SerialStep
<1>3. QED
  BY <1>1, <1>2, FlushedOf

-----------------------------------------------------------------------------
(* What stays as it is while a program on globals runs.                    *)

(* Where the buffered stores of a thread come from.                        *)
Buffering(t) ==
  /\ \A u \in Thread \ {t} : thread_buffer'[u] = thread_buffer[u]
  /\ \A q \in Queue : \A k \in 1 .. Len(thread_buffer'[t][q]) :
       \/ \E l \in 1 .. Len(thread_buffer[t][q]) : thread_buffer'[t][q][k] = thread_buffer[t][q][l]
       \/ /\ Instr(t).op = "store" /\ thread_buffer'[t][q][k].addr = Instr(t).addr
          /\ thread_buffer'[t][q][k].label = Instr(t).label

LEMMA BufferIssue ==
  ASSUME IInv, NEW t \in Thread, StoreToBuffer(t)
  PROVE  Buffering(t)
<1>1. thread_buffer \in [Thread -> [Queue -> Seq(Elem)]]
  BY DEF IInv, TypeOK
<1>2. At(t, "store")
  BY DEF StoreToBuffer
<1>3. Instr(t).addr \in Addr /\ Instr(t).op = "store"
  BY <1>2, Running
<1>4. PICK q \in Queue : q = QueueOf(Instr(t).addr)
  BY <1>3, QueueOfType
<1>5. PICK e : e = [addr |-> Instr(t).addr, val |-> Instr(t).x, label |-> Instr(t).label]
  OBVIOUS
<1>6. thread_buffer' = [thread_buffer EXCEPT ![t][q] = Append(@, e)]
  BY <1>4, <1>5 DEF StoreToBuffer
<1>7. PICK s \in Seq(Elem) : s = thread_buffer[t][q]
  BY <1>1
<1>8. /\ \A u \in Thread \ {t} : thread_buffer'[u] = thread_buffer[u]
      /\ thread_buffer'[t][q] = Append(s, e)
      /\ \A r \in Queue \ {q} : thread_buffer'[t][r] = thread_buffer[t][r]
  BY <1>1, <1>6, <1>7
<1>9. \A k \in 1 .. Len(Append(s, e)) : (k \in 1 .. Len(s) /\ Append(s, e)[k] = s[k]) \/ Append(s, e)[k] = e
  OBVIOUS
<1>10. ASSUME NEW r \in Queue, NEW k \in 1 .. Len(thread_buffer'[t][r])
       PROVE  \/ \E l \in 1 .. Len(thread_buffer[t][r]) :
                    thread_buffer'[t][r][k] = thread_buffer[t][r][l]
              \/ /\ thread_buffer'[t][r][k].addr = Instr(t).addr
                 /\ thread_buffer'[t][r][k].label = Instr(t).label
  <2>1. CASE r = q
    <3>1. thread_buffer'[t][r] = Append(s, e) /\ thread_buffer[t][r] = s
      BY <1>7, <1>8, <2>1
    <3>2. e.addr = Instr(t).addr /\ e.label = Instr(t).label
      BY <1>5
    <3>3. QED
      BY <1>9, <3>1, <3>2
  <2>2. CASE r # q
    BY <1>8, <2>2
  <2>3. QED
    BY <2>1, <2>2
<1>11. QED
  BY <1>3, <1>8, <1>10 DEF Buffering

LEMMA BufferFlush ==
  ASSUME IInv, NEW t \in Thread, NEW q \in Queue, thread_buffer[t][q] # <<>>, FlushOne(t, q)
  PROVE  /\ \A u \in Thread \ {t} : thread_buffer'[u] = thread_buffer[u]
         /\ \A r \in Queue : \A k \in 1 .. Len(thread_buffer'[t][r]) :
               \E l \in 1 .. Len(thread_buffer[t][r]) :
                  thread_buffer'[t][r][k] = thread_buffer[t][r][l]
<1>1. thread_buffer \in [Thread -> [Queue -> Seq(Elem)]]
  BY DEF IInv, TypeOK
<1>2. PICK s \in Seq(Elem) : s = thread_buffer[t][q]
  BY <1>1
<1>3. /\ \A u \in Thread \ {t} : thread_buffer'[u] = thread_buffer[u]
      /\ thread_buffer'[t][q] = Tail(s)
      /\ \A r \in Queue \ {q} : thread_buffer'[t][r] = thread_buffer[t][r]
  BY <1>1, <1>2 DEF FlushOne
<1>4. \A k \in 1 .. Len(Tail(s)) : k + 1 \in 1 .. Len(s) /\ Tail(s)[k] = s[k + 1]
  BY <1>2
<1>5. ASSUME NEW r \in Queue, NEW k \in 1 .. Len(thread_buffer'[t][r])
      PROVE  \E l \in 1 .. Len(thread_buffer[t][r]) :
                thread_buffer'[t][r][k] = thread_buffer[t][r][l]
  <2>1. CASE r = q
    <3>1. k + 1 \in 1 .. Len(s) /\ thread_buffer'[t][r][k] = s[k + 1]
      BY <1>3, <1>4, <2>1
    <3>2. QED
      BY <1>2, <2>1, <3>1
  <2>2. CASE r # q
    BY <1>3, <2>2
  <2>3. QED
    BY <2>1, <2>2
<1>6. QED
  BY <1>3, <1>5

LEMMA BufferEmptied ==
  ASSUME IInv, NEW t \in Thread, NEW Q, Empty(t, Q)
  PROVE  Buffering(t)
<1>1. thread_buffer \in [Thread -> [Queue -> Seq(Elem)]]
  BY DEF IInv, TypeOK
<1>2. Len(<<>>) = 0 /\ \A k : ~ (k \in 1 .. 0)
  OBVIOUS
<1>3. /\ \A u \in Thread \ {t} : thread_buffer'[u] = thread_buffer[u]
      /\ \A q \in Queue : thread_buffer'[t][q] = IF q \in Q THEN <<>> ELSE thread_buffer[t][q]
  BY <1>1 DEF Empty
<1>4. QED
  BY <1>2, <1>3 DEF Buffering

LEMMA BufferSame ==
  ASSUME NEW t \in Thread, thread_buffer' = thread_buffer
  PROVE  Buffering(t)
BY DEF Buffering

LEMMA BuffersFrom ==
  ASSUME IInv, NEW t \in Thread, Execute(t) \/ RandomFlush(t)
  PROVE  Buffering(t)
<1>1. CASE RandomFlush(t)
  <2>1. ASSUME NEW q \in Queue, thread_buffer[t][q] # <<>>, FlushOne(t, q)
        PROVE  Buffering(t)
    BY <2>1, BufferFlush DEF Buffering
  <2>2. QED
    BY <1>1, <2>1, FlushedOf, BufferSame
<1>2. CASE Execute(t) /\ ~ StoreToBuffer(t)
  <2>1. UNCHANGED thread_buffer \/ \E Q : Empty(t, Q)
    BY <1>2 DEF buffers, Execute, StoreToMemory, LoadFromBuffer, LoadFromMemory, LoadFault,
       Membar_ss, Membar_sl, Cas32, Cas32Fault, CasPO, FasPO, Alloca, Malloc, Free, FreeFault,
       SetValue, Branch, Call, Return, Spawn, JoinBlocked, Join, AssertExist
  <2>2. QED
    BY <2>1, BufferEmptied, BufferSame
<1>3. QED
  BY <1>1, <1>2, BufferIssue

LEMMA RunsInStep ==
  ASSUME CInv, NEW p, NEW F, RunsIn(p, F), [Next]_vars
  PROVE  RunsIn(p, F)'
<1>1. /\ IInv /\ program' = p /\ heap = Globals /\ RunsOnly(p, F)
      /\ \A u \in Thread : \A k \in 1 .. Len(threadStacks[u]) :
            threadStacks[u][k].fn \in F /\ threadStacks[u][k].allocas = {}
      /\ \A u \in Thread, q \in Queue : \A k \in 1 .. Len(thread_buffer[u][q]) :
            thread_buffer[u][q][k].addr \in Globals
  BY ProgramStays DEF RunsIn, CInv
<1>2. ASSUME NEW t \in Thread, t \in Active, Execute(t) \/ RandomFlush(t)
      PROVE  \A u \in Thread, q \in Queue : \A k \in 1 .. Len(thread_buffer'[u][q]) :
                thread_buffer'[u][q][k].addr \in Globals
  <2>1. Buffering(t) /\ Instr(t).addr \in Globals
    BY <1>1, <1>2, BuffersFrom, Standing
  <2>2. ASSUME NEW u \in Thread, NEW q \in Queue, NEW k \in 1 .. Len(thread_buffer'[u][q])
        PROVE  thread_buffer'[u][q][k].addr \in Globals
    <3>1. CASE u = t
      BY <1>1, <2>1, <2>2, <3>1 DEF Buffering
    <3>2. CASE u # t
      BY <1>1, <2>1, <2>2, <3>2 DEF Buffering
    <3>3. QED
      BY <3>1, <3>2
  <2>3. QED
    BY <2>2
<1>3. ASSUME NEW t \in Thread, Execute(t)
      PROVE  RunsIn(p, F)'
  <2>1. t \in Active
    BY <1>3, ExecutesActive
  <2>2. Instr(t).op \notin {"malloc", "free", "alloca"} /\ (Instr(t).op \in {"spawn", "call"} => Instr(t).fn \in F)
    BY <2>1, Standing
  <2>3. heap' = heap
    BY <1>3, <2>2 DEF Execute, StoreToMemory, StoreToBuffer, LoadFromBuffer, LoadFromMemory, LoadFault,
       Membar_ss, Membar_sl, Cas32, Cas32Fault, CasPO, FasPO, Alloca, Malloc, Free, FreeFault,
       SetValue, Branch, Call, Return, Spawn, JoinBlocked, Join, AssertExist, At
  <2>4. FramesFrom(t, threadStacks')
    BY <1>1, <1>3, FramesAfter
  <2>5. Len(threadStacks[t]) \in 1 .. Len(threadStacks[t])
    BY <1>1, <2>1, TopType
  <2>6. Top(t).fn \in F /\ Top(t).allocas = {}
    BY <1>1, <2>5 DEF Top
  <2>7. ASSUME NEW u \in Thread, NEW k \in 1 .. Len(threadStacks'[u])
        PROVE  threadStacks'[u][k].fn \in F /\ threadStacks'[u][k].allocas = {}
    <3>1. FrameFrom(t, u, k, threadStacks'[u][k])
      BY <2>4 DEF FramesFrom
    <3>2. QED
      BY <1>1, <2>2, <2>6, <3>1 DEF FrameFrom, Untouched, Moves, Entered
  <2>8. QED
    BY <1>1, <1>2, <1>3, <2>1, <2>3, <2>7 DEF RunsIn, Queue
<1>4. ASSUME NEW t \in Thread, RandomFlush(t)
      PROVE  RunsIn(p, F)'
  <2>1. t \in Active /\ heap' = heap /\ threadStacks' = threadStacks
    BY <1>4, FlushedOf
  <2>2. QED
    BY <1>1, <1>2, <1>4, <2>1 DEF RunsIn, Queue
<1>5. CASE Finish \/ UNCHANGED vars
  <2>1. UNCHANGED <<heap, threadStacks, thread_buffer>>
    BY <1>5 DEF Finish, vars, buffers
  <2>2. QED
    BY <1>1, <2>1 DEF RunsIn, Queue
<1>6. QED
  BY <1>3, <1>4, <1>5 DEF Next

-----------------------------------------------------------------------------
(* Programs with fences: where a store may be pending.                     *)

(* R gives, for the place of each store, places behind which it is not     *)
(* pending unless they are in R too, and at which nothing overtakes it.    *)
Net(p, F, R) ==
  \A n \in Places(p, F) : InstrAt(p, n).op = "store" =>
     /\ Onward(p, F, n, R[n]) \subseteq R[n]
     /\ \A k \in R[n] : ~ Delay(InstrAt(p, n), InstrAt(p, k))

(* Every frame but the top stands behind the call of the frame above it.   *)
Chained(u, p) ==
  \A k \in 2 .. Len(threadStacks[u]) :
     /\ threadStacks[u][k - 1].pc > 1
     /\ LET c == InstrAt(p, <<threadStacks[u][k - 1].fn, threadStacks[u][k - 1].pc - 1>>)
        IN  c.op = "call" /\ c.fn = threadStacks[u][k].fn

FromStores(t, p, F, R) ==
  \A q \in Queue : \A k \in 1 .. Len(thread_buffer[t][q]) :
     \E n \in Places(p, F) :
        /\ InstrAt(p, n).op = "store" /\ InstrAt(p, n).addr = thread_buffer[t][q][k].addr
        /\ Here(t) \in R[n]

(* The threads that have not been started.                                 *)
Fresh(t) == threadStacks[t] = <<>> /\ \A q \in Queue : thread_buffer[t][q] = <<>>

FencedRun(p, F, R) ==
  /\ RunsIn(p, F) /\ Net(p, F, R)
  /\ \A u \in Thread : Chained(u, p)
  /\ \A u \in Active : FromStores(u, p, F, R)
  /\ \A u \in Thread : u >= nextThreadNum => Fresh(u)

LEMMA NothingOvertaken ==
  ASSUME CInv, NEW p, NEW F, NEW R, FencedRun(p, F, R), NEW t \in Thread, t \in Active
  PROVE  Unovertaken(t)
<1>1. Instr(t) = InstrAt(p, Here(t)) /\ FromStores(t, p, F, R) /\ Net(p, F, R)
  BY Standing DEF FencedRun
<1>2. ASSUME NEW q \in Queue, NEW k \in 1 .. Len(thread_buffer[t][q])
      PROVE  ~ Delay([op |-> "store", addr |-> thread_buffer[t][q][k].addr], Instr(t))
  <2>1. PICK n \in Places(p, F) : /\ InstrAt(p, n).op = "store"
                                  /\ InstrAt(p, n).addr = thread_buffer[t][q][k].addr
                                  /\ Here(t) \in R[n]
    BY <1>1 DEF FromStores
  <2>2. ~ Delay(InstrAt(p, n), Instr(t))
    BY <1>1, <2>1 DEF Net
  <2>3. QED
    BY <2>1, <2>2 DEF Delay
<1>3. QED
  BY <1>2 DEF Unovertaken

(* Steps of a thread along its code. The stack is a sequence s here.       *)
ChainedStack(s, p) ==
  \A k \in 2 .. Len(s) :
     /\ s[k - 1].pc > 1
     /\ LET c == InstrAt(p, <<s[k - 1].fn, s[k - 1].pc - 1>>)
        IN  c.op = "call" /\ c.fn = s[k].fn

LEMMA ChainedIs ==
  ASSUME NEW u, NEW p
  PROVE  /\ Chained(u, p) <=> ChainedStack(threadStacks[u], p)
         /\ Chained(u, p)' <=> ChainedStack(threadStacks'[u], p)
BY DEF Chained, ChainedStack

LEMMA ChainedTop ==
  ASSUME NEW s, NEW r, NEW n \in Nat \ {0}, NEW frame, NEW p, ChainedStack(s, p),
         Len(s) = n, Len(r) = n, \A k \in 1 .. n : r[k] = IF k = n THEN frame ELSE s[k],
         frame.fn = s[n].fn
  PROVE  ChainedStack(r, p) /\ r[Len(r)] = frame
<1>1. ASSUME NEW k \in 2 .. n
      PROVE  r[k - 1] = s[k - 1] /\ r[k].fn = s[k].fn
  <2>1. k - 1 \in 1 .. n /\ k - 1 # n /\ k \in 1 .. n
    BY <1>1
  <2>2. QED
    BY <2>1
<1>2. ChainedStack(r, p)
  BY <1>1 DEF ChainedStack
<1>3. n \in 1 .. n
  OBVIOUS
<1>4. QED
  BY <1>2, <1>3

LEMMA ChainedCall ==
  ASSUME NEW s \in Seq(Frame), s # <<>>, NEW frame \in Frame, NEW p, ChainedStack(s, p),
         s[Len(s)].pc > 1,
         LET c == InstrAt(p, <<s[Len(s)].fn, s[Len(s)].pc - 1>>)
         IN  c.op = "call" /\ c.fn = frame.fn
  PROVE  LET r == Append(s, frame)
         IN  r \in Seq(Frame) /\ ChainedStack(r, p) /\ Len(r) # 0 /\ r[Len(r)] = frame
<1>1. PICK n, r : n = Len(s) /\ r = Append(s, frame)
  OBVIOUS
<1>2. n \in Nat \ {0}
  BY <1>1, EmptySeq
<1>3. r \in Seq(Frame) /\ Len(r) = n + 1 /\ (\A k \in 1 .. n : r[k] = s[k]) /\ r[n + 1] = frame
  BY <1>1, AppendProperties
<1>4. ASSUME NEW k \in 2 .. n + 1
      PROVE  /\ r[k - 1].pc > 1
             /\ LET c == InstrAt(p, <<r[k - 1].fn, r[k - 1].pc - 1>>)
                IN  c.op = "call" /\ c.fn = r[k].fn
  <2>1. k - 1 \in 1 .. n /\ r[k - 1] = s[k - 1]
    BY <1>2, <1>3, <1>4
  <2>2. CASE k = n + 1
    BY <1>1, <1>2, <1>3, <2>1, <2>2
  <2>3. CASE k # n + 1
    <3>1. k \in 1 .. n /\ k \in 2 .. n
      BY <1>2, <1>4, <2>3
    <3>2. QED
      BY <1>1, <1>3, <2>1, <3>1 DEF ChainedStack
  <2>4. QED
    BY <2>2, <2>3
<1>5. ChainedStack(r, p)
  BY <1>3, <1>4 DEF ChainedStack
<1>6. QED
  BY <1>1, <1>2, <1>3, <1>5

LEMMA ChainedReturn ==
  ASSUME NEW s \in Seq(Frame), NEW n \in Nat, n = Len(s), n > 1, NEW frame \in Frame, NEW p,
         ChainedStack(s, p), frame.fn = s[n - 1].fn, frame.pc = s[n - 1].pc
  PROVE  LET r == Append(SubSeq(s, 1, n - 2), frame)
         IN  r \in Seq(Frame) /\ ChainedStack(r, p) /\ Len(r) # 0 /\ r[Len(r)] = frame
<1>1. PICK r : r = Append(SubSeq(s, 1, n - 2), frame)
  OBVIOUS
<1>2. /\ SubSeq(s, 1, n - 2) \in Seq(Frame) /\ Len(SubSeq(s, 1, n - 2)) = n - 2
      /\ \A k \in 1 .. n - 2 : SubSeq(s, 1, n - 2)[k] = s[k]
  <2>1. ASSUME NEW m \in 0 .. n
        PROVE  /\ SubSeq(s, 1, m) \in Seq(Frame) /\ Len(SubSeq(s, 1, m)) = m
               /\ \A k \in 1 .. m : SubSeq(s, 1, m)[k] = s[k]
    BY <2>1
  <2>2. n - 2 \in 0 .. n
    OBVIOUS
  <2>3. QED
    BY <2>1, <2>2
<1>3. r \in Seq(Frame) /\ Len(r) = n - 1 /\ (\A k \in 1 .. n - 2 : r[k] = s[k]) /\ r[n - 1] = frame
  BY <1>1, <1>2, AppendProperties
<1>4. ASSUME NEW k \in 2 .. n - 1
      PROVE  r[k - 1] = s[k - 1] /\ r[k].fn = s[k].fn /\ k \in 2 .. n
  <2>1. k - 1 \in 1 .. n - 2 /\ (k = n - 1 \/ k \in 1 .. n - 2) /\ k \in 2 .. n
    BY <1>4
  <2>2. QED
    BY <1>3, <2>1
<1>5. ChainedStack(r, p)
  BY <1>3, <1>4 DEF ChainedStack
<1>6. QED
  BY <1>1, <1>3, <1>5

(* Where the thread that executes an instruction stands after it.          *)
Arrives(t, p) ==
  /\ ChainedStack(threadStacks'[t], p)
  /\ \/ threadStacks'[t] = threadStacks[t] /\ Instr(t).op = "join"
     \/ threadStacks'[t] = <<>>
     \/ threadStacks'[t] # <<>> /\ Leads(p, Here(t), Here(t)')

LEMMA ArrivesMoved ==
  ASSUME CInv, NEW p, NEW F, NEW R, FencedRun(p, F, R), NEW t \in Thread, t \in Active, NEW frame,
         \/ threadStacks' = WithTop(t, frame)
         \/ frame \in Frame /\ threadStacks'[t] = WithTop(t, frame)[t],
         Instr(t).op \notin {"call", "ret"}, frame.fn = Top(t).fn,
         frame.pc = Top(t).pc + 1 \/ (Instr(t).op = "br" /\ frame.pc = Instr(t).to)
  PROVE  Arrives(t, p)
<1>1. IInv /\ ChainedStack(threadStacks[t], p) /\ Instr(t) = InstrAt(p, Here(t))
  BY Standing, ChainedIs DEF CInv, FencedRun
<1>2. PICK n \in Nat \ {0} : n = Len(threadStacks[t])
  BY <1>1, TopType
<1>3. Len(threadStacks'[t]) = n /\ \A k \in 1 .. n : threadStacks'[t][k] = IF k = n THEN frame ELSE threadStacks[t][k]
  <2>1. CASE threadStacks' = WithTop(t, frame)
    BY <1>1, <1>2, <2>1, TopFrame
  <2>2. CASE frame \in Frame /\ threadStacks'[t] = WithTop(t, frame)[t]
    <3>1. threadStacks'[t] = [threadStacks[t] EXCEPT ![n] = frame] /\ threadStacks[t] \in Seq(Frame)
      BY <1>1, <1>2, <2>2 DEF WithTop, IInv, TypeOK
    <3>2. QED
      BY <1>2, <2>2, <3>1, ExceptSeq
  <2>3. QED
    BY <2>1, <2>2
<1>4. frame.fn = threadStacks[t][n].fn
  BY <1>2 DEF Top
<1>5. ChainedStack(threadStacks'[t], p) /\ threadStacks'[t][Len(threadStacks'[t])] = frame
  <2>1. PICK s, r : s = threadStacks[t] /\ r = threadStacks'[t]
    OBVIOUS
  <2>2. /\ ChainedStack(s, p) /\ Len(s) = n /\ Len(r) = n /\ frame.fn = s[n].fn
        /\ \A k \in 1 .. n : r[k] = IF k = n THEN frame ELSE s[k]
    BY <1>1, <1>2, <1>3, <1>4, <2>1
  <2>3. ChainedStack(r, p) /\ r[Len(r)] = frame
    BY <2>2, ChainedTop
  <2>4. QED
    BY <2>1, <2>3
<1>6. Top(t)' = frame
  BY <1>5 DEF Top
<1>7. threadStacks'[t] # <<>>
  BY <1>3, EmptySeq
<1>8. Here(t)' = <<Top(t).fn, frame.pc>> /\ Here(t)[1] = Top(t).fn /\ Here(t)[2] = Top(t).pc
  BY <1>6 DEF Here
<1>9. Leads(p, Here(t), Here(t)')
  BY <1>1, <1>8 DEF Leads
<1>10. QED
  BY <1>5, <1>7, <1>9 DEF Arrives

LEMMA ArrivesCalled ==
  ASSUME CInv, NEW p, NEW F, NEW R, FencedRun(p, F, R), NEW t \in Thread, t \in Active, Call(t)
  PROVE  Arrives(t, p)
<1>1. /\ IInv /\ ChainedStack(threadStacks[t], p) /\ Instr(t) = InstrAt(p, Here(t))
      /\ threadStacks \in [Thread -> Seq(Frame)]
      /\ Here(t)[1] = Top(t).fn /\ Here(t)[2] = Top(t).pc /\ Top(t).pc \in Nat \ {0}
  BY Standing, ChainedIs DEF CInv, FencedRun, IInv, TypeOK
<1>2. PICK n \in Nat \ {0} : n = Len(threadStacks[t])
  BY <1>1, TopType
<1>3. Top(t).acc \in Val /\ Instr(t).fn \in Fn /\ Instr(t).x \in Val /\ Instr(t).op = "call"
  BY <1>1, TopType DEF Frame, Instruction, Call, At
<1>4. PICK below \in Frame, frame \in Frame :
         below = Moved(Top(t), Top(t).pc + 1, Top(t).acc) /\ frame = NewFrame(Instr(t).fn, Instr(t).x)
  BY <1>1, <1>3, MovedFrame, NewFrameType
<1>5. below.fn = Top(t).fn /\ below.pc = Top(t).pc + 1 /\ frame.fn = Instr(t).fn /\ frame.pc = 1
  BY <1>4 DEF Moved, NewFrame
<1>6. PICK s : s = WithTop(t, below)[t]
  OBVIOUS
<1>7. s = [threadStacks[t] EXCEPT ![n] = below] /\ n \in 1 .. n
  BY <1>1, <1>2, <1>6 DEF WithTop
<1>8. /\ s \in Seq(Frame) /\ Len(s) = n
      /\ \A k \in 1 .. n : s[k] = IF k = n THEN below ELSE threadStacks[t][k]
  <2>1. threadStacks[t] \in Seq(Frame)
    BY <1>1
  <2>2. QED
    BY <1>2, <1>7, <2>1, ExceptSeq
<1>9. ChainedStack(s, p) /\ s[Len(s)] = below
  <2>1. PICK s0 : s0 = threadStacks[t]
    OBVIOUS
  <2>2. /\ ChainedStack(s0, p) /\ Len(s0) = n /\ below.fn = s0[n].fn
        /\ \A k \in 1 .. n : s[k] = IF k = n THEN below ELSE s0[k]
    BY <1>1, <1>2, <1>5, <1>8, <2>1 DEF Top
  <2>3. QED
    BY <1>8, <2>2, ChainedTop
<1>10. InstrAt(p, <<below.fn, below.pc - 1>>) = Instr(t) /\ below.pc > 1
  <2>1. (Top(t).pc + 1) - 1 = Top(t).pc /\ Top(t).pc + 1 > 1
    BY <1>1
  <2>2. QED
    BY <1>1, <1>5, <2>1 DEF Here
<1>11. s # <<>>
  BY <1>8, EmptySeq
<1>12. PICK r : r = Append(s, frame)
  OBVIOUS
<1>13. ChainedStack(r, p) /\ Len(r) # 0 /\ r[Len(r)] = frame
  BY <1>3, <1>5, <1>8, <1>9, <1>10, <1>11, <1>12, ChainedCall
<1>14. threadStacks'[t] = r
  BY <1>1, <1>4, <1>6, <1>12 DEF Call
<1>15. Top(t)' = frame /\ threadStacks'[t] # <<>>
  BY <1>13, <1>14, EmptySeq DEF Top
<1>16. Here(t)' = <<Instr(t).fn, 1>>
  BY <1>5, <1>15 DEF Here
<1>17. Leads(p, Here(t), Here(t)')
  BY <1>1, <1>3, <1>16 DEF Leads
<1>18. QED
  BY <1>13, <1>14, <1>15, <1>17 DEF Arrives

LEMMA ArrivesReturned ==
  ASSUME CInv, NEW p, NEW F, NEW R, FencedRun(p, F, R), NEW t \in Thread, t \in Active, Return(t)
  PROVE  Arrives(t, p)
<1>1. /\ IInv /\ ChainedStack(threadStacks[t], p) /\ Instr(t) = InstrAt(p, Here(t))
      /\ threadStacks \in [Thread -> Seq(Frame)]
      /\ Here(t)[1] = Top(t).fn /\ Here(t)[2] = Top(t).pc
  BY Standing, ChainedIs DEF CInv, FencedRun, IInv, TypeOK
<1>2. PICK n \in Nat \ {0} : n = Len(threadStacks[t])
  BY <1>1, TopType
<1>3. PICK s \in Seq(Frame) : s = threadStacks[t]
  BY <1>1
<1>4. PICK frame : frame = Moved(s[n - 1], s[n - 1].pc, Top(t).acc)
  OBVIOUS
<1>5. threadStacks'[t] = IF n = 1 THEN <<>> ELSE Append(SubSeq(s, 1, n - 2), frame)
  BY <1>1, <1>2, <1>3, <1>4 DEF Return
<1>6. CASE n = 1
  <2>1. threadStacks'[t] = <<>>
    BY <1>5, <1>6
  <2>2. Len(<<>>) = 0 /\ \A k : ~ (k \in 2 .. 0)
    OBVIOUS
  <2>3. QED
    BY <2>1, <2>2 DEF Arrives, ChainedStack
<1>7. CASE n # 1
  <2>1. n > 1 /\ n \in 2 .. n /\ n - 1 \in 1 .. n
    BY <1>7
  <2>2. s[n - 1] \in Frame /\ Top(t).acc \in Val /\ Top(t) = s[n] /\ Instr(t).op = "ret"
    BY <1>1, <1>2, <1>3, <2>1, ElementOfSeq, TopType DEF Frame, Top, Return, At
  <2>3. frame \in Frame /\ frame.fn = s[n - 1].fn /\ frame.pc = s[n - 1].pc
    BY <1>4, <2>2 DEF Moved, Frame
  <2>4. PICK r : r = Append(SubSeq(s, 1, n - 2), frame)
    OBVIOUS
  <2>5. ChainedStack(r, p) /\ Len(r) # 0 /\ r[Len(r)] = frame
    BY <1>1, <1>2, <1>3, <2>1, <2>3, <2>4, ChainedReturn
  <2>6. threadStacks'[t] = r
    BY <1>5, <1>7, <2>4
  <2>7. Top(t)' = frame /\ threadStacks'[t] # <<>>
    BY <2>5, <2>6, EmptySeq DEF Top
  <2>8. /\ frame.pc > 1
        /\ LET c == InstrAt(p, <<frame.fn, frame.pc - 1>>) IN c.op = "call" /\ c.fn = Top(t).fn
    BY <1>1, <1>2, <1>3, <2>1, <2>2, <2>3 DEF ChainedStack
  <2>9. Here(t)' = <<frame.fn, frame.pc>> /\ Here(t)'[1] = frame.fn /\ Here(t)'[2] = frame.pc
    BY <2>7 DEF Here
  <2>10. Leads(p, Here(t), Here(t)')
    BY <1>1, <2>2, <2>8, <2>9 DEF Leads
  <2>11. QED
    BY <2>5, <2>6, <2>7, <2>10 DEF Arrives
<1>8. QED
  BY <1>6, <1>7

LEMMA Arriving ==
  ASSUME CInv, NEW p, NEW F, NEW R, FencedRun(p, F, R), NEW t \in Thread, Execute(t)
  PROVE  Arrives(t, p)
<1>1. /\ IInv /\ t \in Active /\ ChainedStack(threadStacks[t], p)
      /\ Instr(t).op \notin {"malloc", "free", "alloca"}
      /\ threadStacks \in [Thread -> Seq(Frame)]
  BY ExecutesActive, Standing, ChainedIs DEF CInv, FencedRun, IInv, TypeOK
<1>2. CASE \/ StoreToMemory(t) \/ StoreToBuffer(t) \/ LoadFromBuffer(t) \/ LoadFromMemory(t)
           \/ LoadFault(t) \/ Membar_ss(t) \/ Membar_sl(t)
           \/ Cas32(t) \/ Cas32Fault(t) \/ CasPO(t) \/ FasPO(t)
           \/ SetValue(t) \/ Join(t) \/ AssertExist(t)
  <2>1. (\E v : Advance(t, v)) /\ Instr(t).op \notin {"call", "ret"}
    BY <1>2 DEF StoreToMemory, StoreToBuffer, LoadFromBuffer, LoadFromMemory, LoadFault, Membar_ss,
       Membar_sl, Cas32, Cas32Fault, CasPO, FasPO, SetValue, Join, AssertExist, Skip, At
  <2>2. PICK v : threadStacks' = WithTop(t, Moved(Top(t), Top(t).pc + 1, v))
    BY <2>1 DEF Advance
  <2>3. PICK frame : frame = Moved(Top(t), Top(t).pc + 1, v)
    OBVIOUS
  <2>4. frame.fn = Top(t).fn /\ frame.pc = Top(t).pc + 1
    BY <2>3 DEF Moved
  <2>5. QED
    BY <1>1, <2>1, <2>2, <2>3, <2>4, ArrivesMoved
<1>3. CASE Branch(t)
  <2>1. PICK frame : /\ frame = Moved(Top(t), IF Top(t).acc = Instr(t).x THEN Instr(t).to
                                                                       ELSE Top(t).pc + 1, Top(t).acc)
                     /\ threadStacks' = WithTop(t, frame)
    BY <1>3 DEF Branch
  <2>2. Instr(t).op = "br" /\ frame.fn = Top(t).fn /\ (frame.pc = Instr(t).to \/ frame.pc = Top(t).pc + 1)
    BY <1>3, <2>1 DEF Branch, At, Moved
  <2>3. QED
    BY <1>1, <2>1, <2>2, ArrivesMoved
<1>4. CASE Spawn(t)
  <2>1. Top(t).acc \in Val /\ Instr(t).op = "spawn" /\ nextThreadNum \in Thread /\ nextThreadNum # t
    <3>1. Top(t).acc \in Val /\ Instr(t).op = "spawn" /\ nextThreadNum \in Thread
      BY <1>1, <1>4, TopType DEF Frame, Spawn, At
    <3>2. t \in Nat /\ threadStacks[t] # <<>>
      BY <1>1, ThreadAssumption DEF Active
    <3>3. ~ (t >= nextThreadNum)
      BY <3>2 DEF FencedRun, Fresh
    <3>4. QED
      BY <3>1, <3>2, <3>3
  <2>2. PICK frame \in Frame : frame = Moved(Top(t), Top(t).pc + 1, Top(t).acc)
    BY <1>1, <2>1, MovedFrame
  <2>3. threadStacks'[t] = WithTop(t, frame)[t]
    BY <1>1, <1>4, <2>1, <2>2 DEF Spawn, WithTop
  <2>4. frame.fn = Top(t).fn /\ frame.pc = Top(t).pc + 1
    BY <2>2 DEF Moved
  <2>5. QED
    BY <1>1, <2>1, <2>3, <2>4, ArrivesMoved
<1>5. CASE JoinBlocked(t)
  BY <1>1, <1>5 DEF JoinBlocked, At, Arrives
<1>6. CASE Alloca(t) \/ Malloc(t) \/ Free(t) \/ FreeFault(t)
  BY <1>1, <1>6 DEF Alloca, Malloc, Free, FreeFault, At
<1>7. QED
  BY <1>1, <1>2, <1>3, <1>4, <1>5, <1>6, ArrivesCalled, ArrivesReturned DEF Execute

(* What an instruction drains it leaves in no buffer.                      *)
LEMMA EmptiesWhat ==
  ASSUME NEW t \in Thread, Execute(t)
  PROVE  /\ Instr(t).op \in {"membar_sl", "caspo"} => Empty(t, SLQueues)
         /\ Instr(t).op = "membar_ss" => Empty(t, SSQueues)
         /\ Instr(t).op = "cas32" => Empty(t, CASQueues(Instr(t).addr))
         /\ Instr(t).op = "faspo" => Empty(t, FASQueues)
BY DEF Execute, StoreToMemory, StoreToBuffer, LoadFromBuffer, LoadFromMemory, LoadFault,
   Membar_ss, Membar_sl, Cas32, Cas32Fault, CasPO, FasPO, Alloca, Malloc, Free, FreeFault,
   SetValue, Branch, Call, Return, Spawn, JoinBlocked, Join, AssertExist, At

LEMMA LeftUndrained ==
  ASSUME CInv, CInv', NEW t \in Thread, Execute(t), NEW q \in Queue,
         NEW k \in 1 .. Len(thread_buffer'[t][q]), NEW i, i.addr = thread_buffer'[t][q][k].addr
  PROVE  ~ Drains(i, Instr(t))
<1>1. thread_buffer'[t][q] # <<>>
  <2>1. Len(<<>>) = 0 /\ \A j : ~ (j \in 1 .. 0)
    OBVIOUS
  <2>2. QED
    BY <2>1
<1>2. WMM # "NONE"
  BY <1>1 DEF CInv, Unused, Queue
<1>3. thread_buffer \in [Thread -> [Queue -> Seq(Elem)]]
  BY DEF CInv, IInv, TypeOK
<1>4. ASSUME NEW Q, Empty(t, Q), q \in Q PROVE FALSE
  BY <1>1, <1>3, <1>4 DEF Empty
<1>5. QueueOf(i.addr) = q
  BY DEF CInv, Sorted, Queue, QueueOf
<1>6. CASE Instr(t).op \in {"membar_sl", "caspo"}
  BY <1>2, <1>4, <1>6, EmptiesWhat DEF SLQueues
<1>7. CASE Instr(t).op = "membar_ss"
  BY <1>4, <1>7, EmptiesWhat DEF SSQueues, Drains
<1>8. CASE Instr(t).op = "cas32"
  BY <1>2, <1>4, <1>5, <1>8, WMMAssumption, EmptiesWhat DEF CASQueues, QueueOf, Drains
<1>9. CASE Instr(t).op = "faspo"
  BY <1>4, <1>9, EmptiesWhat DEF FASQueues, Drains
<1>10. QED
  BY <1>6, <1>7, <1>8, <1>9 DEF Drains

LEMMA FromStoresOn ==
  ASSUME CInv, CInv', NEW p, NEW F, NEW R, FencedRun(p, F, R), NEW t \in Thread, Execute(t),
         Leads(p, Here(t), Here(t)'), Here(t)' \in Places(p, F)
  PROVE  FromStores(t, p, F, R)'
<1>1. t \in Active
  BY ExecutesActive
<1>2. /\ Here(t) \in Places(p, F) /\ Instr(t) = InstrAt(p, Here(t))
      /\ Net(p, F, R) /\ FromStores(t, p, F, R) /\ Buffering(t)
  BY <1>1, Standing, BuffersFrom DEF FencedRun, CInv
<1>3. ASSUME NEW n \in Places(p, F), InstrAt(p, n).op = "store", Here(t) = n \/ Here(t) \in R[n],
             ~ Drains(InstrAt(p, n), Instr(t))
      PROVE  Here(t)' \in R[n]
  <2>1. Here(t)' \in Onward(p, F, n, R[n])
    BY <1>2, <1>3 DEF Onward
  <2>2. QED
    BY <1>2, <1>3, <2>1 DEF Net
<1>4. ASSUME NEW q \in Queue, NEW k \in 1 .. Len(thread_buffer'[t][q])
      PROVE  \E n \in Places(p, F) :
               /\ InstrAt(p, n).op = "store" /\ InstrAt(p, n).addr = thread_buffer'[t][q][k].addr
               /\ Here(t)' \in R[n]
  <2>1. CASE Instr(t).op = "store" /\ thread_buffer'[t][q][k].addr = Instr(t).addr
    <3>1. ~ Drains(InstrAt(p, Here(t)), Instr(t))
      BY <1>2, <2>1, LeftUndrained
    <3>2. QED
      BY <1>2, <1>3, <2>1, <3>1
  <2>2. CASE \E l \in 1 .. Len(thread_buffer[t][q]) :
                thread_buffer'[t][q][k].addr = thread_buffer[t][q][l].addr
    <3>1. PICK l \in 1 .. Len(thread_buffer[t][q]) :
             thread_buffer'[t][q][k].addr = thread_buffer[t][q][l].addr
      BY <2>2
    <3>2. PICK n \in Places(p, F) :
             /\ InstrAt(p, n).op = "store" /\ InstrAt(p, n).addr = thread_buffer[t][q][l].addr
             /\ Here(t) \in R[n]
      BY <1>2 DEF FromStores
    <3>3. ~ Drains(InstrAt(p, n), Instr(t))
      BY <3>1, <3>2, LeftUndrained
    <3>4. QED
      BY <1>3, <3>1, <3>2, <3>3
  <2>3. QED
    BY <1>2, <2>1, <2>2 DEF Buffering
<1>5. QED
  BY <1>4 DEF FromStores, Queue

(* A thread that stays where it is, with no store more than it had.        *)
LEMMA FromStoresStay ==
  ASSUME NEW p, NEW F, NEW R, NEW u \in Thread, FromStores(u, p, F, R),
         threadStacks'[u] = threadStacks[u],
         \A q \in Queue : \A k \in 1 .. Len(thread_buffer'[u][q]) :
            \E l \in 1 .. Len(thread_buffer[u][q]) :
               thread_buffer'[u][q][k].addr = thread_buffer[u][q][l].addr
  PROVE  FromStores(u, p, F, R)'
<1>1. Here(u)' = Here(u)
  BY DEF Here, Top
<1>2. ASSUME NEW q \in Queue, NEW k \in 1 .. Len(thread_buffer'[u][q])
      PROVE  \E n \in Places(p, F) :
               /\ InstrAt(p, n).op = "store" /\ InstrAt(p, n).addr = thread_buffer'[u][q][k].addr
               /\ Here(u)' \in R[n]
  BY <1>1 DEF FromStores
<1>3. QED
  BY <1>2 DEF FromStores, Queue

LEMMA OtherStacks ==
  ASSUME IInv, NEW t \in Thread, Execute(t), NEW u \in Thread, u # t
  PROVE  /\ \/ threadStacks'[u] = threadStacks[u]
            \/ /\ Spawn(t) /\ u = nextThreadNum
               /\ \E frame : threadStacks'[u] = <<frame>>
         /\ nextThreadNum' = nextThreadNum \/ (Spawn(t) /\ nextThreadNum' = nextThreadNum + 1)
<1>1. threadStacks \in [Thread -> Seq(Frame)]
  BY DEF IInv, TypeOK
<1>2. CASE \/ StoreToMemory(t) \/ StoreToBuffer(t) \/ LoadFromBuffer(t) \/ LoadFromMemory(t)
           \/ LoadFault(t) \/ Membar_ss(t) \/ Membar_sl(t)
           \/ Cas32(t) \/ Cas32Fault(t) \/ CasPO(t) \/ FasPO(t) \/ Alloca(t)
           \/ Malloc(t) \/ Free(t) \/ SetValue(t) \/ Branch(t) \/ Join(t) \/ AssertExist(t)
  <2>1. (\E frame : threadStacks' = WithTop(t, frame)) /\ nextThreadNum' = nextThreadNum
    BY <1>2 DEF StoreToMemory, StoreToBuffer, LoadFromBuffer, LoadFromMemory, LoadFault, Membar_ss,
       Membar_sl, Cas32, Cas32Fault, CasPO, FasPO, Alloca, Malloc, Free, SetValue, Branch, Join,
       AssertExist, Skip, Advance
  <2>2. QED
    BY <1>1, <2>1 DEF WithTop
<1>3. CASE FreeFault(t) \/ JoinBlocked(t)
  BY <1>3 DEF FreeFault, JoinBlocked
<1>4. CASE Return(t)
  BY <1>1, <1>4 DEF Return
<1>5. CASE Call(t)
  BY <1>1, <1>5 DEF Call
<1>6. CASE Spawn(t)
  <2>1. PICK s, frame : s = WithTop(t, Moved(Top(t), Top(t).pc + 1, Top(t).acc))
                        /\ frame = NewFrame(Instr(t).fn, 0)
    OBVIOUS
  <2>2. threadStacks' = [s EXCEPT ![nextThreadNum] = <<frame>>] /\ nextThreadNum' = nextThreadNum + 1
        /\ nextThreadNum \in Thread
    BY <1>6, <2>1 DEF Spawn
  <2>3. s[u] = threadStacks[u] /\ DOMAIN s = Thread
    BY <1>1, <2>1 DEF WithTop
  <2>4. QED
    BY <1>6, <2>2, <2>3
<1>7. QED
  BY <1>2, <1>3, <1>4, <1>5, <1>6 DEF Execute

LEMMA ThreadsCounted ==
  ASSUME NEW t \in Thread, Execute(t)
  PROVE  /\ nextThreadNum' \in {nextThreadNum, nextThreadNum + 1}
         /\ Spawn(t) => nextThreadNum' = nextThreadNum + 1
<1>1. CASE Spawn(t)
  BY <1>1 DEF Spawn
<1>2. CASE ~ Spawn(t)
  BY <1>2 DEF Execute, StoreToMemory, StoreToBuffer, LoadFromBuffer, LoadFromMemory, LoadFault,
     Membar_ss, Membar_sl, Cas32, Cas32Fault, CasPO, FasPO, Alloca, Malloc, Free, FreeFault,
     SetValue, Branch, Call, Return, JoinBlocked, Join, AssertExist
<1>3. QED
  BY <1>1, <1>2

(* The place a running thread has come to.                                 *)
LEMMA Places1 ==
  ASSUME NEW p, NEW F
  PROVE  CInv /\ RunsIn(p, F) => \A t \in Thread : t \in Active => Here(t) \in Places(p, F)
BY Standing

LEMMA PlacesNext ==
  ASSUME NEW p, NEW F
  PROVE  (CInv /\ RunsIn(p, F) => \A t \in Thread : t \in Active => Here(t) \in Places(p, F))'
<1>1. CInv /\ RunsIn(p, F) => \A t \in Thread : t \in Active => Here(t) \in Places(p, F)
  BY Places1
<1>2. QED
  BY <1>1, PTL

LEMMA FencedInstruction ==
  ASSUME CInv, CInv', NEW p, NEW F, NEW R, FencedRun(p, F, R), RunsIn(p, F)', NEW t \in Thread, Execute(t)
  PROVE  FencedRun(p, F, R)'
<1>1. IInv /\ t \in Active /\ Arrives(t, p) /\ Buffering(t)
  BY ExecutesActive, Arriving, BuffersFrom DEF CInv
<1>2. nextThreadNum \in Nat /\ Thread \subseteq Nat
  BY <1>1, ThreadAssumption DEF IInv, TypeOK
<1>3. ASSUME NEW u \in Thread, u # t
      PROVE  thread_buffer'[u] = thread_buffer[u] /\
             \/ threadStacks'[u] = threadStacks[u]
             \/ Fresh(u) /\ u = nextThreadNum /\ \E frame : threadStacks'[u] = <<frame>>
  <2>1. thread_buffer'[u] = thread_buffer[u]
    BY <1>1, <1>3 DEF Buffering
  <2>2. u = nextThreadNum => Fresh(u)
    BY <1>2 DEF FencedRun
  <2>3. QED
    BY <1>1, <1>3, <2>1, <2>2, OtherStacks
<1>4. \A u \in Thread : Chained(u, p)'
  <2>1. Chained(t, p)'
    BY <1>1, ChainedIs DEF Arrives
  <2>2. ASSUME NEW u \in Thread, u # t, threadStacks'[u] = threadStacks[u]
        PROVE  Chained(u, p)'
    BY <2>2, ChainedIs DEF FencedRun
  <2>3. ASSUME NEW u \in Thread, NEW frame, threadStacks'[u] = <<frame>>
        PROVE  Chained(u, p)'
    <3>1. Len(<<frame>>) = 1 /\ \A k : ~ (k \in 2 .. 1)
      OBVIOUS
    <3>2. QED
      BY <2>3, <3>1, ChainedIs DEF ChainedStack
  <2>4. QED
    BY <1>3, <2>1, <2>2, <2>3
<1>5. \A u \in Thread : threadStacks'[u] # <<>> => FromStores(u, p, F, R)'
  <2>1. ASSUME threadStacks'[t] # <<>>
        PROVE  FromStores(t, p, F, R)'
    <3>1. CASE Leads(p, Here(t), Here(t)')
      <4>1. Here(t)' \in Places(p, F)
        BY <2>1, PlacesNext DEF Active
      <4>2. QED
        BY <3>1, <4>1, FromStoresOn
    <3>2. CASE threadStacks'[t] = threadStacks[t] /\ Instr(t).op = "join"
      <4>1. FromStores(t, p, F, R)
        BY <1>1 DEF FencedRun
      <4>2. QED
        BY <1>1, <3>2, <4>1, FromStoresStay DEF Buffering
    <3>3. QED
      BY <1>1, <2>1, <3>1, <3>2 DEF Arrives
  <2>2. ASSUME NEW u \in Thread, u # t, threadStacks'[u] = threadStacks[u], threadStacks'[u] # <<>>
        PROVE  FromStores(u, p, F, R)'
    <3>1. FromStores(u, p, F, R)
      BY <2>2 DEF FencedRun, Active
    <3>2. QED
      BY <1>3, <2>2, <3>1, FromStoresStay
  <2>3. ASSUME NEW u \in Thread, u # t, Fresh(u)
        PROVE  FromStores(u, p, F, R)'
    <3>1. Len(<<>>) = 0 /\ \A k : ~ (k \in 1 .. 0)
      OBVIOUS
    <3>2. QED
      BY <1>3, <2>3, <3>1 DEF FromStores, Fresh, Queue
  <2>4. QED
    BY <1>3, <2>1, <2>2, <2>3
<1>6. ASSUME NEW u \in Thread, u >= nextThreadNum'
      PROVE  Fresh(u)'
  <2>1. u >= nextThreadNum /\ (u # nextThreadNum \/ nextThreadNum' = nextThreadNum)
    BY <1>1, <1>2, <1>6, ThreadsCounted
  <2>2. Fresh(u) /\ u # t
    BY <1>1, <2>1 DEF FencedRun, Fresh, Active
  <2>3. threadStacks'[u] = threadStacks[u]
    <3>1. u = nextThreadNum => ~ Spawn(t)
      <4>1. nextThreadNum # nextThreadNum + 1
        BY <1>2
      <4>2. QED
        BY <1>1, <2>1, <4>1, ThreadsCounted
    <3>2. QED
      BY <1>1, <2>2, <3>1, OtherStacks
  <2>4. QED
    BY <1>3, <2>2, <2>3 DEF Fresh, Queue
<1>7. QED
  BY <1>4, <1>5, <1>6 DEF FencedRun, Active

(* The stacks stay, and no thread has a store more than it had.            *)
LEMMA FencedStay ==
  ASSUME NEW p, NEW F, NEW R, FencedRun(p, F, R), RunsIn(p, F)',
         UNCHANGED <<threadStacks, nextThreadNum>>,
         \A u \in Thread : u \notin Active => thread_buffer'[u] = thread_buffer[u],
         \A u \in Thread, q \in Queue : \A k \in 1 .. Len(thread_buffer'[u][q]) :
            \E l \in 1 .. Len(thread_buffer[u][q]) :
               thread_buffer'[u][q][k].addr = thread_buffer[u][q][l].addr
  PROVE  FencedRun(p, F, R)'
<1>1. \A u \in Active : FromStores(u, p, F, R)'
  BY FromStoresStay DEF FencedRun, Active
<1>2. \A u \in Thread : Chained(u, p)' /\ (u >= nextThreadNum => Fresh(u)')
  BY ChainedIs DEF FencedRun, Fresh, Queue, Active
<1>3. QED
  BY <1>1, <1>2 DEF FencedRun, Active

LEMMA FencedFlush ==
  ASSUME CInv, NEW p, NEW F, NEW R, FencedRun(p, F, R), RunsIn(p, F)', NEW t \in Thread, RandomFlush(t)
  PROVE  FencedRun(p, F, R)'
<1>1. t \in Active /\ UNCHANGED <<threadStacks, nextThreadNum>> /\ IInv
  BY FlushedOf DEF CInv
<1>2. CASE thread_buffer' = thread_buffer
  BY <1>1, <1>2, FencedStay
<1>3. ASSUME NEW q \in Queue, thread_buffer[t][q] # <<>>, FlushOne(t, q)
      PROVE  FencedRun(p, F, R)'
  <2>1. /\ \A u \in Thread \ {t} : thread_buffer'[u] = thread_buffer[u]
        /\ \A r \in Queue : \A k \in 1 .. Len(thread_buffer'[t][r]) :
              \E l \in 1 .. Len(thread_buffer[t][r]) :
                 thread_buffer'[t][r][k] = thread_buffer[t][r][l]
    BY <1>1, <1>3, BufferFlush
  <2>2. \A u \in Thread, r \in Queue : \A k \in 1 .. Len(thread_buffer'[u][r]) :
           \E l \in 1 .. Len(thread_buffer[u][r]) :
              thread_buffer'[u][r][k].addr = thread_buffer[u][r][l].addr
    <3>1. ASSUME NEW u \in Thread, u # t, NEW r \in Queue, NEW k \in 1 .. Len(thread_buffer'[u][r])
          PROVE  \E l \in 1 .. Len(thread_buffer[u][r]) :
                    thread_buffer'[u][r][k].addr = thread_buffer[u][r][l].addr
      <4>1. thread_buffer'[u][r] = thread_buffer[u][r]
        BY <2>1, <3>1
      <4>2. QED
        BY <4>1
    <3>2. ASSUME NEW r \in Queue, NEW k \in 1 .. Len(thread_buffer'[t][r])
          PROVE  \E l \in 1 .. Len(thread_buffer[t][r]) :
                    thread_buffer'[t][r][k].addr = thread_buffer[t][r][l].addr
      BY <2>1
    <3>3. ASSUME NEW u \in Thread, NEW r \in Queue, NEW k \in 1 .. Len(thread_buffer'[u][r])
          PROVE  \E l \in 1 .. Len(thread_buffer[u][r]) :
                    thread_buffer'[u][r][k].addr = thread_buffer[u][r][l].addr
      <4>1. CASE u # t
        BY <3>1, <4>1
      <4>2. CASE u = t
        BY <3>2, <4>2
      <4>3. QED
        BY <4>1, <4>2
    <3>4. QED
      BY <3>3
  <2>3. \A u \in Thread : u \notin Active => thread_buffer'[u] = thread_buffer[u]
    BY <1>1, <2>1
  <2>4. QED
    BY <1>1, <2>2, <2>3, FencedStay
<1>4. QED
  BY <1>2, <1>3, FlushedOf

FencedInv ==
  CInv /\ (program \in FencedPrograms => Serial /\ \E p, F, R : FencedRun(p, F, R))

LEMMA FencedStep ==
  ASSUME FencedInv, [Next]_vars
  PROVE  FencedInv' /\ [SCStep]_SCvars
<1>1. CInv /\ CInv' /\ program' = program
  BY CInvStep, ProgramStays DEF FencedInv
<1>2. ASSUME NEW p, NEW F, NEW R, FencedRun(p, F, R), Serial
      PROVE  FencedRun(p, F, R)' /\ SerialStep
  <2>1. RunsIn(p, F) /\ RunsIn(p, F)'
    BY <1>1, <1>2, RunsInStep DEF FencedRun
  <2>2. ASSUME NEW t \in Thread, Execute(t)
        PROVE  FencedRun(p, F, R)' /\ SerialStep
    <3>1. Unovertaken(t)
      BY <1>1, <1>2, <2>2, ExecutesActive, NothingOvertaken
    <3>2. QED
      BY <1>1, <1>2, <2>1, <2>2, <3>1, InstructionSerial, FencedInstruction
  <2>3. ASSUME NEW t \in Thread, RandomFlush(t)
        PROVE  FencedRun(p, F, R)' /\ SerialStep
    BY <1>1, <1>2, <2>1, <2>3, FlushSerial, FencedFlush
  <2>4. CASE Finish \/ UNCHANGED vars
    <3>1. UNCHANGED <<threadStacks, thread_buffer, nextThreadNum, mem, observed>>
      BY <2>4 DEF Finish, vars, buffers
    <3>2. QED
      BY <1>2, <2>1, <3>1, FencedStay, NothingMoves
  <2>5. QED
    BY <2>2, <2>3, <2>4 DEF Next
<1>3. SCStep1 => [SCStep]_SCvars
  BY DEF SCStep1, SCStep, SCvars, SC!vars, SCpend, Line
<1>4. CASE program \in FencedPrograms
  <2>1. Serial /\ \E p, F, R : FencedRun(p, F, R)
    BY <1>4 DEF FencedInv
  <2>2. Serial' /\ (\E p, F, R : FencedRun(p, F, R)') /\ SCStep1
    BY <1>2, <2>1 DEF SerialStep
  <2>3. QED
    BY <1>1, <1>3, <2>2 DEF FencedInv
<1>5. CASE program \notin FencedPrograms
  <2>1. program' \notin FencedPrograms
    BY <1>1, <1>5
  <2>2. FencedInv'
    BY <1>1, <2>1 DEF FencedInv
  <2>3. SCStep
    BY <1>5 DEF SCStep
  <2>4. QED
    BY <2>2, <2>3
<1>6. QED
  BY <1>4, <1>5

-----------------------------------------------------------------------------
(* The start of a run.                                                     *)

LEMMA StartedOn ==
  ASSUME Started, NEW F, F \subseteq Fn, RunsOnly(program, F), OnGlobals(program, F)
  PROVE  (\E p : RunsIn(p, F) /\ p = program) /\ Serial
<1>1. /\ program \in DOMAIN Code
      /\ threadStacks = [t \in Thread |-> IF t = 1 THEN <<NewFrame(Main, 0)>> ELSE <<>>]
      /\ heap = Globals
      /\ thread_buffer = [t \in Thread |-> [q \in Queue |-> <<>>]]
  BY DEF Started
<1>2. PICK p : p = program
  OBVIOUS
<1>3. \A e : Len(<<e>>) = 1 /\ <<e>>[1] = e /\ \A k \in 1 .. 1 : k = 1
  OBVIOUS
<1>4. Len(<<>>) = 0 /\ \A k : ~ (k \in 1 .. 0)
  OBVIOUS
<1>5. ASSUME NEW u \in Thread, NEW k \in 1 .. Len(threadStacks[u])
      PROVE  threadStacks[u][k] = NewFrame(Main, 0)
  <2>1. u = 1
    BY <1>1, <1>4, <1>5
  <2>2. QED
    BY <1>1, <1>3, <1>5, <2>1
<1>6. \A u \in Thread, q \in Queue : thread_buffer[u][q] = <<>>
  BY <1>1
<1>7. Main \in F
  BY DEF RunsOnly
<1>8. RunsIn(p, F)
  BY <1>1, <1>2, <1>4, <1>5, <1>6, <1>7 DEF RunsIn, NewFrame
<1>9. Serial
  BY <1>6 DEF Serial
<1>10. QED
  BY <1>2, <1>8, <1>9

LEMMA FencedInit ==
  ASSUME Init
  PROVE  FencedInv /\ SC!Init
<1>1. CInv
  BY InitMaps
<1>2. /\ Started /\ program \in DOMAIN Code
      /\ threadStacks = [t \in Thread |-> IF t = 1 THEN <<NewFrame(Main, 0)>> ELSE <<>>]
      /\ nextThreadNum = 2 /\ heap = Globals /\ mem = [a \in Addr |-> 0]
      /\ thread_buffer = [t \in Thread |-> [q \in Queue |-> <<>>]]
      /\ observed = [t \in Thread |-> Seen(NoLoc, 0)]
  BY DEF Init, Started
<1>3. ASSUME program \in FencedPrograms
      PROVE  Serial /\ \E p, F, R : FencedRun(p, F, R)
  <2>1. PICK F \in SUBSET Fn : RunsOnly(program, F) /\ OnGlobals(program, F) /\ Fenced(program, F)
    BY <1>3 DEF FencedPrograms
  <2>2. PICK p : RunsIn(p, F) /\ p = program
    BY <1>2, <2>1, StartedOn
  <2>3. PICK R : R = [n \in Places(p, F) |-> Reached(p, F, n)]
    OBVIOUS
  <2>4. Net(p, F, R)
    <3>1. \A n \in Places(p, F) : R[n] = Reached(p, F, n)
      BY <2>3
    <3>2. QED
      BY <2>1, <2>2, <3>1 DEF Net, Fenced
  <2>5. Len(<<>>) = 0 /\ \A k : ~ (k \in 1 .. 0) /\ ~ (k \in 2 .. 0) /\ ~ (k \in 2 .. 1)
    OBVIOUS
  <2>6. \A e : Len(<<e>>) = 1
    OBVIOUS
  <2>7. \A u \in Thread : Chained(u, p)
    BY <1>2, <2>5, <2>6, ChainedIs DEF ChainedStack
  <2>8. \A u \in Thread : FromStores(u, p, F, R)
    BY <1>2, <2>5 DEF FromStores
  <2>9. ASSUME NEW t \in Thread, t >= nextThreadNum
        PROVE  Fresh(t)
    <3>1. t # 1
      BY <1>2, <2>9
    <3>2. QED
      BY <1>2, <3>1 DEF Fresh
  <2>10. FencedRun(p, F, R)
    BY <2>2, <2>4, <2>7, <2>8, <2>9 DEF FencedRun, Active
  <2>11. QED
    BY <1>2, <2>1, <2>10, StartedOn
<1>4. SC!Init
  BY <1>2 DEF SC!Init, Seen
<1>5. QED
  BY <1>1, <1>3, <1>4 DEF FencedInv

(***************************************************************************)
(* A program that has a fence wherever an instruction could overtake a     *)
(* store is sequentially consistent, under TSO and PSO, for any number of  *)
(* threads and addresses, however the scheduler flushes: what the fences   *)
(* that InsertFences puts in are for (Constraints.cpp, membar_ss,          *)
(* membar_sl, visitCAS, visitCASPO).                                       *)
(***************************************************************************)
THEOREM FencesRestoreSC == Spec => FencedProgramsAreSC
<1>1. Init => FencedInv /\ SC!Init
  BY FencedInit
<1>2. FencedInv /\ [Next]_vars => FencedInv' /\ [SCStep]_SCvars
  BY FencedStep
<1>3. QED
  BY <1>1, <1>2, PTL DEF Spec, FencedProgramsAreSC
=============================================================================
