-------------------------- MODULE CoherenceProofs --------------------------
(***************************************************************************)
(* The interpreter implements CoherentMemory, for every program, memory    *)
(* model, number of threads and of addresses, as long as the program is    *)
(* Orderly: each step is a step of the abstract memory, or leaves its      *)
(* variables alone.                                                        *)
(*                                                                         *)
(* Besides the types the mapping needs to know where a buffered store is:  *)
(* in the queue of its address, and nowhere under NONE. Then the stores of *)
(* a thread to one address are a part of one queue, and their numbers are  *)
(* their order.                                                            *)
(***************************************************************************)
EXTENDS MemoryModels, InterpreterProofs

Sorted ==
  \A t \in Thread, q \in Queue : \A k \in 1 .. Len(thread_buffer[t][q]) :
     QueueOf(thread_buffer[t][q][k].addr) = q

Unused == WMM = "NONE" => \A t \in Thread, q \in Queue : thread_buffer[t][q] = <<>>

CInv == IInv /\ Sorted /\ Unused

(* The pending stores of the queues in Q.                                  *)
PendingIn(t, Q) ==
  UNION {{Numbering(t, q, k) : k \in 1 .. Len(thread_buffer[t][q])} : q \in Queue \cap Q}

Live == {a \in Addr : Allocated(a)}

-----------------------------------------------------------------------------
(* Pending stores.                                                         *)

LEMMA AllPending ==
  ASSUME NEW t \in Thread, NEW e
  PROVE  e \in Pending(t) <=>
            \E q \in Queue : \E k \in 1 .. Len(thread_buffer[t][q]) : e = Numbering(t, q, k)
BY DEF Pending

LEMMA InPending ==
  ASSUME NEW t \in Thread, NEW Q, NEW e
  PROVE  e \in PendingIn(t, Q) <=>
            \E q \in Queue \cap Q : \E k \in 1 .. Len(thread_buffer[t][q]) : e = Numbering(t, q, k)
BY DEF PendingIn

LEMMA NumberingType ==
  ASSUME CInv, NEW t \in Thread, NEW q \in Queue, NEW k \in 1 .. Len(thread_buffer[t][q])
  PROVE  /\ Numbering(t, q, k).addr = thread_buffer[t][q][k].addr
         /\ Numbering(t, q, k).addr \in Addr
         /\ QueueOf(Numbering(t, q, k).addr) = q
         /\ Numbering(t, q, k).val = thread_buffer[t][q][k].val
         /\ Numbering(t, q, k).val \in Val
         /\ Numbering(t, q, k).at = Len(retired[t][q]) + k
         /\ Len(retired[t][q]) \in Nat
         /\ Len(thread_buffer[t][q]) \in Nat
<1>1. thread_buffer[t][q] \in Seq(Elem) /\ retired[t][q] \in Seq(Elem)
  BY QueueType DEF CInv, IInv
<1>2. thread_buffer[t][q][k] \in Elem
  BY <1>1, ElementOfSeq
<1>3. QED
  BY <1>1, <1>2, LenProperties DEF Numbering, Elem, CInv, Sorted

(* A thread's pending stores to an address are those its queue holds.      *)
LEMMA OwnStores ==
  ASSUME CInv, NEW t \in Thread, NEW Q, NEW a \in Addr, NEW e
  PROVE  /\ e \in Coherent!To(Pending(t), a) <=>
              \E k \in Own(t, a) : e = Numbering(t, QueueOf(a), k)
         /\ e \in Coherent!To(PendingIn(t, Q), a) <=>
              QueueOf(a) \in Q /\ \E k \in Own(t, a) : e = Numbering(t, QueueOf(a), k)
<1>1. QueueOf(a) \in Queue
  BY QueueOfType
<1>2. ASSUME NEW q \in Queue, NEW k \in 1 .. Len(thread_buffer[t][q]), Numbering(t, q, k).addr = a
      PROVE  q = QueueOf(a) /\ k \in Own(t, a)
  BY <1>2, NumberingType DEF Own
<1>3. ASSUME NEW k \in Own(t, a)
      PROVE  k \in 1 .. Len(thread_buffer[t][QueueOf(a)]) /\ Numbering(t, QueueOf(a), k).addr = a
  BY <1>1, NumberingType DEF Own
<1>4. e \in Coherent!To(Pending(t), a) <=> \E k \in Own(t, a) : e = Numbering(t, QueueOf(a), k)
  BY <1>1, <1>2, <1>3, AllPending, InPending DEF Coherent!To
<1>5. e \in Coherent!To(PendingIn(t, Q), a) <=>
        QueueOf(a) \in Q /\ \E k \in Own(t, a) : e = Numbering(t, QueueOf(a), k)
  BY <1>1, <1>2, <1>3, AllPending, InPending DEF Coherent!To
<1>6. QED
  BY <1>4, <1>5

LEMMA LastIsNewest ==
  ASSUME CInv, NEW t \in Thread, NEW a \in Addr, Own(t, a) # {},
         NEW S, \A e : e \in S <=> \E k \in Own(t, a) : e = Numbering(t, QueueOf(a), k)
  PROVE  Coherent!Last(S).val = Newest(t, a)
<1> DEFINE q == QueueOf(a)
           b == thread_buffer[t][q]
<1>1. q \in Queue
  BY QueueOfType
<1>2. b \in Seq(Elem) /\ Len(b) \in Nat
  BY <1>1, QueueType, LenProperties DEF CInv, IInv
<1>3. Own(t, a) \in SUBSET (1 .. Len(b))
  BY DEF Own
<1>4. PICK n \in Own(t, a) : \A j \in Own(t, a) : j <= n
  BY <1>2, <1>3, MaximumExists
<1>5. \A m \in Own(t, a) : (\A j \in Own(t, a) : j <= m) => m = n
  BY <1>2, <1>3, <1>4
<1>6. Newest(t, a) = b[n].val
  BY <1>4, <1>5 DEF Newest
<1>7. \A k \in Own(t, a) : /\ Numbering(t, q, k).at = Len(retired[t][q]) + k
                           /\ Numbering(t, q, k).val = b[k].val
                           /\ Len(retired[t][q]) \in Nat /\ k \in Nat
  BY <1>1, <1>2, <1>3, NumberingType
<1> HIDE DEF q, b
<1>8. Numbering(t, q, n) \in S /\ \A d \in S : d.at <= Numbering(t, q, n).at
  BY <1>4, <1>7 DEF q
<1>9. ASSUME NEW e \in S, \A d \in S : d.at <= e.at
      PROVE  e.val = b[n].val
  <2>1. PICK k \in Own(t, a) : e = Numbering(t, q, k)
    BY DEF q
  <2>2. Len(retired[t][q]) + n <= Len(retired[t][q]) + k
    BY <1>4, <1>7, <1>8, <1>9, <2>1
  <2>3. k = n
    BY <1>4, <1>7, <2>2
  <2>4. QED
    BY <1>7, <2>1, <2>3
<1>10. Coherent!Last(S) \in S /\ \A d \in S : d.at <= Coherent!Last(S).at
  BY <1>8 DEF Coherent!Last
<1>11. QED
  BY <1>6, <1>9, <1>10

-----------------------------------------------------------------------------
(* Making stores visible: all of some queues, or the oldest of one.        *)

LEMMA MemoryAfter ==
  ASSUME CInv, NEW t \in Thread, NEW Q, ~ FlushFaults(t, Q)
  PROVE  Coherent!MemAfter(PendingIn(t, Q)) = Flushed(t, Q)
<1>1. ASSUME NEW a \in Addr
      PROVE  (IF Coherent!To(PendingIn(t, Q), a) = {} THEN mem[a]
              ELSE Coherent!Last(Coherent!To(PendingIn(t, Q), a)).val)
               = IF QueueOf(a) \in Q /\ Own(t, a) # {} /\ Storable(a) THEN Newest(t, a) ELSE mem[a]
  <2> DEFINE S == Coherent!To(PendingIn(t, Q), a)
  <2>1. \A e : e \in S <=> QueueOf(a) \in Q /\ \E k \in Own(t, a) : e = Numbering(t, QueueOf(a), k)
    BY OwnStores
  <2>2. CASE QueueOf(a) \in Q /\ Own(t, a) # {}
    <3>1. Storable(a)
      BY <2>2 DEF FlushFaults
    <3>2. S # {}
      BY <2>1, <2>2
    <3>3. Coherent!Last(S).val = Newest(t, a)
      BY <2>1, <2>2, LastIsNewest
    <3>4. QED
      BY <2>2, <3>1, <3>2, <3>3
  <2>3. CASE ~ (QueueOf(a) \in Q /\ Own(t, a) # {})
    <3>1. S = {}
      BY <2>1, <2>3
    <3>2. QED
      BY <2>3, <3>1
  <2>4. QED
    BY <2>2, <2>3
<1>2. QED
  BY <1>1 DEF Coherent!MemAfter, Flushed

LEMMA MemoryAfterAll ==
  ASSUME CInv, NEW t \in Thread, NEW a \in Addr
  PROVE  Coherent!MemAfter(Pending(t))[a] = IF Own(t, a) = {} THEN mem[a] ELSE Newest(t, a)
<1> DEFINE S == Coherent!To(Pending(t), a)
<1>1. \A e : e \in S <=> \E k \in Own(t, a) : e = Numbering(t, QueueOf(a), k)
  BY OwnStores
<1>2. S = {} <=> Own(t, a) = {}
  BY <1>1
<1>3. Own(t, a) # {} => Coherent!Last(S).val = Newest(t, a)
  BY <1>1, LastIsNewest
<1>4. Coherent!MemAfter(Pending(t))[a] = IF S = {} THEN mem[a] ELSE Coherent!Last(S).val
  BY DEF Coherent!MemAfter
<1>5. QED
  BY <1>2, <1>3, <1>4

LEMMA QueuesCommittable ==
  ASSUME CInv, NEW t \in Thread, NEW Q
  PROVE  PendingIn(t, Q) \in Coherent!Committable(t)
<1>1. PendingIn(t, Q) \subseteq Pending(t)
  BY AllPending, InPending
<1>2. ASSUME NEW e \in PendingIn(t, Q), NEW d \in Pending(t), d.addr = e.addr
      PROVE  d \in PendingIn(t, Q)
  <2>1. PICK q \in Queue \cap Q : \E k \in 1 .. Len(thread_buffer[t][q]) : e = Numbering(t, q, k)
    BY InPending
  <2>2. PICK r \in Queue : \E k \in 1 .. Len(thread_buffer[t][r]) : d = Numbering(t, r, k)
    BY AllPending
  <2>3. r = q
    BY <1>2, <2>1, <2>2, NumberingType
  <2>4. QED
    BY <2>1, <2>2, <2>3, InPending
<1>3. QED
  BY <1>1, <1>2 DEF Coherent!Committable

(* The pending stores of a thread are a matter of its queues.              *)
LEMMA SamePending ==
  ASSUME NEW t \in Thread, thread_buffer'[t] = thread_buffer[t], retired'[t] = retired[t]
  PROVE  Pending(t)' = Pending(t)
BY DEF Pending, Numbering

LEMMA EmptiedPending ==
  ASSUME CInv, NEW t \in Thread, NEW Q, Empty(t, Q)
  PROVE  /\ \A u \in Thread \ {t} : Pending(u)' = Pending(u)
         /\ Pending(t)' = Pending(t) \ PendingIn(t, Q)
<1>1. /\ thread_buffer \in [Thread -> [Queue -> Seq(Elem)]]
      /\ retired \in [Thread -> [Queue -> Seq(Elem)]]
  BY DEF CInv, IInv, TypeOK
<1>2. /\ \A u \in Thread \ {t} : thread_buffer'[u] = thread_buffer[u] /\ retired'[u] = retired[u]
      /\ \A q \in Queue : thread_buffer'[t][q] = IF q \in Q THEN <<>> ELSE thread_buffer[t][q]
      /\ \A q \in Queue : q \notin Q => retired'[t][q] = retired[t][q]
  BY <1>1 DEF Empty
<1>3. \A u \in Thread \ {t} : Pending(u)' = Pending(u)
  BY <1>2, SamePending
<1>4. ASSUME NEW e PROVE e \in Pending(t)' <=>
         \E q \in Queue : \E k \in 1 .. Len(thread_buffer'[t][q]) :
            e = [addr |-> thread_buffer'[t][q][k].addr, at |-> Len(retired'[t][q]) + k,
                 val |-> thread_buffer'[t][q][k].val]
  BY DEF Pending, Numbering
<1>5. Len(<<>>) = 0 /\ \A k : ~ (k \in 1 .. 0)
  OBVIOUS
<1>6. ASSUME NEW e PROVE e \in Pending(t)' <=>
         \E q \in Queue \ Q : \E k \in 1 .. Len(thread_buffer[t][q]) : e = Numbering(t, q, k)
  <2>1. ASSUME NEW q \in Queue, q \in Q, NEW k \in 1 .. Len(thread_buffer'[t][q])
        PROVE FALSE
    BY <1>2, <1>5, <2>1
  <2>2. ASSUME NEW q \in Queue \ Q
        PROVE  /\ thread_buffer'[t][q] = thread_buffer[t][q]
               /\ \A k : Numbering(t, q, k) =
                     [addr |-> thread_buffer'[t][q][k].addr, at |-> Len(retired'[t][q]) + k,
                      val |-> thread_buffer'[t][q][k].val]
    BY <1>2 DEF Numbering
  <2>3. CASE e \in Pending(t)'
    <3>1. PICK q \in Queue : \E k \in 1 .. Len(thread_buffer'[t][q]) :
             e = [addr |-> thread_buffer'[t][q][k].addr, at |-> Len(retired'[t][q]) + k,
                  val |-> thread_buffer'[t][q][k].val]
      BY <1>4, <2>3
    <3>2. q \notin Q
      BY <2>1, <3>1
    <3>3. QED
      BY <2>2, <2>3, <3>1, <3>2
  <2>4. CASE \E q \in Queue \ Q : \E k \in 1 .. Len(thread_buffer[t][q]) : e = Numbering(t, q, k)
    <3>1. PICK q \in Queue \ Q : \E k \in 1 .. Len(thread_buffer[t][q]) : e = Numbering(t, q, k)
      BY <2>4
    <3>2. PICK k \in 1 .. Len(thread_buffer[t][q]) : e = Numbering(t, q, k)
      BY <3>1
    <3>3. thread_buffer'[t][q] = thread_buffer[t][q]
      BY <2>2
    <3>4. k \in 1 .. Len(thread_buffer'[t][q])
      BY <3>2, <3>3
    <3>5. e = [addr |-> thread_buffer'[t][q][k].addr, at |-> Len(retired'[t][q]) + k,
               val |-> thread_buffer'[t][q][k].val]
      BY <2>2, <3>2
    <3>6. e \in Pending(t)'
      BY <1>4, <3>4, <3>5
    <3>7. QED
      BY <2>4, <3>6
  <2>5. QED
    BY <2>3, <2>4
<1>7. ASSUME NEW e PROVE e \in Pending(t)' <=> e \in Pending(t) /\ e \notin PendingIn(t, Q)
  <2>1. ASSUME NEW q \in Queue \ Q, NEW k \in 1 .. Len(thread_buffer[t][q]),
               NEW r \in Queue \cap Q, NEW l \in 1 .. Len(thread_buffer[t][r])
        PROVE  Numbering(t, q, k) # Numbering(t, r, l)
    BY NumberingType
  <2>2. QED
    BY <1>6, <2>1, AllPending, InPending
<1>8. QED
  BY <1>3, <1>7

LEMMA OldestPending ==
  ASSUME CInv, NEW t \in Thread, NEW q \in Queue, thread_buffer[t][q] # <<>>, FlushOne(t, q),
         NEW e, e = Numbering(t, q, 1)
  PROVE  /\ \A u \in Thread \ {t} : Pending(u)' = Pending(u)
         /\ Pending(t)' = Pending(t) \ {e}
         /\ {e} \in Coherent!Committable(t)
         /\ Head(thread_buffer[t][q]).addr = e.addr /\ Head(thread_buffer[t][q]).val = e.val
<1> DEFINE b == thread_buffer[t][q]
           r == retired[t][q]
<1>1. /\ thread_buffer \in [Thread -> [Queue -> Seq(Elem)]]
      /\ retired \in [Thread -> [Queue -> Seq(Elem)]]
      /\ b \in Seq(Elem) /\ r \in Seq(Elem) /\ b # <<>>
  BY DEF CInv, IInv, TypeOK
<1>2. /\ \A u \in Thread \ {t} : thread_buffer'[u] = thread_buffer[u] /\ retired'[u] = retired[u]
      /\ thread_buffer'[t][q] = Tail(b) /\ retired'[t][q] = Append(r, Head(b))
      /\ \A p \in Queue \ {q} : thread_buffer'[t][p] = thread_buffer[t][p]
                                /\ retired'[t][p] = retired[t][p]
  BY <1>1 DEF FlushOne
<1> HIDE DEF b, r
<1>3. /\ Len(b) \in Nat /\ Len(b) >= 1 /\ Len(r) \in Nat
      /\ Head(b) = b[1]
      /\ Len(Tail(b)) = Len(b) - 1
      /\ \A k \in 1 .. Len(b) - 1 : Tail(b)[k] = b[k + 1]
      /\ Len(Append(r, Head(b))) = Len(r) + 1
  BY <1>1
<1>4. \A u \in Thread \ {t} : Pending(u)' = Pending(u)
  BY <1>2, SamePending
<1>5. ASSUME NEW x PROVE x \in Pending(t)' <=>
         \E p \in Queue : \E k \in 1 .. Len(thread_buffer'[t][p]) :
            x = [addr |-> thread_buffer'[t][p][k].addr, at |-> Len(retired'[t][p]) + k,
                 val |-> thread_buffer'[t][p][k].val]
  BY DEF Pending, Numbering
<1>6. ASSUME NEW k \in 1 .. Len(b) - 1
      PROVE  [addr |-> Tail(b)[k].addr, at |-> Len(Append(r, Head(b))) + k, val |-> Tail(b)[k].val]
               = Numbering(t, q, k + 1)
  <2>1. /\ Tail(b)[k] = b[k + 1]
        /\ Len(Append(r, Head(b))) + k = Len(r) + (k + 1)
    BY <1>3
  <2>2. QED
    BY <2>1 DEF Numbering, b, r
<1>7. ASSUME NEW x PROVE x \in Pending(t)' <=>
         \/ \E p \in Queue \ {q} : \E k \in 1 .. Len(thread_buffer[t][p]) : x = Numbering(t, p, k)
         \/ \E k \in 1 .. Len(b) - 1 : x = Numbering(t, q, k + 1)
  <2>1. (\E k \in 1 .. Len(thread_buffer'[t][q]) :
            x = [addr |-> thread_buffer'[t][q][k].addr, at |-> Len(retired'[t][q]) + k,
                 val |-> thread_buffer'[t][q][k].val])
          <=> \E k \in 1 .. Len(b) - 1 : x = Numbering(t, q, k + 1)
    <3>1. thread_buffer'[t][q] = Tail(b) /\ retired'[t][q] = Append(r, Head(b))
          /\ Len(Tail(b)) = Len(b) - 1
      BY <1>2, <1>3
    <3>2. \A k \in 1 .. Len(b) - 1 :
             [addr |-> thread_buffer'[t][q][k].addr, at |-> Len(retired'[t][q]) + k,
              val |-> thread_buffer'[t][q][k].val] = Numbering(t, q, k + 1)
      BY <1>6, <3>1
    <3>3. 1 .. Len(thread_buffer'[t][q]) = 1 .. Len(b) - 1
      BY <3>1
    <3>4. QED
      BY <3>2, <3>3
  <2>2. ASSUME NEW p \in Queue \ {q}
        PROVE  (\E k \in 1 .. Len(thread_buffer'[t][p]) :
                   x = [addr |-> thread_buffer'[t][p][k].addr, at |-> Len(retired'[t][p]) + k,
                        val |-> thread_buffer'[t][p][k].val])
                 <=> \E k \in 1 .. Len(thread_buffer[t][p]) : x = Numbering(t, p, k)
    BY <1>2 DEF Numbering
  <2>3. QED
    BY <1>5, <2>1, <2>2
<1>8. ASSUME NEW x PROVE (\E k \in 1 .. Len(b) - 1 : x = Numbering(t, q, k + 1))
                           <=> \E k \in 1 .. Len(b) : k # 1 /\ x = Numbering(t, q, k)
  <2>1. \A k \in 1 .. Len(b) - 1 : k + 1 \in 1 .. Len(b) /\ k + 1 # 1
    BY <1>3
  <2>2. \A k \in 1 .. Len(b) : k # 1 => k - 1 \in 1 .. Len(b) - 1 /\ (k - 1) + 1 = k
    BY <1>3
  <2>3. QED
    BY <2>1, <2>2
<1>9. ASSUME NEW p \in Queue, NEW k \in 1 .. Len(thread_buffer[t][p]), p # q \/ k # 1
      PROVE  Numbering(t, p, k) # e
  <2>1. 1 \in 1 .. Len(thread_buffer[t][q])
    BY <1>3 DEF b
  <2>2. CASE p # q
    BY <2>1, <2>2, NumberingType
  <2>3. CASE p = q
    <3>1. Numbering(t, q, k).at = Len(r) + k /\ e.at = Len(r) + 1
      BY <2>1, <2>3, NumberingType DEF r
    <3>2. Len(r) + k # Len(r) + 1
      BY <1>3, <1>9, <2>3
    <3>3. QED
      BY <2>3, <3>1, <3>2
  <2>4. QED
    BY <2>2, <2>3
<1>10. ASSUME NEW x PROVE x \in Pending(t)' <=> x \in Pending(t) /\ x # e
  <2>1. x \in Pending(t) <=> \E p \in Queue : \E k \in 1 .. Len(thread_buffer[t][p]) : x = Numbering(t, p, k)
    BY AllPending
  <2>2. x \in Pending(t)' <=>
         \/ \E p \in Queue \ {q} : \E k \in 1 .. Len(thread_buffer[t][p]) : x = Numbering(t, p, k)
         \/ \E k \in 1 .. Len(thread_buffer[t][q]) : k # 1 /\ x = Numbering(t, q, k)
    BY <1>7, <1>8 DEF b
  <2>3. QED
    BY <1>9, <2>1, <2>2
<1>11. e \in Pending(t)
  BY <1>3, AllPending DEF b
<1>12. ASSUME NEW d \in Pending(t), d.addr = e.addr
       PROVE  ~ (d.at < e.at)
  <2>1. PICK p \in Queue : \E k \in 1 .. Len(thread_buffer[t][p]) : d = Numbering(t, p, k)
    BY AllPending
  <2>2. PICK k \in 1 .. Len(thread_buffer[t][p]) : d = Numbering(t, p, k)
    BY <2>1
  <2>3. 1 \in 1 .. Len(thread_buffer[t][q])
    BY <1>3 DEF b
  <2>4. p = q
    BY <1>12, <2>2, <2>3, NumberingType
  <2>5. d.at = Len(r) + k /\ e.at = Len(r) + 1
    BY <2>2, <2>3, <2>4, NumberingType DEF r
  <2>6. k \in Nat /\ k >= 1
    BY <1>3, <2>4 DEF b
  <2>7. QED
    BY <1>3, <2>5, <2>6
<1>13. {e} \in Coherent!Committable(t)
  BY <1>11, <1>12 DEF Coherent!Committable
<1>14. Head(b).addr = e.addr /\ Head(b).val = e.val
  BY <1>3 DEF Numbering, b
<1>15. Pending(t)' = Pending(t) \ {e}
  BY <1>10
<1>16. QED
  BY <1>4, <1>13, <1>14, <1>15 DEF b

-----------------------------------------------------------------------------
(* The invariant of the mapping.                                           *)

LEMMA SortedKept ==
  ASSUME CInv, program' = program,
         \/ UNCHANGED thread_buffer
         \/ \E t \in Thread : \E Q : Empty(t, Q)
         \/ \E t \in Thread, q \in Queue : thread_buffer[t][q] # <<>> /\ FlushOne(t, q)
  PROVE  Sorted' /\ Unused'
<1>1. thread_buffer \in [Thread -> [Queue -> Seq(Elem)]]
  BY DEF CInv, IInv, TypeOK
<1>2. ASSUME NEW t \in Thread, NEW Q, Empty(t, Q)
      PROVE  Sorted' /\ Unused'
  <2>1. \A u \in Thread, q \in Queue :
           thread_buffer'[u][q] = thread_buffer[u][q] \/ thread_buffer'[u][q] = <<>>
    BY <1>1, <1>2 DEF Empty
  <2>2. Len(<<>>) = 0 /\ \A k : ~ (k \in 1 .. 0)
    OBVIOUS
  <2>3. Sorted'
    <3>1. ASSUME NEW u \in Thread, NEW q \in Queue, NEW k \in 1 .. Len(thread_buffer'[u][q])
          PROVE  QueueOf(thread_buffer'[u][q][k].addr) = q
      BY <2>1, <2>2 DEF CInv, Sorted
    <3>2. QED
      BY <3>1 DEF Sorted, QueueOf, Queue
  <2>4. Unused'
    BY <2>1 DEF CInv, Unused, Queue
  <2>5. QED
    BY <2>3, <2>4
<1>3. ASSUME NEW t \in Thread, NEW q \in Queue, thread_buffer[t][q] # <<>>, FlushOne(t, q)
      PROVE  Sorted' /\ Unused'
  <2>1. /\ thread_buffer'[t][q] = Tail(thread_buffer[t][q])
        /\ \A u \in Thread, r \in Queue :
              u # t \/ r # q => thread_buffer'[u][r] = thread_buffer[u][r]
    BY <1>1, <1>3 DEF FlushOne
  <2>2. /\ Len(thread_buffer[t][q]) \in Nat
        /\ Len(Tail(thread_buffer[t][q])) = Len(thread_buffer[t][q]) - 1
        /\ \A k \in 1 .. Len(thread_buffer[t][q]) - 1 :
              /\ Tail(thread_buffer[t][q])[k] = thread_buffer[t][q][k + 1]
              /\ k + 1 \in 1 .. Len(thread_buffer[t][q])
    <3>1. ASSUME NEW s \in Seq(Elem), s # <<>>
          PROVE  /\ Len(s) \in Nat
                 /\ Len(Tail(s)) = Len(s) - 1
                 /\ \A k \in 1 .. Len(s) - 1 : Tail(s)[k] = s[k + 1] /\ k + 1 \in 1 .. Len(s)
      BY <3>1
    <3>2. QED
      BY <1>1, <1>3, <3>1
  <2>3. ASSUME NEW u \in Thread, NEW r \in Queue, NEW k \in 1 .. Len(thread_buffer'[u][r])
        PROVE  QueueOf(thread_buffer'[u][r][k].addr) = r
    <3>1. CASE u = t /\ r = q
      <4>1. /\ k + 1 \in 1 .. Len(thread_buffer[t][q])
            /\ thread_buffer'[u][r][k] = thread_buffer[t][q][k + 1]
        BY <2>1, <2>2, <3>1
      <4>2. QED
        BY <3>1, <4>1 DEF CInv, Sorted
    <3>2. CASE u # t \/ r # q
      BY <2>1, <3>2 DEF CInv, Sorted
    <3>3. QED
      BY <3>1, <3>2
  <2>4. Sorted'
    BY <2>3 DEF Sorted, QueueOf, Queue
  <2>5. Unused'
    BY <1>3 DEF CInv, Unused
  <2>6. QED
    BY <2>4, <2>5
<1>4. CASE UNCHANGED thread_buffer
  BY <1>4 DEF CInv, Sorted, Unused, QueueOf, Queue
<1>5. QED
  BY <1>2, <1>3, <1>4

LEMMA SortedIssue ==
  ASSUME CInv, NEW t \in Thread, StoreToBuffer(t)
  PROVE  Sorted' /\ Unused'
<1> DEFINE i == Instr(t)
           q == QueueOf(i.addr)
           e == [addr |-> i.addr, val |-> i.x, label |-> i.label]
<1>1. thread_buffer \in [Thread -> [Queue -> Seq(Elem)]] /\ IInv
  BY DEF CInv, IInv, TypeOK
<1>2. i.addr \in Addr /\ q \in Queue
  BY <1>1, Running, QueueOfType DEF StoreToBuffer
<1>3. thread_buffer' = [thread_buffer EXCEPT ![t][q] = Append(@, e)] /\ WMM # "NONE"
  BY DEF StoreToBuffer
<1>4. e.addr = i.addr
  OBVIOUS
<1> HIDE DEF i, e
<1>5. /\ thread_buffer'[t][q] = Append(thread_buffer[t][q], e)
      /\ \A u \in Thread, r \in Queue : u # t \/ r # q => thread_buffer'[u][r] = thread_buffer[u][r]
  BY <1>1, <1>2, <1>3
<1>6. ASSUME NEW u \in Thread, NEW r \in Queue, NEW k \in 1 .. Len(thread_buffer'[u][r])
      PROVE  QueueOf(thread_buffer'[u][r][k].addr) = r
  <2>1. CASE u = t /\ r = q
    <3>1. ASSUME NEW s \in Seq(Elem), NEW l \in 1 .. Len(Append(s, e))
          PROVE  \/ l \in 1 .. Len(s) /\ Append(s, e)[l] = s[l]
                 \/ Append(s, e)[l] = e
      OBVIOUS
    <3>2. \/ k \in 1 .. Len(thread_buffer[t][q]) /\ thread_buffer'[u][r][k] = thread_buffer[t][q][k]
          \/ thread_buffer'[u][r][k] = e
      BY <1>1, <1>2, <1>5, <2>1, <3>1
    <3>3. QED
      BY <1>4, <2>1, <3>2 DEF CInv, Sorted
  <2>2. CASE u # t \/ r # q
    BY <1>5, <2>2 DEF CInv, Sorted
  <2>3. QED
    BY <2>1, <2>2
<1>7. QED
  BY <1>3, <1>6 DEF Sorted, Unused, QueueOf, Queue

LEMMA CInvStep ==
  ASSUME CInv, [Next]_vars
  PROVE  CInv'
<1>1. IInv'
  BY NextStep DEF CInv
<1>2. ASSUME NEW t \in Thread, Execute(t), ~ StoreToBuffer(t)
      PROVE  Sorted' /\ Unused'
  <2>1. program' = program
    BY <1>2 DEF Proceed, Execute, StoreToMemory, LoadFromBuffer, LoadFromMemory, LoadFault,
       Membar_ss, Membar_sl, Cas32, Cas32Fault, CasPO, FasPO, Alloca, Malloc, Free, FreeFault,
       SetValue, Branch, Call, Return, Spawn, JoinBlocked, Join, AssertExist
  <2>2. UNCHANGED thread_buffer \/ \E Q : Empty(t, Q)
    BY <1>2 DEF buffers, Execute, StoreToMemory, LoadFromBuffer, LoadFromMemory, LoadFault,
       Membar_ss, Membar_sl, Cas32, Cas32Fault, CasPO, FasPO, Alloca, Malloc, Free, FreeFault,
       SetValue, Branch, Call, Return, Spawn, JoinBlocked, Join, AssertExist
  <2>3. QED
    BY <2>1, <2>2, SortedKept
<1>3. ASSUME NEW t \in Thread, RandomFlush(t)
      PROVE  Sorted' /\ Unused'
  <2>1. WMM = "TSO" => Fifo \in Queue
    BY DEF Queue
  <2>2. program' = program /\ (UNCHANGED thread_buffer \/
           \E q \in Queue : thread_buffer[t][q] # <<>> /\ FlushOne(t, q))
    BY <1>3, <2>1 DEF RandomFlush, RandomFlushTSO, RandomFlushPSO
  <2>3. QED
    BY <2>2, SortedKept
<1>4. ASSUME Finish \/ UNCHANGED vars
      PROVE  Sorted' /\ Unused'
  <2>1. UNCHANGED <<thread_buffer, program>>
    BY <1>4 DEF Finish, vars, buffers
  <2>2. QED
    BY <2>1, SortedKept
<1>5. Sorted' /\ Unused'
  BY <1>2, <1>3, <1>4, SortedIssue DEF Next
<1>6. QED
  BY <1>1, <1>5 DEF CInv

-----------------------------------------------------------------------------
(* The addresses in use.                                                   *)

LEMMA TopFrame ==
  ASSUME IInv, NEW t \in Thread, t \in Active, NEW fr, threadStacks' = WithTop(t, fr)
  PROVE  /\ \A u \in Thread \ {t} : threadStacks'[u] = threadStacks[u]
         /\ Len(threadStacks'[t]) = Len(threadStacks[t])
         /\ Len(threadStacks[t]) \in Nat \ {0}
         /\ \A k \in 1 .. Len(threadStacks[t]) :
               threadStacks'[t][k] = IF k = Len(threadStacks[t]) THEN fr ELSE threadStacks[t][k]
<1>1. Len(threadStacks[t]) \in Nat \ {0} /\ threadStacks \in [Thread -> Seq(Frame)]
  BY TopType DEF IInv, TypeOK
<1>2. threadStacks'[t] = [threadStacks[t] EXCEPT ![Len(threadStacks[t])] = fr]
  BY <1>1 DEF WithTop
<1>3. \A u \in Thread \ {t} : threadStacks'[u] = threadStacks[u]
  BY <1>1 DEF WithTop
<1>4. ASSUME NEW s \in Seq(Frame), NEW n \in 1 .. Len(s)
      PROVE  /\ Len([s EXCEPT ![n] = fr]) = Len(s)
             /\ \A k \in 1 .. Len(s) : [s EXCEPT ![n] = fr][k] = IF k = n THEN fr ELSE s[k]
  OBVIOUS
<1>5. QED
  BY <1>1, <1>2, <1>3, <1>4

LEMMA StackCells ==
  ASSUME IInv, NEW t \in Thread, t \in Active, NEW fr, NEW new,
         threadStacks' = WithTop(t, fr),
         fr.allocas = Top(t).allocas \cup new
  PROVE  \A u \in Thread, a \in Addr : OnStack(u, a)' <=> OnStack(u, a) \/ (u = t /\ a \in new)
<1>1. /\ \A u \in Thread \ {t} : threadStacks'[u] = threadStacks[u]
      /\ Len(threadStacks'[t]) = Len(threadStacks[t])
      /\ Len(threadStacks[t]) \in Nat \ {0}
      /\ \A k \in 1 .. Len(threadStacks[t]) :
            threadStacks'[t][k] = IF k = Len(threadStacks[t]) THEN fr ELSE threadStacks[t][k]
  BY TopFrame
<1>2. \A a : OnStack(t, a)' <=> \E k \in 1 .. Len(threadStacks[t]) : a \in threadStacks'[t][k].allocas
  BY <1>1 DEF OnStack
<1>3. Len(threadStacks[t]) \in 1 .. Len(threadStacks[t])
  BY <1>1
<1>4. \A a \in Addr : OnStack(t, a)' <=> OnStack(t, a) \/ a \in new
  BY <1>1, <1>2, <1>3 DEF OnStack, Top
<1>5. \A u \in Thread \ {t}, a \in Addr : OnStack(u, a)' <=> OnStack(u, a)
  BY <1>1 DEF OnStack
<1>6. QED
  BY <1>4, <1>5

(* A step that replaces the top frame by one with the same cells.          *)
LEMMA SameCells ==
  ASSUME IInv, NEW t \in Thread, t \in Active,
         \/ UNCHANGED threadStacks
         \/ Skip(t)
         \/ \E v : Advance(t, v)
         \/ \E pc, v : threadStacks' = WithTop(t, Moved(Top(t), pc, v))
  PROVE  /\ \A u \in Thread, a \in Addr : OnStack(u, a)' <=> OnStack(u, a)
         /\ heap' = heap => Live' = Live
         /\ heap' \subseteq heap => Live' \subseteq Live
<1>1. \A u \in Thread, a \in Addr : OnStack(u, a)' <=> OnStack(u, a)
  <2>1. CASE UNCHANGED threadStacks
    BY <2>1 DEF OnStack
  <2>2. ASSUME NEW pc, NEW v, threadStacks' = WithTop(t, Moved(Top(t), pc, v))
        PROVE  \A u \in Thread, a \in Addr : OnStack(u, a)' <=> OnStack(u, a)
    <3>1. PICK new : new = {}
      OBVIOUS
    <3> DEFINE fr == Moved(Top(t), pc, v)
    <3>2. fr.allocas = Top(t).allocas \cup new
      BY <3>1 DEF Moved
    <3>3. threadStacks' = WithTop(t, fr)
      BY <2>2
    <3> HIDE DEF fr
    <3>4. \A u \in Thread, a \in Addr : OnStack(u, a)' <=> OnStack(u, a) \/ (u = t /\ a \in new)
      BY <3>2, <3>3, StackCells
    <3>5. QED
      BY <3>1, <3>4
  <2>3. QED
    BY <2>1, <2>2 DEF Skip, Advance
<1>2. QED
  BY <1>1 DEF Live, Allocated

(* A call and a new thread start with no cells; a return drops some.       *)
LEMMA FewerCells ==
  ASSUME IInv, NEW t \in Thread, Call(t) \/ Return(t) \/ Spawn(t)
  PROVE  Live' \subseteq Live
<1>1. t \in Active /\ heap' = heap /\ threadStacks \in [Thread -> Seq(Frame)]
  BY DEF IInv, TypeOK, Call, Return, Spawn, At
<1>2. SUFFICES ASSUME NEW u \in Thread, NEW a \in Addr, OnStack(u, a)'
               PROVE  \E w \in Thread : OnStack(w, a)
  BY <1>1 DEF Live, Allocated
<1>3. PICK l \in 1 .. Len(threadStacks'[u]) : a \in threadStacks'[u][l].allocas
  BY <1>2 DEF OnStack
<1>4. \A f, v : NewFrame(f, v).allocas = {}
  BY DEF NewFrame
<1> DEFINE n == Len(threadStacks[t])
           fr == Moved(Top(t), Top(t).pc + 1, Top(t).acc)
           s == WithTop(t, fr)
<1>5. n \in Nat \ {0}
  BY <1>1, TopType
<1>6. fr.allocas = Top(t).allocas /\ fr \in Frame /\ (Instr(t).op # "ret" =>
        fr.pc \in 1 .. Len(Code[program][fr.fn]))
  BY <1>1, TopType DEF Moved, Frame
<1>7. /\ s \in [Thread -> Seq(Frame)] \/ Instr(t).op = "ret"
      /\ s[t] = [threadStacks[t] EXCEPT ![n] = fr]
      /\ \A w \in Thread \ {t} : s[w] = threadStacks[w]
  BY <1>1, <1>6, ReplaceTop DEF WithTop
<1> HIDE DEF fr, s
<1>8. ASSUME NEW q \in Seq(Frame), NEW m \in 1 .. Len(q)
      PROVE  /\ Len([q EXCEPT ![m] = fr]) = Len(q)
             /\ \A k \in 1 .. Len(q) : [q EXCEPT ![m] = fr][k] = IF k = m THEN fr ELSE q[k]
  OBVIOUS
<1>9. /\ Len(s[t]) = n
      /\ \A k \in 1 .. n : s[t][k].allocas = threadStacks[t][k].allocas
  BY <1>1, <1>5, <1>6, <1>7, <1>8 DEF Top
<1>10. CASE Call(t)
  <2>1. /\ threadStacks'[t] = Append(s[t], NewFrame(Instr(t).fn, Instr(t).x))
        /\ \A w \in Thread \ {t} : threadStacks'[w] = threadStacks[w]
        /\ Instr(t).op # "ret"
    BY <1>1, <1>10 DEF Call, At, s, fr
  <2>2. ASSUME NEW q \in Seq(Frame), NEW e, NEW k \in 1 .. Len(Append(q, e))
        PROVE  (k \in 1 .. Len(q) /\ Append(q, e)[k] = q[k]) \/ Append(q, e)[k] = e
    OBVIOUS
  <2>3. CASE u = t
    BY <1>3, <1>4, <1>7, <1>9, <2>1, <2>2, <2>3 DEF OnStack
  <2>4. CASE u # t
    BY <1>2, <2>1, <2>4 DEF OnStack
  <2>5. QED
    BY <2>3, <2>4
<1>11. CASE Return(t)
  <2> DEFINE caller == threadStacks[t][n - 1]
             new == Moved(caller, caller.pc, Top(t).acc)
  <2>1. /\ threadStacks'[t] = IF n = 1 THEN <<>> ELSE Append(SubSeq(threadStacks[t], 1, n - 2), new)
        /\ \A w \in Thread \ {t} : threadStacks'[w] = threadStacks[w]
    BY <1>1, <1>11 DEF Return
  <2>2. CASE u = t
    <3>1. n # 1
      <4>1. Len(<<>>) = 0 /\ ~ (l \in 1 .. 0)
        OBVIOUS
      <4>2. QED
        BY <1>3, <2>1, <2>2, <4>1
    <3>2. new.allocas = caller.allocas
      BY DEF Moved
    <3> HIDE DEF new
    <3>3. ASSUME NEW q \in Seq(Frame), NEW m \in Nat, m < Len(q)
          PROVE  /\ SubSeq(q, 1, m) \in Seq(Frame)
                 /\ Len(SubSeq(q, 1, m)) = m
                 /\ \A k \in 1 .. m : SubSeq(q, 1, m)[k] = q[k]
      <4>1. \A k \in 1 .. m : q[k] \in Frame
        BY <3>3
      <4>2. QED
        BY <4>1
    <3>4. n - 2 \in Nat /\ n - 2 < n
      <4>1. \A m \in Nat \ {0} : m # 1 => m - 2 \in Nat /\ m - 2 < m
        OBVIOUS
      <4>2. QED
        BY <1>5, <3>1, <4>1
    <3> DEFINE rest == SubSeq(threadStacks[t], 1, n - 2)
    <3>5. rest \in Seq(Frame) /\ Len(rest) = n - 2 /\ \A k \in 1 .. n - 2 : rest[k] = threadStacks[t][k]
      BY <1>1, <3>3, <3>4
    <3> HIDE DEF rest
    <3>6. threadStacks'[t] = Append(rest, new)
      BY <2>1, <3>1 DEF rest
    <3>7. ASSUME NEW q \in Seq(Frame), NEW e, NEW k \in 1 .. Len(Append(q, e))
          PROVE  (k \in 1 .. Len(q) /\ Append(q, e)[k] = q[k]) \/ Append(q, e)[k] = e
      OBVIOUS
    <3>8. \/ l \in 1 .. n - 2 /\ threadStacks'[t][l] = threadStacks[t][l]
          \/ threadStacks'[t][l] = new
      BY <1>3, <2>2, <3>5, <3>6, <3>7
    <3>9. n - 1 \in 1 .. n /\ \A k \in 1 .. n - 2 : k \in 1 .. n
      BY <1>5, <3>4
    <3>10. QED
      BY <1>3, <2>2, <3>2, <3>8, <3>9 DEF OnStack
  <2>3. CASE u # t
    BY <1>2, <2>1, <2>3 DEF OnStack
  <2>4. QED
    BY <2>2, <2>3
<1>12. CASE Spawn(t)
  <2>1. threadStacks' = [s EXCEPT ![nextThreadNum] = <<NewFrame(Instr(t).fn, 0)>>] /\ Instr(t).op # "ret"
    BY <1>12 DEF Spawn, At, s, fr
  <2>2. s \in [Thread -> Seq(Frame)]
    BY <1>7, <2>1
  <2>3. u = nextThreadNum => threadStacks'[u] = <<NewFrame(Instr(t).fn, 0)>>
    BY <2>1, <2>2
  <2>4. u # nextThreadNum => threadStacks'[u] = s[u]
    BY <2>1, <2>2
  <2>5. u # nextThreadNum
    <3>1. \A e : Len(<<e>>) = 1 /\ \A k \in 1 .. 1 : <<e>>[k] = e
      OBVIOUS
    <3>2. QED
      BY <1>3, <1>4, <2>3, <3>1
  <2>6. CASE u = t
    BY <1>3, <1>9, <2>4, <2>5, <2>6 DEF OnStack
  <2>7. CASE u # t
    BY <1>2, <1>7, <2>4, <2>5, <2>7 DEF OnStack
  <2>8. QED
    BY <2>6, <2>7
<1>13. QED
  BY <1>10, <1>11, <1>12

-----------------------------------------------------------------------------
(* Steps of the abstract memory.                                           *)

pend == [t \in Thread |-> Pending(t)]
Faulted == segmentFaultFlag \/ status = "aborted"

LEMMA OtherPending ==
  ASSUME NEW t \in Thread, NEW P, Pending(t)' = P,
         \A u \in Thread \ {t} : Pending(u)' = Pending(u)
  PROVE  pend' = [pend EXCEPT ![t] = P]
BY DEF pend

LEMMA CommitQueues ==
  ASSUME CInv, NEW t \in Thread, NEW Q, Empty(t, Q), ~ FlushFaults(t, Q),
         mem' = Flushed(t, Q), observed' = observed, Live' = Live
  PROVE  Coherent!Commit(t)
<1> DEFINE S == PendingIn(t, Q)
<1>1. S \in Coherent!Committable(t)
  BY QueuesCommittable
<1>2. mem' = Coherent!MemAfter(S)
  BY MemoryAfter
<1>3. pend' = [pend EXCEPT ![t] = pend[t] \ S]
  <2>1. Pending(t)' = pend[t] \ S
    BY EmptiedPending DEF pend
  <2>2. QED
    BY <2>1, EmptiedPending, OtherPending
<1> HIDE DEF S
<1>4. QED
  BY <1>1, <1>2, <1>3 DEF Coherent!Commit, pend, Live

LEMMA CommitOldest ==
  ASSUME CInv, NEW t \in Thread, NEW q \in Queue, thread_buffer[t][q] # <<>>, FlushOne(t, q),
         ~ Faulted', observed' = observed, Live' = Live
  PROVE  Coherent!Commit(t)
<1>1. PICK e : e = Numbering(t, q, 1)
  OBVIOUS
<1>2. /\ \A u \in Thread \ {t} : Pending(u)' = Pending(u)
      /\ Pending(t)' = Pending(t) \ {e}
      /\ {e} \in Coherent!Committable(t)
      /\ Head(thread_buffer[t][q]).addr = e.addr /\ Head(thread_buffer[t][q]).val = e.val
  BY <1>1, OldestPending
<1>3. mem' = [mem EXCEPT ![e.addr] = e.val]
  BY <1>2 DEF FlushOne, Faulted
<1>4. mem \in [Addr -> Val]
  BY DEF CInv, IInv, TypeOK
<1>5. Coherent!MemAfter({e}) = [a \in Addr |-> IF a = e.addr THEN e.val ELSE mem[a]]
  <2>1. \A a \in Addr : a # e.addr => Coherent!To({e}, a) = {}
    BY DEF Coherent!To
  <2>2. Coherent!To({e}, e.addr) = {e} /\ {e} # {}
    BY DEF Coherent!To
  <2>3. Coherent!Last({e}) = e
    <3>1. \A d \in {e} : e.at <= e.at
      <4>1. 1 \in 1 .. Len(thread_buffer[t][q])
        <5>1. thread_buffer[t][q] \in Seq(Elem) /\ thread_buffer[t][q] # <<>>
          BY DEF CInv, IInv, TypeOK
        <5>2. QED
          BY <5>1
      <4>2. e.at \in Nat
        BY <1>1, <4>1, NumberingType
      <4>3. QED
        BY <4>2
    <3>2. QED
      BY <3>1 DEF Coherent!Last
  <2>4. QED
    BY <2>1, <2>2, <2>3 DEF Coherent!MemAfter
<1>6. mem' = Coherent!MemAfter({e})
  BY <1>3, <1>4, <1>5
<1>7. pend' = [pend EXCEPT ![t] = pend[t] \ {e}]
  <2>1. Pending(t)' = pend[t] \ {e}
    BY <1>2 DEF pend
  <2>2. QED
    BY <1>2, <2>1, OtherPending
<1>8. QED
  BY <1>2, <1>6, <1>7 DEF Coherent!Commit, pend, Live

LEMMA ReadStep ==
  ASSUME CInv, NEW t \in Thread, NEW a \in Addr, UNCHANGED <<buffers, mem>>, Live' = Live,
         observed' = [observed EXCEPT ![t] =
                        Seen(a, IF Own(t, a) = {} THEN mem[a] ELSE Newest(t, a))]
  PROVE  Coherent!Read(t)
<1>1. pend' = pend
  BY SamePending DEF pend, buffers
<1>2. observed' = [observed EXCEPT ![t] =
                     [addr |-> a, val |-> Coherent!MemAfter(Pending(t))[a]]]
  BY MemoryAfterAll DEF Seen
<1>3. pend[t] = Pending(t)
  BY DEF pend
<1>4. QED
  BY <1>1, <1>2, <1>3 DEF Coherent!Read, pend, Live

LEMMA ExchangeStep ==
  ASSUME CInv, NEW t \in Thread, NEW Q, NEW a \in Addr, Empty(t, Q), ~ FlushFaults(t, Q),
         QueueOf(a) \in Q \/ Own(t, a) = {},
         observed' = [observed EXCEPT ![t] = Seen(a, Flushed(t, Q)[a])],
         \/ mem' = Flushed(t, Q)
         \/ \E v \in Val : mem' = [Flushed(t, Q) EXCEPT ![a] = v],
         Live' = Live
  PROVE  Coherent!Exchange(t)
<1> DEFINE S == PendingIn(t, Q)
<1>1. S \in Coherent!Committable(t)
  BY QueuesCommittable
<1>2. Flushed(t, Q) = Coherent!MemAfter(S)
  BY MemoryAfter
<1>3. pend' = [pend EXCEPT ![t] = pend[t] \ S]
  <2>1. Pending(t)' = pend[t] \ S
    BY EmptiedPending DEF pend
  <2>2. QED
    BY <2>1, EmptiedPending, OtherPending
<1>4. Coherent!To(Pending(t), a) \subseteq S
  <2>1. ASSUME NEW e \in Coherent!To(Pending(t), a) PROVE e \in S
    <3>1. PICK k \in Own(t, a) : e = Numbering(t, QueueOf(a), k)
      BY OwnStores
    <3>2. e \in Coherent!To(S, a)
      BY <3>1, OwnStores
    <3>3. QED
      BY <3>2 DEF Coherent!To
  <2>2. QED
    BY <2>1
<1>5. pend[t] = Pending(t)
  BY DEF pend
<1> HIDE DEF S
<1>6. /\ Coherent!To(pend[t], a) \subseteq S
      /\ observed' = [observed EXCEPT ![t] = [addr |-> a, val |-> Coherent!MemAfter(S)[a]]]
      /\ mem' = Coherent!MemAfter(S) \/ \E v \in Val : mem' = [Coherent!MemAfter(S) EXCEPT ![a] = v]
  BY <1>2, <1>4, <1>5 DEF Seen
<1>7. QED
  BY <1>1, <1>3, <1>6 DEF Coherent!Exchange, pend, Live

LEMMA WriteStep ==
  ASSUME CInv, NEW t \in Thread, NEW a \in Addr, NEW v \in Val, Own(t, a) = {},
         mem' = [mem EXCEPT ![a] = v], UNCHANGED <<buffers, observed>>, Live' = Live
  PROVE  Coherent!Write(t)
<1>1. pend' = pend
  BY SamePending DEF pend, buffers
<1>2. Coherent!To(pend[t], a) = {}
  BY OwnStores DEF pend
<1>3. QED
  BY <1>1, <1>2 DEF Coherent!Write, pend, Live

LEMMA IssueStep ==
  ASSUME CInv, NEW t \in Thread, StoreToBuffer(t)
  PROVE  Coherent!Issue(t)
<1> DEFINE i == Instr(t)
           q == QueueOf(i.addr)
           e == [addr |-> i.addr, val |-> i.x, label |-> i.label]
           b == thread_buffer[t][q]
           r == retired[t][q]
<1>1. thread_buffer \in [Thread -> [Queue -> Seq(Elem)]] /\ IInv
  BY DEF CInv, IInv, TypeOK
<1>2. t \in Active /\ i.addr \in Addr /\ i.x \in Val /\ i.label \in Nat /\ q \in Queue
  BY <1>1, Running, QueueOfType DEF StoreToBuffer
<1>3. b \in Seq(Elem) /\ r \in Seq(Elem) /\ Len(b) \in Nat /\ Len(r) \in Nat
  BY <1>1, <1>2, QueueType, LenProperties DEF IInv
<1>4. /\ thread_buffer' = [thread_buffer EXCEPT ![t][q] = Append(@, e)]
      /\ UNCHANGED <<retired, mem, heap, observed>> /\ Skip(t)
  BY DEF StoreToBuffer
<1>5. e.addr = i.addr /\ e.val = i.x
  OBVIOUS
<1>6. Live' = Live
  BY <1>1, <1>2, <1>4, SameCells
<1> HIDE DEF i, e, q, b, r
<1>7. /\ thread_buffer'[t][q] = Append(b, e)
      /\ \A u \in Thread, p \in Queue : u # t \/ p # q => thread_buffer'[u][p] = thread_buffer[u][p]
      /\ \A u \in Thread \ {t} : thread_buffer'[u] = thread_buffer[u]
  BY <1>1, <1>2, <1>4 DEF b
<1>8. PICK new : new = [addr |-> e.addr, at |-> Len(r) + (Len(b) + 1), val |-> e.val]
  OBVIOUS
<1>9. /\ Len(Append(b, e)) = Len(b) + 1
      /\ \A k \in 1 .. Len(b) : Append(b, e)[k] = b[k]
      /\ Append(b, e)[Len(b) + 1] = e
  <2>1. ASSUME NEW s \in Seq(Elem)
        PROVE  /\ Len(Append(s, e)) = Len(s) + 1
               /\ \A k \in 1 .. Len(s) : Append(s, e)[k] = s[k]
               /\ Append(s, e)[Len(s) + 1] = e
    OBVIOUS
  <2>2. QED
    BY <1>3, <2>1
<1>10. ASSUME NEW x PROVE x \in Pending(t)' <=> x \in Pending(t) \/ x = new
  <2>1. x \in Pending(t)' <=>
          \E p \in Queue : \E k \in 1 .. Len(thread_buffer'[t][p]) :
             x = [addr |-> thread_buffer'[t][p][k].addr, at |-> Len(retired[t][p]) + k,
                  val |-> thread_buffer'[t][p][k].val]
    BY <1>4 DEF Pending, Numbering
  <2>2. (\E k \in 1 .. Len(thread_buffer'[t][q]) :
             x = [addr |-> thread_buffer'[t][q][k].addr, at |-> Len(retired[t][q]) + k,
                  val |-> thread_buffer'[t][q][k].val])
          <=> \/ \E k \in 1 .. Len(thread_buffer[t][q]) : x = Numbering(t, q, k)
              \/ x = new
    <3>1. 1 .. Len(thread_buffer'[t][q]) = (1 .. Len(b)) \cup {Len(b) + 1}
      BY <1>3, <1>7, <1>9
    <3>2. \A k \in 1 .. Len(b) :
             [addr |-> thread_buffer'[t][q][k].addr, at |-> Len(retired[t][q]) + k,
              val |-> thread_buffer'[t][q][k].val] = Numbering(t, q, k)
      BY <1>7, <1>9 DEF Numbering, b
    <3>3. [addr |-> thread_buffer'[t][q][Len(b) + 1].addr, at |-> Len(retired[t][q]) + (Len(b) + 1),
           val |-> thread_buffer'[t][q][Len(b) + 1].val] = new
      BY <1>7, <1>8, <1>9 DEF r
    <3>4. QED
      BY <3>1, <3>2, <3>3 DEF b
  <2>3. ASSUME NEW p \in Queue, p # q
        PROVE  (\E k \in 1 .. Len(thread_buffer'[t][p]) :
                   x = [addr |-> thread_buffer'[t][p][k].addr, at |-> Len(retired[t][p]) + k,
                        val |-> thread_buffer'[t][p][k].val])
                 <=> \E k \in 1 .. Len(thread_buffer[t][p]) : x = Numbering(t, p, k)
    BY <1>7, <2>3 DEF Numbering
  <2>4. x \in Pending(t) <=> \E p \in Queue : \E k \in 1 .. Len(thread_buffer[t][p]) : x = Numbering(t, p, k)
    BY AllPending
  <2>5. QED
    BY <1>2, <2>1, <2>2, <2>3, <2>4
<1>11. \A u \in Thread \ {t} : Pending(u)' = Pending(u)
  BY <1>4, <1>7, SamePending
<1>12. Pending(t)' = Pending(t) \cup {new}
  BY <1>10
<1>13. ASSUME NEW d \in Coherent!To(Pending(t), i.addr)
       PROVE  d.at < new.at
  <2>1. PICK k \in Own(t, i.addr) : d = Numbering(t, q, k)
    BY <1>2, OwnStores DEF q
  <2>2. k \in 1 .. Len(b)
    BY DEF Own, b, q
  <2>3. d.at = Len(r) + k
    BY <1>2, <2>1, <2>2, NumberingType DEF b, r
  <2>4. new.at = Len(r) + (Len(b) + 1)
    BY <1>8
  <2>5. QED
    BY <1>3, <2>2, <2>3, <2>4
<1>14. new \in Coherent!Store /\ new.addr = i.addr
  BY <1>2, <1>3, <1>5, <1>8 DEF Coherent!Store
<1>15. pend' = [pend EXCEPT ![t] = pend[t] \cup {new}]
  <2>1. Pending(t)' = pend[t] \cup {new}
    BY <1>12 DEF pend
  <2>2. QED
    BY <1>11, <2>1, OtherPending
<1>16. new \in pend'[t] /\ pend[t] = Pending(t)
  BY <1>12 DEF pend
<1>17. QED
  BY <1>4, <1>6, <1>13, <1>14, <1>15, <1>16 DEF Coherent!Issue, pend, Live

-----------------------------------------------------------------------------
(* Every step of the interpreter is a step of the abstract memory.         *)

AbstractStep ==
  \/ \E t \in Thread : \/ Coherent!Issue(t) \/ Coherent!Write(t) \/ Coherent!Commit(t)
                       \/ Coherent!Read(t) \/ Coherent!Exchange(t)
  \/ Coherent!Allocate \/ Coherent!Release

LEMMA NothingPending ==
  ASSUME CInv, WMM = "NONE", NEW t \in Thread, NEW a \in Addr
  PROVE  Own(t, a) = {}
<1>1. thread_buffer[t][QueueOf(a)] = <<>>
  BY QueueOfType DEF CInv, Unused
<1>2. Len(<<>>) = 0 /\ \A k : ~ (k \in 1 .. 0)
  OBVIOUS
<1>3. QED
  BY <1>1, <1>2 DEF Own

LEMMA NoFault ==
  ASSUME NEW t \in Thread, NEW blocked, NEW shared, NEW fault,
         Proceed(t, blocked, shared, fault), ~ Faulted'
  PROVE  ~ fault
BY DEF Proceed, Faulted

LEMMA ReleaseStep ==
  ASSUME UNCHANGED <<buffers, mem, observed>>, Live' \subseteq Live
  PROVE  Coherent!Release
<1>1. pend' = pend
  BY SamePending DEF pend, buffers
<1>2. QED
  BY <1>1 DEF Coherent!Release, pend, Live

LEMMA AllocateStep ==
  ASSUME UNCHANGED <<buffers, observed>>, NEW a \in Addr, a \notin Live, Live' = Live \cup {a},
         NEW v \in Val, mem' = [mem EXCEPT ![a] = v]
  PROVE  Coherent!Allocate
<1>1. pend' = pend
  BY SamePending DEF pend, buffers
<1>2. a \in Addr \ Live
  OBVIOUS
<1>3. QED
  BY <1>1, <1>2 DEF Coherent!Allocate, pend, Live

LEMMA InstructionMaps ==
  ASSUME CInv, Orderly, NEW t \in Thread, Execute(t), ~ Faulted'
  PROVE  AbstractStep
<1> DEFINE i == Instr(t)
           a == i.addr
<1>0. IInv /\ t \in Active /\ a \in Addr /\ i.x \in Val /\ i.y \in Val
  <2>1. \E op : At(t, op)
    BY DEF Execute, StoreToMemory, StoreToBuffer, LoadFromBuffer, LoadFromMemory, LoadFault,
       Membar_ss, Membar_sl, Cas32, Cas32Fault, CasPO, FasPO, Alloca, Malloc, Free, FreeFault,
       SetValue, Branch, Call, Return, Spawn, JoinBlocked, Join, AssertExist
  <2>2. QED
    BY <2>1, Running DEF CInv
<1>1. CASE StoreToMemory(t)
  <2>1. Live' = Live
    BY <1>0, <1>1, SameCells DEF StoreToMemory
  <2>2. Own(t, a) = {}
    BY <1>0, <1>1, NothingPending DEF StoreToMemory, Orderly
  <2>3. Coherent!Write(t)
    BY <1>0, <1>1, <2>1, <2>2, WriteStep DEF StoreToMemory
  <2>4. QED
    BY <2>3 DEF AbstractStep
<1>2. CASE StoreToBuffer(t)
  BY <1>2, IssueStep DEF AbstractStep
<1>3. CASE LoadFromBuffer(t)
  <2>1. Live' = Live
    BY <1>0, <1>3, SameCells DEF LoadFromBuffer
  <2>2. Coherent!Read(t)
    BY <1>0, <1>3, <2>1, ReadStep DEF LoadFromBuffer
  <2>3. QED
    BY <2>2 DEF AbstractStep
<1>4. CASE LoadFromMemory(t)
  <2>1. Live' = Live
    BY <1>0, <1>4, SameCells DEF LoadFromMemory
  <2>2. Coherent!Read(t)
    BY <1>0, <1>4, <2>1, ReadStep DEF LoadFromMemory
  <2>3. QED
    BY <2>2 DEF AbstractStep
<1>5. CASE LoadFault(t) \/ Cas32Fault(t) \/ FreeFault(t)
  <2>1. CASE LoadFault(t) \/ Cas32Fault(t)
    <3>1. Proceed(t, FALSE, FALSE, TRUE)
      BY <2>1 DEF LoadFault, Cas32Fault
    <3>2. QED
      BY <3>1, NoFault
  <2>2. CASE FreeFault(t)
    BY <2>2 DEF FreeFault, Faulted
  <2>3. QED
    BY <1>5, <2>1, <2>2
<1>6. CASE Membar_ss(t)
  <2>1. Live' = Live
    BY <1>0, <1>6, SameCells DEF Membar_ss
  <2>2. ~ FlushFaults(t, SSQueues)
    <3>1. Proceed(t, FALSE, FALSE, FlushFaults(t, SSQueues))
      BY <1>6 DEF Membar_ss
    <3>2. QED
      BY <3>1 DEF Proceed, Faulted
  <2>3. Coherent!Commit(t)
    BY <1>6, <2>1, <2>2, CommitQueues DEF Membar_ss
  <2>4. QED
    BY <2>3 DEF AbstractStep
<1>7. CASE Membar_sl(t)
  <2>1. Live' = Live
    BY <1>0, <1>7, SameCells DEF Membar_sl
  <2>2. ~ FlushFaults(t, SLQueues)
    <3>1. Proceed(t, FALSE, FALSE, FlushFaults(t, SLQueues))
      BY <1>7 DEF Membar_sl
    <3>2. QED
      BY <3>1 DEF Proceed, Faulted
  <2>3. Coherent!Commit(t)
    BY <1>7, <2>1, <2>2, CommitQueues DEF Membar_sl
  <2>4. QED
    BY <2>3 DEF AbstractStep
<1>8. CASE Cas32(t)
  <2> DEFINE Q == CASQueues(a)
             m == Flushed(t, Q)
  <2>1. Live' = Live
    BY <1>0, <1>8, SameCells DEF Cas32
  <2>2. ~ FlushFaults(t, Q)
    <3>1. Proceed(t, FALSE, FALSE, FlushFaults(t, Q))
      BY <1>8 DEF Cas32
    <3>2. QED
      BY <3>1 DEF Proceed, Faulted
  <2>3. QueueOf(a) \in Q \/ Own(t, a) = {}
    BY <1>0, NothingPending DEF CASQueues
  <2>4. /\ Empty(t, Q)
        /\ observed' = [observed EXCEPT ![t] = Seen(a, m[a])]
        /\ mem' = m \/ \E v \in Val : mem' = [m EXCEPT ![a] = v]
    BY <1>0, <1>8 DEF Cas32
  <2> HIDE DEF Q
  <2>5. Coherent!Exchange(t)
    BY <1>0, <2>1, <2>2, <2>3, <2>4, ExchangeStep
  <2>6. QED
    BY <2>5 DEF AbstractStep
<1>9. CASE CasPO(t)
  <2> DEFINE m == Flushed(t, SLQueues)
  <2>1. Live' = Live
    BY <1>0, <1>9, SameCells DEF CasPO
  <2>2. ~ FlushFaults(t, SLQueues)
    <3>1. Proceed(t, FALSE, FALSE, FlushFaults(t, SLQueues))
      BY <1>9 DEF CasPO
    <3>2. QED
      BY <3>1 DEF Proceed, Faulted
  <2>3. QueueOf(a) \in SLQueues \/ Own(t, a) = {}
    BY <1>0, NothingPending, QueueOfType DEF SLQueues
  <2>4. /\ Empty(t, SLQueues)
        /\ observed' = [observed EXCEPT ![t] = Seen(a, m[a])]
        /\ mem' = m \/ \E v \in Val : mem' = [m EXCEPT ![a] = v]
    BY <1>0, <1>9 DEF CasPO
  <2>5. Coherent!Exchange(t)
    BY <1>0, <2>1, <2>2, <2>3, <2>4, ExchangeStep
  <2>6. QED
    BY <2>5 DEF AbstractStep
<1>10. CASE FasPO(t)
  <2> DEFINE m == Flushed(t, FASQueues)
  <2>1. Live' = Live
    BY <1>0, <1>10, SameCells DEF FasPO
  <2>2. ~ FlushFaults(t, FASQueues)
    BY DEF FlushFaults, FASQueues, Storable
  <2>3. i.op = "faspo"
    BY <1>10 DEF FasPO, At
  <2>4. QueueOf(a) \in FASQueues \/ Own(t, a) = {}
    BY <1>0, <2>3, NothingPending, QueueOfType, WMMAssumption DEF FASQueues, Orderly
  <2>5. /\ Empty(t, FASQueues)
        /\ observed' = [observed EXCEPT ![t] = Seen(a, m[a])]
        /\ \E v \in Val : mem' = [m EXCEPT ![a] = v]
    BY <1>0, <1>10 DEF FasPO
  <2>6. Coherent!Exchange(t)
    BY <1>0, <2>1, <2>2, <2>4, <2>5, ExchangeStep
  <2>7. QED
    BY <2>6 DEF AbstractStep
<1>11. CASE Alloca(t)
  <2>1. PICK new : new = {a}
    OBVIOUS
  <2>2. PICK fr : fr = [fn |-> Top(t).fn, pc |-> Top(t).pc + 1, acc |-> Top(t).acc,
                        allocas |-> Top(t).allocas \cup new]
    OBVIOUS
  <2>3. threadStacks' = WithTop(t, fr) /\ fr.allocas = Top(t).allocas \cup new
    BY <1>11, <2>1, <2>2 DEF Alloca
  <2>4. \A u \in Thread, c \in Addr : OnStack(u, c)' <=> OnStack(u, c) \/ (u = t /\ c \in new)
    BY <1>0, <2>3, StackCells
  <2>5. /\ heap' = heap /\ ~ Allocated(a)
        /\ \E v \in Val : mem' = [mem EXCEPT ![a] = v]
        /\ UNCHANGED <<buffers, observed>>
    BY <1>11 DEF Alloca
  <2>6. Live' = Live \cup {a} /\ a \notin Live
    BY <1>0, <2>1, <2>4, <2>5 DEF Live, Allocated
  <2>7. Coherent!Allocate
    BY <1>0, <2>5, <2>6, AllocateStep
  <2>8. QED
    BY <2>7 DEF AbstractStep
<1>12. CASE Malloc(t)
  <2>1. \A u \in Thread, c \in Addr : OnStack(u, c)' <=> OnStack(u, c)
    BY <1>0, <1>12, SameCells DEF Malloc
  <2>2. /\ heap' = heap \cup {a} /\ ~ Allocated(a)
        /\ \E v \in Val : mem' = [mem EXCEPT ![a] = v]
        /\ UNCHANGED <<buffers, observed>>
    BY <1>12 DEF Malloc
  <2>3. Live' = Live \cup {a} /\ a \notin Live
    BY <1>0, <2>1, <2>2 DEF Live, Allocated
  <2>4. Coherent!Allocate
    BY <1>0, <2>2, <2>3, AllocateStep
  <2>5. QED
    BY <2>4 DEF AbstractStep
<1>13. CASE Free(t) \/ SetValue(t) \/ Branch(t) \/ JoinBlocked(t) \/ Join(t) \/ AssertExist(t)
  <2>1. heap' \subseteq heap /\ UNCHANGED <<buffers, mem, observed>>
    BY <1>13 DEF Free, SetValue, Branch, JoinBlocked, Join, AssertExist
  <2>2. \/ UNCHANGED threadStacks \/ Skip(t) \/ \E v : Advance(t, v)
        \/ \E pc, v : threadStacks' = WithTop(t, Moved(Top(t), pc, v))
    BY <1>13 DEF Free, SetValue, Branch, JoinBlocked, Join, AssertExist
  <2>3. Live' \subseteq Live
    BY <1>0, <2>1, <2>2, SameCells
  <2>4. QED
    BY <2>1, <2>3, ReleaseStep DEF AbstractStep
<1>14. CASE Call(t) \/ Return(t) \/ Spawn(t)
  <2>1. UNCHANGED <<buffers, mem, observed>>
    BY <1>14 DEF Call, Return, Spawn
  <2>2. Live' \subseteq Live
    BY <1>0, <1>14, FewerCells
  <2>3. QED
    BY <2>1, <2>2, ReleaseStep DEF AbstractStep
<1>15. QED
  BY <1>1, <1>2, <1>3, <1>4, <1>5, <1>6, <1>7, <1>8, <1>9, <1>10, <1>11, <1>12, <1>13, <1>14
     DEF Execute

LEMMA FlushMaps ==
  ASSUME CInv, NEW t \in Thread, RandomFlush(t), ~ Faulted'
  PROVE  AbstractStep
<1>1. UNCHANGED <<threadStacks, heap, observed, issued>>
  BY DEF RandomFlush, RandomFlushTSO, RandomFlushPSO
<1>2. Live' = Live
  BY <1>1 DEF Live, Allocated, OnStack
<1>3. CASE UNCHANGED <<thread_buffer, retired, mem>>
  BY <1>1, <1>2, <1>3, ReleaseStep DEF AbstractStep, buffers
<1>4. ASSUME NEW q \in Queue, thread_buffer[t][q] # <<>>, FlushOne(t, q)
      PROVE  AbstractStep
  BY <1>1, <1>2, <1>4, CommitOldest DEF AbstractStep
<1>5. WMM = "TSO" => Fifo \in Queue
  BY DEF Queue
<1>6. QED
  BY <1>3, <1>4, <1>5 DEF RandomFlush, RandomFlushTSO, RandomFlushPSO

LEMMA FaultStays ==
  ASSUME IInv, [Next]_vars, Faulted
  PROVE  Faulted'
<1>1. segmentFaultFlag => segmentFaultFlag'
  <2>1. ASSUME NEW t \in Thread, Execute(t), ~ FreeFault(t)
        PROVE  \E b, s, f : Proceed(t, b, s, f)
    BY <2>1 DEF Execute, StoreToMemory, StoreToBuffer, LoadFromBuffer, LoadFromMemory, LoadFault,
         Membar_ss, Membar_sl, Cas32, Cas32Fault, CasPO, FasPO, Alloca, Malloc, Free,
         SetValue, Branch, Call, Return, Spawn, JoinBlocked, Join, AssertExist
  <2>2. ASSUME NEW t \in Thread, NEW b, NEW s, NEW f, Proceed(t, b, s, f), segmentFaultFlag
        PROVE  segmentFaultFlag'
    BY <2>2 DEF Proceed
  <2>3. ASSUME NEW t \in Thread, FreeFault(t)
        PROVE  segmentFaultFlag' = segmentFaultFlag
    BY <2>3 DEF FreeFault
  <2>4. ASSUME NEW t \in Thread, NEW q, FlushOne(t, q), segmentFaultFlag
        PROVE  segmentFaultFlag'
    BY <2>4, Zenon DEF FlushOne
  <2>5. ASSUME NEW t \in Thread, RandomFlush(t), segmentFaultFlag
        PROVE  segmentFaultFlag'
    BY <2>4, <2>5 DEF RandomFlush, RandomFlushTSO, RandomFlushPSO
  <2>6. CASE Finish \/ UNCHANGED vars
    BY <2>6 DEF Finish, vars
  <2>7. QED
    BY <2>1, <2>2, <2>3, <2>5, <2>6 DEF Next
<1>2. status = "aborted" => status' = "aborted"
  BY DEF Next, vars, Finish, At, RandomFlush, RandomFlushTSO, RandomFlushPSO,
     Execute, StoreToMemory, StoreToBuffer, LoadFromBuffer, LoadFromMemory, LoadFault,
     Membar_ss, Membar_sl, Cas32, Cas32Fault, CasPO, FasPO, Alloca, Malloc, Free, FreeFault,
     SetValue, Branch, Call, Return, Spawn, JoinBlocked, Join, AssertExist
<1>3. QED
  BY <1>1, <1>2 DEF Faulted

LEMMA StepMaps ==
  ASSUME CInv, Orderly, [Next]_vars
  PROVE  [Coherent!Next]_(Coherent!vars)
<1>1. CASE Faulted'
  BY <1>1 DEF Coherent!Next, Faulted
<1>2. CASE ~ Faulted'
  <2>1. ~ Faulted
    BY <1>2, FaultStays DEF CInv
  <2>2. AbstractStep => Coherent!Next
    BY <1>2, <2>1 DEF AbstractStep, Coherent!Next, Faulted
  <2>3. CASE Finish \/ UNCHANGED vars
    <3>1. UNCHANGED <<buffers, mem, observed, heap, threadStacks>>
      BY <2>3 DEF Finish, vars, buffers
    <3>2. pend' = pend /\ Live' = Live
      BY <3>1, SamePending DEF pend, buffers, Live, Allocated, OnStack
    <3>3. Faulted' = Faulted
      BY <1>2, <2>1 DEF Faulted
    <3>4. QED
      BY <3>1, <3>2, <3>3 DEF Coherent!vars, pend, Live, Faulted
  <2>4. QED
    BY <1>2, <2>2, <2>3, InstructionMaps, FlushMaps DEF Next
<1>3. QED
  BY <1>1, <1>2

LEMMA InitMaps ==
  ASSUME Init
  PROVE  CInv /\ Coherent!Init
<1>1. IInv
  BY InitType
<1>2. /\ thread_buffer = [t \in Thread |-> [q \in Queue |-> <<>>]]
      /\ mem = [a \in Addr |-> 0] /\ observed = [t \in Thread |-> Seen(NoLoc, 0)]
      /\ segmentFaultFlag = FALSE /\ status = "running"
  BY DEF Init, Started
<1>3. Len(<<>>) = 0 /\ \A k : ~ (k \in 1 .. 0)
  OBVIOUS
<1>4. Sorted /\ Unused
  BY <1>2, <1>3 DEF Sorted, Unused
<1>5. ASSUME NEW t \in Thread PROVE Pending(t) = {}
  <2>1. ASSUME NEW e PROVE e \notin Pending(t)
    BY <1>2, <1>3, AllPending
  <2>2. QED
    BY <2>1
<1>6. Coherent!Init
  BY <1>2, <1>5 DEF Coherent!Init, Seen
<1>7. QED
  BY <1>1, <1>4, <1>6 DEF CInv

(***************************************************************************)
(* Address by address the interpreter is a coherent memory with store      *)
(* buffers, whatever the program and the schedule, under every memory      *)
(* model: as long as the program is Orderly, each instruction and each     *)
(* flush issues, writes, commits, reads, exchanges, allocates or releases  *)
(* as CoherentMemory allows, or leaves memory and buffers alone.           *)
(***************************************************************************)
THEOREM IsCoherentMemory == Spec /\ []Orderly => ImplementsCoherentMemory
<1>1. Init => CInv /\ Coherent!Init
  BY InitMaps
<1>2. CInv /\ [Next]_vars => CInv'
  BY CInvStep
<1>3. CInv /\ Orderly /\ [Next]_vars => [Coherent!Next]_(Coherent!vars)
  BY StepMaps
<1>4. QED
  BY <1>1, <1>2, <1>3, PTL DEF Spec, ImplementsCoherentMemory, Coherent!Spec

-----------------------------------------------------------------------------
(* Programs that cannot but be Orderly.                                    *)

NoLocals == \A t \in Thread : \A k \in 1 .. Len(threadStacks[t]) : threadStacks[t][k].allocas = {}

LEMMA NextInstr ==
  ASSUME OrderlyPrograms, IInv, NEW t \in Active
  PROVE  Instr(t).op # "alloca" /\ (WMM = "PSO" => Instr(t).op # "faspo")
<1>1. /\ program \in DOMAIN Code /\ Top(t) \in Frame
      /\ Top(t).pc \in 1 .. Len(Code[program][Top(t).fn])
  BY TopType DEF IInv, TypeOK
<1>2. Top(t).fn \in Fn
  BY <1>1 DEF Frame
<1>3. QED
  BY <1>1, <1>2 DEF OrderlyPrograms, Instr

LEMMA NoLocalsInit ==
  ASSUME Init
  PROVE  NoLocals
<1>1. ASSUME NEW t \in Thread, NEW k \in 1 .. Len(threadStacks[t])
      PROVE  threadStacks[t][k].allocas = {}
  <2>1. PICK frame : frame = NewFrame(Main, 0)
    OBVIOUS
  <2>2. threadStacks[t] = IF t = 1 THEN <<frame>> ELSE <<>>
    BY <2>1 DEF Init, Started
  <2>3. Len(<<frame>>) = 1 /\ <<frame>>[1] = frame /\ Len(<<>>) = 0
    OBVIOUS
  <2>4. threadStacks[t][k] = frame
    BY <1>1, <2>2, <2>3
  <2>5. QED
    BY <2>1, <2>4 DEF NewFrame
<1>2. QED
  BY <1>1 DEF NoLocals

LEMMA NoLocalsStep ==
  ASSUME OrderlyPrograms, IInv, NoLocals, [Next]_vars
  PROVE  NoLocals'
<1>1. ASSUME NEW t \in Thread, Execute(t) PROVE NoLocals'
  <2>1. t \in Active /\ FramesFrom(t, threadStacks')
    BY <1>1, ExecutesActive, FramesAfter
  <2>2. Instr(t).op # "alloca"
    BY <2>1, NextInstr
  <2>3. Top(t).allocas = {}
    <3>1. Len(threadStacks[t]) \in 1 .. Len(threadStacks[t])
      BY <2>1, TopType
    <3>2. QED
      BY <3>1 DEF NoLocals, Top
  <2>4. ASSUME NEW u \in Thread, NEW k \in 1 .. Len(threadStacks'[u])
        PROVE  threadStacks'[u][k].allocas = {}
    <3>1. FrameFrom(t, u, k, threadStacks'[u][k])
      BY <2>1 DEF FramesFrom
    <3>2. QED
      BY <2>2, <2>3, <3>1 DEF FrameFrom, Untouched, Moves, Entered, NoLocals
  <2>5. QED
    BY <2>4 DEF NoLocals
<1>2. CASE UNCHANGED threadStacks
  BY <1>2 DEF NoLocals
<1>3. ASSUME NEW t \in Thread, RandomFlush(t) PROVE NoLocals'
  BY <1>2, <1>3, FlushedOf
<1>4. CASE Finish \/ UNCHANGED vars
  BY <1>2, <1>4 DEF Finish, vars
<1>5. QED
  BY <1>1, <1>3, <1>4 DEF Next

(***************************************************************************)
(* A program without cells on the stack, and under PSO without faspo, runs *)
(* on a coherent memory, whatever it does with the heap: no two of its     *)
(* instructions, frees of cells with buffered stores among them, can make  *)
(* the buffers and memory disagree (visitFreeInst, flush_buffer_pso).      *)
(***************************************************************************)
THEOREM CoherentWithoutLocals == OrderlyPrograms => (Spec => ImplementsCoherentMemory)
<1>1. SUFFICES ASSUME OrderlyPrograms PROVE Spec => ImplementsCoherentMemory
  OBVIOUS
<1>2. Init => IInv /\ NoLocals
  BY InitType, NoLocalsInit
<1>3. IInv /\ NoLocals /\ [Next]_vars => IInv' /\ NoLocals'
  BY <1>1, NextStep, NoLocalsStep
<1>4. IInv /\ NoLocals => Orderly
  <2>1. NoLocals => \A t \in Thread, a \in Addr : ~ OnStack(t, a)
    BY DEF NoLocals, OnStack
  <2>2. QED
    BY <1>1, <2>1, NextInstr DEF Orderly
<1>5. Spec => []Orderly
  BY <1>2, <1>3, <1>4, PTL DEF Spec
<1>6. QED
  BY <1>5, IsCoherentMemory, PTL
=============================================================================
