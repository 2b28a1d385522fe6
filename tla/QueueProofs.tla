---------------------------- MODULE QueueProofs ----------------------------
(***************************************************************************)
(* What the checker accepts behaves as a queue: a run of the sequential    *)
(* specification takes out no more than was put in, and first in is first  *)
(* out. The runs are recursive functions; the facts about them are proved  *)
(* by the least number of calls for which they fail.                       *)
(***************************************************************************)
EXTENDS CheckTraceProofs

-----------------------------------------------------------------------------
(* How often a value occurs in the contents of a queue.                    *)

LEMMA InSequence ==
  ASSUME NEW q \in Seq(Int), NEW x
  PROVE  /\ IsFiniteSet(In(q, x)) /\ Cardinality(In(q, x)) \in Nat
         /\ In(q, x) \subseteq 1 .. Len(q) /\ Len(q) \in Nat /\ DOMAIN q = 1 .. Len(q)
<1>1. Len(q) \in Nat /\ DOMAIN q = 1 .. Len(q)
  BY LenProperties
<1>2. IsFiniteSet(1 .. Len(q)) /\ In(q, x) \subseteq 1 .. Len(q)
  BY <1>1, Numbers DEF In
<1>3. QED
  BY <1>1, <1>2, MoreIn

LEMMA InAppended ==
  ASSUME NEW q \in Seq(Int), NEW v \in Int, NEW x
  PROVE  /\ Append(q, v) \in Seq(Int)
         /\ Cardinality(In(Append(q, v), x)) = Cardinality(In(q, x)) + (IF v = x THEN 1 ELSE 0)
<1> DEFINE r == Append(q, v)
           n == Len(q)
<1>1. IsFiniteSet(In(q, x)) /\ In(q, x) \subseteq 1 .. n /\ n \in Nat /\ DOMAIN q = 1 .. n
      /\ Cardinality(In(q, x)) \in Nat
  BY InSequence
<1>2. r \in Seq(Int) /\ DOMAIN r = 1 .. n + 1 /\ (\A i \in 1 .. n : r[i] = q[i]) /\ r[n + 1] = v
  BY <1>1, AppendProperties, LenProperties
<1> HIDE DEF r, n
<1>3. n + 1 \notin 1 .. n /\ \A i : i \in 1 .. n + 1 <=> i \in 1 .. n \/ i = n + 1
  BY <1>1
<1>4. CASE v = x
  <2>1. In(r, x) = In(q, x) \cup {n + 1} /\ n + 1 \notin In(q, x)
    BY <1>1, <1>2, <1>3, <1>4 DEF In
  <2>2. Cardinality(In(r, x)) = Cardinality(In(q, x)) + 1
    BY <1>1, <2>1, FS_AddElement
  <2>3. QED
    BY <1>2, <1>4, <2>2 DEF r
<1>5. CASE v # x
  <2>1. In(r, x) = In(q, x)
    BY <1>1, <1>2, <1>3, <1>5 DEF In
  <2>2. QED
    BY <1>1, <1>2, <1>5, <2>1 DEF r
<1>6. QED
  BY <1>4, <1>5

LEMMA Prepended ==
  ASSUME NEW q \in Seq(Int), NEW v \in Int
  PROVE  /\ <<v>> \o q \in Seq(Int) /\ Len(<<v>> \o q) = Len(q) + 1 /\ Len(q) \in Nat
         /\ DOMAIN (<<v>> \o q) = 1 .. Len(q) + 1
         /\ (<<v>> \o q)[1] = v
         /\ \A i \in 1 .. Len(q) : (<<v>> \o q)[i + 1] = q[i]
<1>1. <<v>> \in Seq(Int) /\ Len(<<v>>) = 1 /\ <<v>>[1] = v
  OBVIOUS
<1>2. Len(q) \in Nat
  BY LenProperties
<1>3. /\ <<v>> \o q \in Seq(Int) /\ Len(<<v>> \o q) = 1 + Len(q)
      /\ \A i \in 1 .. 1 + Len(q) : (<<v>> \o q)[i] = IF i <= 1 THEN <<v>>[i] ELSE q[i - 1]
  BY <1>1, ConcatProperties
<1>4. DOMAIN (<<v>> \o q) = 1 .. Len(q) + 1
  BY <1>2, <1>3, LenProperties
<1>5. (<<v>> \o q)[1] = v
  BY <1>1, <1>2, <1>3
<1>6. ASSUME NEW i \in 1 .. Len(q) PROVE (<<v>> \o q)[i + 1] = q[i]
  <2>1. i + 1 \in 1 .. 1 + Len(q) /\ ~ (i + 1 <= 1) /\ (i + 1) - 1 = i
    BY <1>2
  <2>2. QED
    BY <1>3, <2>1
<1>7. QED
  BY <1>2, <1>3, <1>4, <1>5, <1>6

LEMMA InPrepended ==
  ASSUME NEW q \in Seq(Int), NEW v \in Int, NEW x
  PROVE  /\ <<v>> \o q \in Seq(Int)
         /\ Cardinality(In(<<v>> \o q, x)) = Cardinality(In(q, x)) + (IF v = x THEN 1 ELSE 0)
<1> DEFINE r == <<v>> \o q
           n == Len(q)
           next == [i \in Nat |-> i + 1]
           moved == {next[i] : i \in In(q, x)}
<1>1. IsFiniteSet(In(q, x)) /\ In(q, x) \subseteq 1 .. n /\ n \in Nat /\ DOMAIN q = 1 .. n
      /\ Cardinality(In(q, x)) \in Nat
  BY InSequence
<1>2. r \in Seq(Int) /\ DOMAIN r = 1 .. n + 1 /\ r[1] = v /\ \A i \in 1 .. n : r[i + 1] = q[i]
  BY Prepended
<1>3. \A i \in In(q, x) : i \in Nat /\ next[i] = i + 1
  BY <1>1
<1>4. ASSUME NEW i \in In(q, x), NEW j \in In(q, x), next[i] = next[j] PROVE i = j
  <2>1. i \in Nat /\ j \in Nat /\ i + 1 = j + 1
    BY <1>3, <1>4
  <2>2. QED
    BY <2>1
<1> HIDE DEF next
<1>5. IsFiniteSet(moved) /\ Cardinality(moved) = Cardinality(In(q, x))
  BY <1>1, <1>4, ImageSize
<1> HIDE DEF r, n
<1>6. In(r, x) \ {1} = moved
  <2>1. ASSUME NEW k \in In(r, x), k # 1 PROVE k \in moved
    <3>1. k \in 1 .. n + 1 /\ r[k] = x
      BY <1>2 DEF In
    <3>2. k - 1 \in 1 .. n /\ (k - 1) + 1 = k
      BY <1>1, <2>1, <3>1
    <3>3. q[k - 1] = x
      BY <1>2, <3>1, <3>2
    <3>4. k - 1 \in In(q, x)
      BY <1>1, <3>2, <3>3 DEF In
    <3>5. QED
      BY <1>3, <3>2, <3>4
  <2>2. ASSUME NEW i \in In(q, x) PROVE next[i] \in In(r, x) /\ next[i] # 1
    <3>1. i \in 1 .. n /\ q[i] = x /\ next[i] = i + 1
      BY <1>1, <1>3 DEF In
    <3>2. i + 1 \in 1 .. n + 1 /\ i + 1 # 1
      BY <1>1, <3>1
    <3>3. QED
      BY <1>2, <3>1, <3>2 DEF In
  <2>3. QED
    BY <2>1, <2>2
<1>7. 1 \in In(r, x) <=> v = x
  <2>1. 1 \in 1 .. n + 1
    BY <1>1
  <2>2. QED
    BY <1>2, <2>1 DEF In
<1>8. CASE v = x
  <2>1. In(r, x) = moved \cup {1} /\ 1 \notin moved
    BY <1>6, <1>7, <1>8
  <2>2. Cardinality(In(r, x)) = Cardinality(In(q, x)) + 1
    BY <1>5, <2>1, FS_AddElement
  <2>3. QED
    BY <1>2, <1>8, <2>2 DEF r
<1>9. CASE v # x
  <2>1. In(r, x) = moved
    BY <1>6, <1>7, <1>9
  <2>2. Cardinality(In(r, x)) = Cardinality(In(q, x)) + 0
    BY <1>1, <1>5, <2>1
  <2>3. QED
    BY <1>2, <1>9, <2>2 DEF r
<1>10. QED
  BY <1>8, <1>9

(* A queue is its first element before the others, and its last one after  *)
(* the others.                                                             *)
LEMMA FirstAndRest ==
  ASSUME NEW q \in Seq(Int), q # <<>>
  PROVE  Head(q) \in Int /\ Tail(q) \in Seq(Int) /\ q = <<Head(q)>> \o Tail(q)
<1>1. Head(q) \in Int /\ Tail(q) \in Seq(Int)
  BY HeadTailProperties
<1>2. q = <<Head(q)>> \o Tail(q)
  OBVIOUS
<1>3. QED
  BY <1>1, <1>2

LEMMA FrontAndLast ==
  ASSUME NEW q \in Seq(Int), q # <<>>
  PROVE  /\ Len(q) \in Nat /\ Len(q) >= 1 /\ q[Len(q)] \in Int
         /\ SubSeq(q, 1, Len(q) - 1) \in Seq(Int)
         /\ Len(SubSeq(q, 1, Len(q) - 1)) = Len(q) - 1
         /\ \A i \in 1 .. Len(q) - 1 : SubSeq(q, 1, Len(q) - 1)[i] = q[i]
         /\ q = Append(SubSeq(q, 1, Len(q) - 1), q[Len(q)])
<1> DEFINE n == Len(q)
           front == SubSeq(q, 1, n - 1)
<1>1. n \in Nat /\ DOMAIN q = 1 .. n /\ \A i \in 1 .. n : q[i] \in Int
  BY LenProperties, ElementOfSeq
<1>2. n >= 1
  BY <1>1, EmptySeq
<1> HIDE DEF n
<1>3. n - 1 \in Int /\ 1 \in Int /\ \A i \in 1 .. n - 1 : q[i] \in Int
  BY <1>1
<1>4. /\ front \in Seq(Int) /\ Len(front) = IF 1 <= n - 1 THEN (n - 1) - 1 + 1 ELSE 0
      /\ \A i \in 1 .. (n - 1) - 1 + 1 : front[i] = q[1 + i - 1]
  BY <1>3, SubSeqProperties
<1>5. Len(front) = n - 1 /\ \A i \in 1 .. n - 1 : front[i] = q[i]
  BY <1>1, <1>2, <1>4
<1>6. n \in 1 .. n /\ q[n] \in Int
  BY <1>1, <1>2
<1> HIDE DEF front
<1> DEFINE r == Append(front, q[n])
<1>7. /\ r \in Seq(Int) /\ Len(r) = n /\ r[n] = q[n]
      /\ \A i \in 1 .. n - 1 : r[i] = q[i]
  <2>1. /\ r \in Seq(Int) /\ Len(r) = Len(front) + 1
        /\ \A i \in 1 .. Len(front) : r[i] = front[i]
        /\ r[Len(front) + 1] = q[n]
    BY <1>4, <1>6, AppendProperties
  <2>2. Len(front) + 1 = n
    BY <1>1, <1>5
  <2>3. QED
    BY <1>5, <2>1, <2>2
<1> HIDE DEF r
<1>8. \A i \in 1 .. n : r[i] = q[i]
  <2>1. \A i \in 1 .. n : i \in 1 .. n - 1 \/ i = n
    BY <1>1
  <2>2. QED
    BY <1>7, <2>1
<1>9. q = r
  BY <1>7, <1>8, SeqEqual DEF n
<1>10. QED
  BY <1>1, <1>2, <1>4, <1>5, <1>6, <1>9 DEF n, front, r

-----------------------------------------------------------------------------
(* A run of the sequential specification.                                  *)

Outcomes(prog, calls, f, n) ==
  f = [m \in 0 .. n |->
         IF m = 0 THEN Outcome(TRUE, Initially(prog))
         ELSE IF f[m - 1].ok THEN Step(prog, f[m - 1].q, calls[m]) ELSE f[m - 1]]

LEMMA OutcomesExist ==
  ASSUME NEW prog, NEW calls, NEW n \in Nat
  PROVE  \E f : Outcomes(prog, calls, f, n)
<1> DEFINE T == {m \in Nat : ~ \E f : Outcomes(prog, calls, f, m)}
<1>1. SUFFICES ASSUME T # {} PROVE FALSE
  OBVIOUS
<1>2. T \subseteq Nat
  OBVIOUS
<1>3. PICK m \in T : \A k \in T : m <= k
  BY <1>1, <1>2, Least
<1>4. m \in Nat /\ ~ \E f : Outcomes(prog, calls, f, m)
  OBVIOUS
<1>5. CASE m = 0
  <2> DEFINE f == [k \in 0 .. 0 |-> Outcome(TRUE, Initially(prog))]
  <2>1. \A k \in 0 .. 0 : k = 0
    OBVIOUS
  <2>2. f = [k \in 0 .. 0 |-> IF k = 0 THEN Outcome(TRUE, Initially(prog))
                              ELSE IF f[k - 1].ok THEN Step(prog, f[k - 1].q, calls[k]) ELSE f[k - 1]]
    BY <2>1
  <2>3. Outcomes(prog, calls, f, 0)
    BY <2>2 DEF Outcomes
  <2>4. QED
    BY <1>4, <1>5, <2>3
<1>6. CASE m # 0
  <2>1. m - 1 \in Nat /\ ~ (m <= m - 1)
    BY <1>4, <1>6
  <2>2. PICK g : Outcomes(prog, calls, g, m - 1)
    BY <1>3, <2>1
  <2> DEFINE value(h, k) == IF k = 0 THEN Outcome(TRUE, Initially(prog))
                            ELSE IF h[k - 1].ok THEN Step(prog, h[k - 1].q, calls[k]) ELSE h[k - 1]
             f == [k \in 0 .. m |-> IF k = m THEN value(g, m) ELSE g[k]]
  <2>3. \A k \in 0 .. m - 1 : g[k] = value(g, k)
    BY <2>2 DEF Outcomes
  <2>4. \A k \in 0 .. m - 1 : f[k] = g[k]
    BY <1>4, <1>6
  <2>5. f[m] = value(g, m) /\ f = [k \in 0 .. m |-> f[k]]
    BY <1>4
  <2> HIDE DEF f
  <2>6. ASSUME NEW k \in 0 .. m PROVE f[k] = value(f, k)
    <3>1. value(f, k) = value(g, k)
      <4>1. CASE k = 0
        BY <4>1
      <4>2. CASE k # 0
        <5>1. k - 1 \in 0 .. m - 1
          BY <1>4, <4>2
        <5>2. f[k - 1] = g[k - 1]
          BY <2>4, <5>1
        <5>3. QED
          BY <4>2, <5>2
      <4>3. QED
        BY <4>1, <4>2
    <3>2. f[k] = value(g, k)
      <4>1. CASE k = m
        BY <2>5, <4>1
      <4>2. CASE k # m
        <5>1. k \in 0 .. m - 1
          BY <1>4, <4>2
        <5>2. QED
          BY <2>3, <2>4, <5>1
      <4>3. QED
        BY <4>1, <4>2
    <3>3. QED
      BY <3>1, <3>2
  <2>7. f = [k \in 0 .. m |-> value(f, k)]
    BY <2>5, <2>6
  <2>8. Outcomes(prog, calls, f, m)
    BY <2>7 DEF Outcomes
  <2>9. QED
    BY <1>4, <2>8
<1>7. QED
  BY <1>5, <1>6

LEMMA RunIs ==
  ASSUME NEW prog, NEW calls, Len(calls) \in Nat
  PROVE  \E f : Outcomes(prog, calls, f, Len(calls)) /\ Run(prog, calls) = f[Len(calls)]
<1> DEFINE n == Len(calls)
<1>1. \E f : f = [m \in 0 .. n |->
         IF m = 0 THEN Outcome(TRUE, Initially(prog))
         ELSE IF f[m - 1].ok THEN Step(prog, f[m - 1].q, calls[m]) ELSE f[m - 1]]
  <2>1. PICK f : Outcomes(prog, calls, f, n)
    BY OutcomesExist
  <2>2. f = [m \in 0 .. n |->
         IF m = 0 THEN Outcome(TRUE, Initially(prog))
         ELSE IF f[m - 1].ok THEN Step(prog, f[m - 1].q, calls[m]) ELSE f[m - 1]]
    BY <2>1 DEF Outcomes
  <2>3. QED
    BY <2>2
<1> DEFINE g == CHOOSE f : f = [m \in 0 .. n |->
         IF m = 0 THEN Outcome(TRUE, Initially(prog))
         ELSE IF f[m - 1].ok THEN Step(prog, f[m - 1].q, calls[m]) ELSE f[m - 1]]
<1>2. Outcomes(prog, calls, g, n)
  BY <1>1 DEF Outcomes
<1>3. Run(prog, calls) = g[n]
  BY DEF Run
<1>4. QED
  BY <1>2, <1>3

-----------------------------------------------------------------------------
(* One call on a queue.                                                    *)

PutFuncs == {"wsq_put", "queue_enqueue"}
GetFuncs == {"wsq_take", "wsq_steal", "queue_dequeue"}
OneIf(b) == IF b THEN 1 ELSE 0

(* What a get takes away, at either end.                                   *)
LEMMA PopFrontIs ==
  ASSUME NEW q \in Seq(Int), NEW c, PopFront(q, c).ok, NEW x \in Nat
  PROVE  /\ PopFront(q, c).q \in Seq(Int)
         /\ Cardinality(In(PopFront(q, c).q, x)) + OneIf(c.ret_val = x) = Cardinality(In(q, x))
<1>1. CASE q = <<>>
  <2>1. PopFront(q, c).q = q /\ c.ret_val = -1
    BY <1>1 DEF PopFront, Outcome, EMPTY
  <2>2. c.ret_val # x
    BY <2>1
  <2>3. Cardinality(In(q, x)) \in Nat
    BY InSequence
  <2>4. QED
    BY <2>1, <2>2, <2>3 DEF OneIf
<1>2. CASE q # <<>>
  <2>1. PopFront(q, c).q = Tail(q) /\ c.ret_val = Head(q)
    BY <1>2 DEF PopFront, Outcome
  <2> DEFINE h == Head(q)
             r == Tail(q)
  <2>2. h \in Int /\ r \in Seq(Int) /\ q = <<h>> \o r
    BY <1>2, FirstAndRest
  <2>3. PopFront(q, c).q = r /\ c.ret_val = h
    BY <2>1
  <2> HIDE DEF h, r
  <2>4. Cardinality(In(<<h>> \o r, x)) = Cardinality(In(r, x)) + (IF h = x THEN 1 ELSE 0)
    BY <2>2, InPrepended
  <2>5. QED
    BY <2>2, <2>3, <2>4 DEF OneIf
<1>3. QED
  BY <1>1, <1>2

LEMMA PopBackIs ==
  ASSUME NEW q \in Seq(Int), NEW c, PopBack(q, c).ok, NEW x \in Nat
  PROVE  /\ PopBack(q, c).q \in Seq(Int)
         /\ Cardinality(In(PopBack(q, c).q, x)) + OneIf(c.ret_val = x) = Cardinality(In(q, x))
<1>1. CASE q = <<>>
  <2>1. PopBack(q, c).q = q /\ c.ret_val = -1
    BY <1>1 DEF PopBack, Outcome, EMPTY
  <2>2. c.ret_val # x
    BY <2>1
  <2>3. Cardinality(In(q, x)) \in Nat
    BY InSequence
  <2>4. QED
    BY <2>1, <2>2, <2>3 DEF OneIf
<1>2. CASE q # <<>>
  <2> DEFINE v == q[Len(q)]
             r == SubSeq(q, 1, Len(q) - 1)
  <2>1. PopBack(q, c).q = r /\ c.ret_val = v
    BY <1>2 DEF PopBack, Outcome
  <2>2. v \in Int /\ r \in Seq(Int) /\ q = Append(r, v)
    BY <1>2, FrontAndLast
  <2> HIDE DEF v, r
  <2>3. Cardinality(In(Append(r, v), x)) = Cardinality(In(r, x)) + (IF v = x THEN 1 ELSE 0)
    BY <2>2, InAppended
  <2>4. QED
    BY <2>1, <2>2, <2>3 DEF OneIf
<1>3. QED
  BY <1>1, <1>2

(* A put adds its argument, a get takes its result away.                   *)
LEMMA StepOnQueue ==
  ASSUME NEW prog, NEW q \in Seq(Int), NEW c, c.func \in PutFuncs \cup GetFuncs, c.arg \in Int,
         Step(prog, q, c).ok, NEW x \in Nat
  PROVE  /\ Step(prog, q, c).q \in Seq(Int)
         /\ Cardinality(In(Step(prog, q, c).q, x)) + OneIf(c.func \in GetFuncs /\ c.ret_val = x)
              = Cardinality(In(q, x)) + OneIf(c.func \in PutFuncs /\ c.arg = x)
<1>0. Cardinality(In(q, x)) \in Nat
  BY InSequence
<1>1. ASSUME c.func \in PutFuncs
      PROVE  /\ Step(prog, q, c).q \in Seq(Int)
             /\ Cardinality(In(Step(prog, q, c).q, x)) = Cardinality(In(q, x)) + OneIf(c.arg = x)
  <2>1. CASE c.func = "wsq_put"
    <3>1. Step(prog, q, c).q = Append(q, c.arg)
      BY <2>1 DEF Step, PutBack, Outcome
    <3>2. QED
      BY <3>1, InAppended DEF OneIf
  <2>2. CASE c.func = "queue_enqueue"
    <3>1. Step(prog, q, c).q = <<c.arg>> \o q
      BY <2>2 DEF Step, PutFront, Outcome
    <3>2. QED
      BY <3>1, InPrepended DEF OneIf
  <2>3. QED
    BY <1>1, <2>1, <2>2 DEF PutFuncs
<1>2. ASSUME c.func \in GetFuncs
      PROVE  /\ Step(prog, q, c).q \in Seq(Int)
             /\ Cardinality(In(Step(prog, q, c).q, x)) + OneIf(c.ret_val = x)
                  = Cardinality(In(q, x))
  <2>1. Step(prog, q, c) = PopFront(q, c) \/ Step(prog, q, c) = PopBack(q, c)
    <3>1. CASE c.func = "wsq_take"
      BY <3>1 DEF Step, Take
    <3>2. CASE c.func = "wsq_steal"
      BY <3>2 DEF Step, Steal
    <3>3. CASE c.func = "queue_dequeue"
      BY <3>3 DEF Step
    <3>4. QED
      BY <1>2, <3>1, <3>2, <3>3 DEF GetFuncs
  <2>2. QED
    BY <2>1, PopFrontIs, PopBackIs
<1>3. ~ (c.func \in PutFuncs /\ c.func \in GetFuncs)
  BY DEF PutFuncs, GetFuncs
<1>4. CASE c.func \in PutFuncs
  <2>1. c.func \notin GetFuncs
    BY <1>3, <1>4
  <2>2. OneIf(c.func \in GetFuncs /\ c.ret_val = x) = 0
    BY <2>1 DEF OneIf
  <2>3. OneIf(c.func \in PutFuncs /\ c.arg = x) = OneIf(c.arg = x) /\ OneIf(c.arg = x) \in Nat
    BY <1>4 DEF OneIf
  <2>4. QED
    BY <1>0, <1>1, <1>4, <2>2, <2>3
<1>5. CASE c.func \in GetFuncs
  <2>1. c.func \notin PutFuncs
    BY <1>3, <1>5
  <2>2. OneIf(c.func \in PutFuncs /\ c.arg = x) = 0
    BY <2>1 DEF OneIf
  <2>3. OneIf(c.func \in GetFuncs /\ c.ret_val = x) = OneIf(c.ret_val = x)
    BY <1>5 DEF OneIf
  <2>4. QED
    BY <1>0, <1>2, <1>5, <2>2, <2>3
<1>6. QED
  BY <1>4, <1>5

-----------------------------------------------------------------------------
(* The calls of a run, all of them as specified.                           *)

Puts(calls, x, m) == {i \in 1 .. m : calls[i].func \in PutFuncs /\ calls[i].arg = x}
Gets(calls, x, m) == {i \in 1 .. m : calls[i].func \in GetFuncs /\ calls[i].ret_val = x}

(* Outcomes f of the n calls of a queue.                                   *)
QueueRun(prog, calls, f, n) ==
  /\ n \in Nat /\ Outcomes(prog, calls, f, n) /\ f[n].ok
  /\ prog \in WSQPrograms \cup {"QUEUE"}
  /\ \A i \in 1 .. n : calls[i].func \in PutFuncs \cup GetFuncs /\ calls[i].arg \in Int

LEMMA NumbersUpto ==
  ASSUME NEW n \in Nat, NEW m \in 1 .. n
  PROVE  /\ m \in Nat /\ m - 1 \in 0 .. n /\ m - 1 \in Nat /\ ~ (m <= m - 1)
         /\ m \in 0 .. n /\ (\A i \in 1 .. m : i \in 1 .. n)
         /\ \A i : i \in 1 .. m <=> i \in 1 .. m - 1 \/ i = m
         /\ m \notin 1 .. m - 1
OBVIOUS

(* Once a call is not as specified, the run stays where it is.             *)
LEMMA AllAsSpecified ==
  ASSUME NEW prog, NEW calls, NEW f, NEW n, QueueRun(prog, calls, f, n)
  PROVE  /\ f[0].q = <<>>
         /\ \A m \in 0 .. n : f[m].ok
         /\ \A m \in 1 .. n : f[m] = Step(prog, f[m - 1].q, calls[m])
<1>1. n \in Nat /\ f[n].ok
  BY DEF QueueRun
<1>2. f[0] = Outcome(TRUE, Initially(prog))
  <2>1. 0 \in 0 .. n
    BY <1>1
  <2>2. QED
    BY <2>1 DEF QueueRun, Outcomes
<1>3. ASSUME NEW m \in 1 .. n
      PROVE  f[m] = IF f[m - 1].ok THEN Step(prog, f[m - 1].q, calls[m]) ELSE f[m - 1]
  <2>1. m \in 0 .. n /\ m # 0
    BY <1>1
  <2>2. QED
    BY <2>1 DEF QueueRun, Outcomes
<1>4. ASSUME NEW m \in 0 .. n PROVE f[m].ok
  <2> DEFINE T == {k \in Nat : k <= n /\ ~ f[n - k].ok}
  <2>1. SUFFICES ASSUME T # {} PROVE FALSE
    <3>1. T = {}
      BY <2>1
    <3>2. n - m \in Nat /\ n - m <= n /\ n - (n - m) = m
      BY <1>1
    <3>3. QED
      BY <3>1, <3>2
  <2>2. T \subseteq Nat
    OBVIOUS
  <2>3. PICK k \in T : \A j \in T : k <= j
    BY <2>1, <2>2, Least
  <2>4. k \in Nat /\ k <= n /\ ~ f[n - k].ok
    OBVIOUS
  <2> HIDE DEF T
  <2>5. k # 0
    <3>1. k = 0 => n - k = n
      BY <1>1
    <3>2. QED
      BY <1>1, <2>4, <3>1
  <2>6. k - 1 \in Nat /\ k - 1 <= n /\ ~ (k <= k - 1) /\ n - (k - 1) \in 1 .. n
        /\ (n - (k - 1)) - 1 = n - k
    BY <1>1, <2>4, <2>5
  <2>7. f[n - (k - 1)].ok
    BY <2>3, <2>6 DEF T
  <2>8. f[n - (k - 1)] = f[n - k]
    BY <1>3, <2>4, <2>6
  <2>9. QED
    BY <2>4, <2>7, <2>8
<1>5. ASSUME NEW m \in 1 .. n PROVE f[m] = Step(prog, f[m - 1].q, calls[m])
  <2>1. m - 1 \in 0 .. n
    BY <1>1
  <2>2. QED
    BY <1>3, <1>4, <2>1
<1>6. QED
  BY <1>2, <1>4, <1>5 DEF Outcome, Initially, QueueRun

(* How many puts and gets a further call makes.                            *)
LEMMA OneMore ==
  ASSUME NEW n \in Nat, NEW m \in 1 .. n, NEW calls, NEW x
  PROVE  /\ Cardinality(Puts(calls, x, m - 1)) \in Nat /\ Cardinality(Gets(calls, x, m - 1)) \in Nat
         /\ Cardinality(Puts(calls, x, m)) = Cardinality(Puts(calls, x, m - 1))
              + OneIf(calls[m].func \in PutFuncs /\ calls[m].arg = x)
         /\ Cardinality(Gets(calls, x, m)) = Cardinality(Gets(calls, x, m - 1))
              + OneIf(calls[m].func \in GetFuncs /\ calls[m].ret_val = x)
<1> DEFINE p == calls[m].func \in PutFuncs /\ calls[m].arg = x
           g == calls[m].func \in GetFuncs /\ calls[m].ret_val = x
<1>1. /\ m - 1 \in Nat /\ m \notin 1 .. m - 1
      /\ \A i : i \in 1 .. m <=> i \in 1 .. m - 1 \/ i = m
  BY NumbersUpto
<1>2. IsFiniteSet(1 .. m - 1) /\ Puts(calls, x, m - 1) \subseteq 1 .. m - 1
      /\ Gets(calls, x, m - 1) \subseteq 1 .. m - 1
  BY <1>1, Numbers DEF Puts, Gets
<1>3. /\ IsFiniteSet(Puts(calls, x, m - 1)) /\ Cardinality(Puts(calls, x, m - 1)) \in Nat
      /\ IsFiniteSet(Gets(calls, x, m - 1)) /\ Cardinality(Gets(calls, x, m - 1)) \in Nat
  BY <1>2, MoreIn
<1>4. m \notin Puts(calls, x, m - 1) /\ m \notin Gets(calls, x, m - 1)
  BY <1>1, <1>2
<1>5. Cardinality(Puts(calls, x, m)) = Cardinality(Puts(calls, x, m - 1)) + OneIf(p)
  <2>1. CASE p
    <3>1. Puts(calls, x, m) = Puts(calls, x, m - 1) \cup {m}
      BY <1>1, <2>1 DEF Puts
    <3>2. QED
      BY <1>3, <1>4, <2>1, <3>1, FS_AddElement DEF OneIf
  <2>2. CASE ~ p
    <3>1. Puts(calls, x, m) = Puts(calls, x, m - 1)
      BY <1>1, <2>2 DEF Puts
    <3>2. OneIf(p) = 0
      BY <2>2 DEF OneIf
    <3>3. QED
      BY <1>3, <3>1, <3>2
  <2>3. QED
    BY <2>1, <2>2
<1>6. Cardinality(Gets(calls, x, m)) = Cardinality(Gets(calls, x, m - 1)) + OneIf(g)
  <2>1. CASE g
    <3>1. Gets(calls, x, m) = Gets(calls, x, m - 1) \cup {m}
      BY <1>1, <2>1 DEF Gets
    <3>2. QED
      BY <1>3, <1>4, <2>1, <3>1, FS_AddElement DEF OneIf
  <2>2. CASE ~ g
    <3>1. Gets(calls, x, m) = Gets(calls, x, m - 1)
      BY <1>1, <2>2 DEF Gets
    <3>2. OneIf(g) = 0
      BY <2>2 DEF OneIf
    <3>3. QED
      BY <1>3, <3>1, <3>2
  <2>3. QED
    BY <2>1, <2>2
<1>7. QED
  BY <1>3, <1>5, <1>6

(* What was put in was taken out or is there.                              *)
Balanced(calls, f, x, m) ==
  /\ f[m].q \in Seq(Int)
  /\ Cardinality(In(f[m].q, x)) + Cardinality(Gets(calls, x, m)) = Cardinality(Puts(calls, x, m))

LEMMA RunIsBalanced ==
  ASSUME NEW prog, NEW calls, NEW f, NEW n, QueueRun(prog, calls, f, n), NEW x \in Nat
  PROVE  \A m \in 0 .. n : Balanced(calls, f, x, m)
<1> DEFINE T == {m \in Nat : m <= n /\ ~ Balanced(calls, f, x, m)}
<1>0. n \in Nat
  BY DEF QueueRun
<1>1. SUFFICES ASSUME T # {} PROVE FALSE
  BY <1>0
<1>2. T \subseteq Nat
  OBVIOUS
<1>3. PICK m \in T : \A k \in T : m <= k
  BY <1>1, <1>2, Least
<1>4. m \in Nat /\ m <= n /\ ~ Balanced(calls, f, x, m)
  OBVIOUS
<1>5. CASE m = 0
  <2>1. f[0].q = <<>> /\ <<>> \in Seq(Int)
    BY AllAsSpecified
  <2>2. In(f[0].q, x) = {}
    BY <2>1 DEF In
  <2>3. Puts(calls, x, 0) = {} /\ Gets(calls, x, 0) = {}
    BY DEF Puts, Gets
  <2>4. Cardinality({}) = 0
    BY FS_EmptySet
  <2>5. Cardinality(In(f[0].q, x)) = 0 /\ Cardinality(Gets(calls, x, 0)) = 0
        /\ Cardinality(Puts(calls, x, 0)) = 0
    BY <2>2, <2>3, <2>4
  <2>6. Balanced(calls, f, x, 0)
    BY <2>1, <2>5 DEF Balanced
  <2>7. QED
    BY <1>4, <1>5, <2>6
<1>6. CASE m # 0
  <2>1. m \in 1 .. n
    BY <1>0, <1>4, <1>6
  <2>2. m - 1 \in Nat /\ m - 1 <= n /\ ~ (m <= m - 1)
    BY <1>0, <2>1
  <2>3. Balanced(calls, f, x, m - 1)
    BY <1>3, <2>2
  <2> HIDE DEF T
  <2> DEFINE q == f[m - 1].q
             c == calls[m]
  <2>4. q \in Seq(Int)
        /\ Cardinality(In(q, x)) + Cardinality(Gets(calls, x, m - 1)) = Cardinality(Puts(calls, x, m - 1))
    BY <2>3 DEF Balanced
  <2>5. f[m] = Step(prog, q, c) /\ f[m].ok /\ m \in 0 .. n
    BY <1>0, <2>1, AllAsSpecified
  <2>6. c.func \in PutFuncs \cup GetFuncs /\ c.arg \in Int
    BY <2>1 DEF QueueRun
  <2> DEFINE p == c.func \in PutFuncs /\ c.arg = x
             g == c.func \in GetFuncs /\ c.ret_val = x
  <2> HIDE DEF q, c
  <2>7. /\ f[m].q \in Seq(Int)
        /\ Cardinality(In(f[m].q, x)) + OneIf(g) = Cardinality(In(q, x)) + OneIf(p)
    BY <2>4, <2>5, <2>6, StepOnQueue
  <2>8. /\ Cardinality(Puts(calls, x, m - 1)) \in Nat /\ Cardinality(Gets(calls, x, m - 1)) \in Nat
        /\ Cardinality(Puts(calls, x, m)) = Cardinality(Puts(calls, x, m - 1)) + OneIf(p)
        /\ Cardinality(Gets(calls, x, m)) = Cardinality(Gets(calls, x, m - 1)) + OneIf(g)
    BY <1>0, <2>1, OneMore DEF c
  <2>9. Cardinality(In(f[m].q, x)) \in Nat /\ Cardinality(In(q, x)) \in Nat
    BY <2>4, <2>7, InSequence
  <2>10. OneIf(p) \in Nat /\ OneIf(g) \in Nat
    BY DEF OneIf
  <2> HIDE DEF p, g
  <2>11. Cardinality(In(f[m].q, x)) + Cardinality(Gets(calls, x, m)) = Cardinality(Puts(calls, x, m))
    BY <2>4, <2>7, <2>8, <2>9, <2>10
  <2>12. QED
    BY <1>4, <2>7, <2>11 DEF Balanced
<1>7. QED
  BY <1>5, <1>6

(* A get takes out what was put in before, and no more than was put in.    *)
LEMMA GetsFollowPuts ==
  ASSUME NEW prog, NEW calls, NEW f, NEW n, QueueRun(prog, calls, f, n), NEW x \in Nat
  PROVE  /\ Cardinality(Gets(calls, x, n)) <= Cardinality(Puts(calls, x, n))
         /\ \A i \in Gets(calls, x, n) : \E j \in Puts(calls, x, n) : j < i
<1>0. n \in Nat /\ \A m \in 0 .. n : Balanced(calls, f, x, m)
  BY RunIsBalanced DEF QueueRun
<1>1. ASSUME NEW m \in 0 .. n
      PROVE  /\ IsFiniteSet(Gets(calls, x, m)) /\ IsFiniteSet(Puts(calls, x, m))
             /\ Cardinality(Gets(calls, x, m)) \in Nat /\ Cardinality(Puts(calls, x, m)) \in Nat
             /\ Cardinality(Gets(calls, x, m)) <= Cardinality(Puts(calls, x, m))
  <2>1. IsFiniteSet(1 .. m) /\ Puts(calls, x, m) \subseteq 1 .. m /\ Gets(calls, x, m) \subseteq 1 .. m
    BY <1>0, Numbers DEF Puts, Gets
  <2>2. /\ IsFiniteSet(Gets(calls, x, m)) /\ IsFiniteSet(Puts(calls, x, m))
        /\ Cardinality(Gets(calls, x, m)) \in Nat /\ Cardinality(Puts(calls, x, m)) \in Nat
    BY <2>1, MoreIn
  <2>3. Balanced(calls, f, x, m)
    BY <1>0
  <2>4. Cardinality(In(f[m].q, x)) \in Nat
    BY <2>3, InSequence DEF Balanced
  <2>5. QED
    BY <2>2, <2>3, <2>4 DEF Balanced
<1>2. ASSUME NEW i \in Gets(calls, x, n) PROVE \E j \in Puts(calls, x, n) : j < i
  <2>1. i \in 1 .. n /\ i \in 0 .. n /\ i \in Gets(calls, x, i) /\ calls[i].func \notin PutFuncs
    BY <1>0 DEF Gets, GetFuncs, PutFuncs
  <2>2. Puts(calls, x, i) # {}
    <3>1. Cardinality(Gets(calls, x, i)) # 0
      BY <1>1, <2>1, FS_EmptySet
    <3>2. Cardinality(Puts(calls, x, i)) # 0
      BY <1>1, <2>1, <3>1
    <3>3. QED
      BY <3>2, FS_EmptySet
  <2>3. PICK j \in Puts(calls, x, i) : TRUE
    BY <2>2
  <2>4. j \in 1 .. i /\ j \in 1 .. n /\ j # i
    BY <1>0, <2>1 DEF Puts
  <2>5. j \in Puts(calls, x, n) /\ j < i
    BY <1>0, <2>1, <2>4 DEF Puts
  <2>6. QED
    BY <2>5
<1>3. n \in 0 .. n
  BY <1>0
<1>4. QED
  BY <1>1, <1>2, <1>3

-----------------------------------------------------------------------------
(* The queue of SpecQueue: enqueue puts in at the front, dequeue takes out *)
(* at the back, so what was put in later lies before.                      *)

Behind(q, x, y) == \A i \in In(q, x), j \in In(q, y) : j < i

LEMMA EnqueueKeepsOrder ==
  ASSUME NEW q \in Seq(Int), NEW v \in Int, NEW x, NEW y, x # y, Behind(q, x, y),
         v = x => In(q, y) = {}
  PROVE  Behind(<<v>> \o q, x, y)
<1> DEFINE r == <<v>> \o q
           n == Len(q)
<1>1. n \in Nat /\ DOMAIN r = 1 .. n + 1 /\ r[1] = v /\ \A i \in 1 .. n : r[i + 1] = q[i]
  BY Prepended
<1>2. DOMAIN q = 1 .. n
  BY LenProperties
<1> HIDE DEF r, n
<1>3. ASSUME NEW k \in DOMAIN r, k # 1, NEW u, r[k] = u
      PROVE  k - 1 \in In(q, u) /\ k \in Nat
  <2>1. k - 1 \in 1 .. n /\ (k - 1) + 1 = k /\ k \in Nat
    BY <1>1, <1>3
  <2>2. q[k - 1] = r[k]
    BY <1>1, <2>1
  <2>3. QED
    BY <1>2, <1>3, <2>1, <2>2 DEF In
<1>4. ASSUME NEW i \in In(r, x), NEW j \in In(r, y) PROVE j < i
  <2>1. i \in DOMAIN r /\ r[i] = x /\ j \in DOMAIN r /\ r[j] = y /\ i # j
    BY DEF In
  <2>2. CASE i = 1
    <3>1. v = x /\ j # 1
      BY <1>1, <2>1, <2>2
    <3>2. j - 1 \in In(q, y)
      BY <1>3, <2>1, <3>1
    <3>3. QED
      BY <3>1, <3>2
  <2>3. CASE i # 1 /\ j = 1
    BY <1>1, <2>1, <2>3
  <2>4. CASE i # 1 /\ j # 1
    <3>1. i - 1 \in In(q, x) /\ j - 1 \in In(q, y) /\ i \in Nat /\ j \in Nat
      BY <1>3, <2>1, <2>4
    <3>2. j - 1 < i - 1
      BY <3>1 DEF Behind
    <3>3. QED
      BY <3>1, <3>2
  <2>5. QED
    BY <2>2, <2>3, <2>4
<1>5. QED
  BY <1>4 DEF Behind, r

LEMMA DequeueKeepsOrder ==
  ASSUME NEW q \in Seq(Int), NEW c, PopBack(q, c).ok, NEW x \in Nat, NEW y \in Nat, Behind(q, x, y)
  PROVE  /\ Behind(PopBack(q, c).q, x, y)
         /\ c.ret_val = y => In(q, x) = {}
<1>1. CASE q = <<>>
  <2>1. PopBack(q, c).q = q /\ In(q, x) = {}
    BY <1>1 DEF PopBack, Outcome, In
  <2>2. QED
    BY <2>1
<1>2. CASE q # <<>>
  <2> DEFINE n == Len(q)
             r == SubSeq(q, 1, n - 1)
  <2>1. PopBack(q, c).q = r /\ c.ret_val = q[n]
    BY <1>2 DEF PopBack, Outcome
  <2>2. n \in Nat /\ n >= 1 /\ r \in Seq(Int) /\ Len(r) = n - 1 /\ \A i \in 1 .. n - 1 : r[i] = q[i]
    BY <1>2, FrontAndLast
  <2>3. DOMAIN q = 1 .. n /\ DOMAIN r = 1 .. n - 1
    BY <2>2, LenProperties
  <2> HIDE DEF n, r
  <2>4. In(r, x) \subseteq In(q, x) /\ In(r, y) \subseteq In(q, y)
    <3>1. \A i \in 1 .. n - 1 : i \in 1 .. n
      BY <2>2
    <3>2. QED
      BY <2>2, <2>3, <3>1 DEF In
  <2>5. Behind(r, x, y)
    BY <2>4 DEF Behind
  <2>6. ASSUME c.ret_val = y, NEW i \in In(q, x) PROVE FALSE
    <3>1. n \in 1 .. n
      BY <2>2
    <3>2. n \in In(q, y)
      BY <2>1, <2>3, <2>6, <3>1 DEF In
    <3>3. n < i /\ i \in 1 .. n
      BY <2>3, <3>2 DEF Behind, In
    <3>4. QED
      BY <2>2, <3>3
  <2>7. QED
    BY <2>1, <2>5, <2>6
<1>3. QED
  BY <1>1, <1>2

(* While x has not been taken out, it lies behind every y put in later.    *)
LEMMA OrderOfRun ==
  ASSUME NEW calls, NEW f, NEW n, QueueRun("QUEUE", calls, f, n),
         \A i \in 1 .. n : calls[i].func \in {"queue_enqueue", "queue_dequeue"},
         NEW x \in Nat, NEW y \in Nat, x # y,
         \A i \in Puts(calls, x, n), j \in Puts(calls, y, n) : i < j
  PROVE  \A m \in 0 .. n : Behind(f[m].q, x, y)
<1> DEFINE T == {m \in Nat : m <= n /\ ~ Behind(f[m].q, x, y)}
<1>0. n \in Nat /\ \A m \in 0 .. n : Balanced(calls, f, y, m)
  BY RunIsBalanced DEF QueueRun
<1>1. SUFFICES ASSUME T # {} PROVE FALSE
  BY <1>0
<1>2. T \subseteq Nat
  OBVIOUS
<1>3. PICK m \in T : \A k \in T : m <= k
  BY <1>1, <1>2, Least
<1>4. m \in Nat /\ m <= n /\ ~ Behind(f[m].q, x, y)
  OBVIOUS
<1>5. CASE m = 0
  <2>1. f[0].q = <<>>
    BY AllAsSpecified
  <2>2. In(f[0].q, x) = {}
    BY <2>1 DEF In
  <2>3. Behind(f[0].q, x, y)
    BY <2>2 DEF Behind
  <2>4. QED
    BY <1>4, <1>5, <2>3
<1>6. CASE m # 0
  <2>1. m \in 1 .. n /\ m - 1 \in 0 .. n
    BY <1>0, <1>4, <1>6
  <2>2. m - 1 \in Nat /\ m - 1 <= n /\ ~ (m <= m - 1)
    BY <1>0, <2>1
  <2>3. Behind(f[m - 1].q, x, y)
    BY <1>3, <2>2
  <2> HIDE DEF T
  <2> DEFINE q == f[m - 1].q
             c == calls[m]
  <2>4. Balanced(calls, f, y, m - 1)
    BY <1>0, <2>1
  <2>5. q \in Seq(Int)
        /\ Cardinality(In(q, y)) + Cardinality(Gets(calls, y, m - 1)) = Cardinality(Puts(calls, y, m - 1))
    BY <2>4 DEF Balanced
  <2>6. f[m] = Step("QUEUE", q, c) /\ f[m].ok /\ m \in 0 .. n
    BY <1>0, <2>1, AllAsSpecified
  <2>7. c.func \in {"queue_enqueue", "queue_dequeue"} /\ c.arg \in Int
    BY <2>1 DEF QueueRun
  <2>8. c.func \in PutFuncs /\ c.arg = x => In(q, y) = {}
    <3>1. SUFFICES ASSUME c.func \in PutFuncs, c.arg = x PROVE In(q, y) = {}
      OBVIOUS
    <3>2. m \in Puts(calls, x, n)
      BY <2>1, <3>1 DEF Puts
    <3>3. \A j \in 1 .. m - 1 : j \in 1 .. n /\ ~ (m < j)
      BY <1>0, <2>1
    <3>4. Puts(calls, y, m - 1) = {}
      <4>1. ASSUME NEW j \in Puts(calls, y, m - 1) PROVE FALSE
        <5>1. j \in 1 .. m - 1
          BY DEF Puts
        <5>2. j \in Puts(calls, y, n)
          BY <3>3, <5>1 DEF Puts
        <5>3. m < j
          BY <3>2, <5>2
        <5>4. QED
          BY <3>3, <5>1, <5>3
      <4>2. QED
        BY <4>1
    <3>5. Cardinality(Puts(calls, y, m - 1)) = 0
      BY <3>4, FS_EmptySet
    <3>6. Cardinality(Gets(calls, y, m - 1)) \in Nat
      BY <1>0, <2>1, OneMore
    <3>7. IsFiniteSet(In(q, y)) /\ Cardinality(In(q, y)) \in Nat
      BY <2>5, InSequence
    <3>8. Cardinality(In(q, y)) = 0
      BY <2>5, <3>5, <3>6, <3>7
    <3>9. QED
      BY <3>7, <3>8, FS_EmptySet
  <2>9. Behind(q, x, y)
    BY <2>3
  <2> HIDE DEF q, c
  <2>10. CASE c.func = "queue_enqueue"
    <3>1. f[m].q = <<c.arg>> \o q /\ c.func \in PutFuncs
      BY <2>6, <2>10 DEF Step, PutFront, Outcome, PutFuncs
    <3>2. Behind(<<c.arg>> \o q, x, y)
      BY <2>5, <2>7, <2>8, <2>9, <3>1, EnqueueKeepsOrder
    <3>3. QED
      BY <1>4, <3>1, <3>2
  <2>11. CASE c.func = "queue_dequeue"
    <3>1. f[m] = PopBack(q, c)
      BY <2>6, <2>11 DEF Step
    <3>2. Behind(PopBack(q, c).q, x, y)
      BY <2>5, <2>6, <2>9, <3>1, DequeueKeepsOrder
    <3>3. QED
      BY <1>4, <3>1, <3>2
  <2>12. QED
    BY <2>7, <2>10, <2>11
<1>7. QED
  BY <1>5, <1>6

(* So y does not come out before x.                                        *)
LEMMA FirstOut ==
  ASSUME NEW calls, NEW f, NEW n, QueueRun("QUEUE", calls, f, n),
         \A i \in 1 .. n : calls[i].func \in {"queue_enqueue", "queue_dequeue"},
         NEW x \in Nat, NEW y \in Nat, x # y,
         \A i \in Puts(calls, x, n), j \in Puts(calls, y, n) : i < j,
         Puts(calls, x, n) # {}, NEW i \in Gets(calls, y, n)
  PROVE  \E k \in Gets(calls, x, n) : k < i
<1>1. n \in Nat /\ i \in 1 .. n /\ i - 1 \in 0 .. n /\ calls[i].func \in GetFuncs /\ calls[i].ret_val = y
  BY DEF QueueRun, Gets
<1> DEFINE q == f[i - 1].q
           c == calls[i]
<1>2. f[i] = Step("QUEUE", q, c) /\ f[i].ok /\ Behind(q, x, y) /\ Balanced(calls, f, x, i - 1)
  <2>1. i \in 0 .. n
    BY <1>1
  <2>2. QED
    BY <1>1, <2>1, AllAsSpecified, OrderOfRun, RunIsBalanced
<1>3. c.func = "queue_dequeue"
  BY <1>1 DEF GetFuncs
<1>4. f[i] = PopBack(q, c) /\ q \in Seq(Int)
  BY <1>2, <1>3 DEF Step, Balanced
<1>5. In(q, x) = {}
  BY <1>1, <1>2, <1>4, DequeueKeepsOrder
<1>6. Cardinality(In(q, x)) = 0
  BY <1>5, FS_EmptySet
<1>7. /\ Cardinality(Gets(calls, x, i - 1)) \in Nat /\ Cardinality(Puts(calls, x, i - 1)) \in Nat
      /\ i - 1 \in Nat
  BY <1>1, OneMore
<1>8. Cardinality(Gets(calls, x, i - 1)) = Cardinality(Puts(calls, x, i - 1))
  BY <1>2, <1>6, <1>7 DEF Balanced
<1>9. Puts(calls, x, i - 1) # {}
  <2>1. PICK a \in Puts(calls, x, n) : TRUE
    OBVIOUS
  <2>2. PICK b \in Puts(calls, y, n) : b < i
    BY GetsFollowPuts
  <2>3. a < b
    BY <2>1, <2>2
  <2>4. a \in 1 .. n /\ b \in 1 .. n
    BY <2>1, <2>2 DEF Puts
  <2>5. a \in 1 .. i - 1
    BY <1>1, <2>2, <2>3, <2>4
  <2>6. a \in Puts(calls, x, i - 1)
    BY <2>1, <2>5 DEF Puts
  <2>7. QED
    BY <2>6
<1>10. Gets(calls, x, i - 1) # {}
  <2>1. IsFiniteSet(1 .. i - 1) /\ Puts(calls, x, i - 1) \subseteq 1 .. i - 1
    BY <1>7, Numbers DEF Puts
  <2>2. IsFiniteSet(Puts(calls, x, i - 1))
    BY <2>1, MoreIn
  <2>3. Cardinality(Puts(calls, x, i - 1)) # 0
    BY <1>9, <2>2, FS_EmptySet
  <2>4. QED
    BY <1>8, <2>3, FS_EmptySet
<1>11. PICK k \in Gets(calls, x, i - 1) : TRUE
  BY <1>10
<1>12. k \in 1 .. i - 1 /\ k \in 1 .. n /\ k < i
  <2>1. k \in 1 .. i - 1
    BY <1>11 DEF Gets
  <2>2. QED
    BY <1>1, <2>1
<1>13. k \in Gets(calls, x, n)
  BY <1>11, <1>12 DEF Gets
<1>14. QED
  BY <1>12, <1>13

-----------------------------------------------------------------------------
(* The run by which the checker accepts a history.                         *)

LEMMA ValuesOf ==
  ASSUME HistoryOK, NEW C, C = Completed, NEW i \in DOMAIN C
  PROVE  C[i].func \in Methods /\ C[i].arg \in Int
<1> DEFINE r == Nth(Returns, i)
<1>1. IsFiniteSet(Returns) /\ Returns \subseteq Nat /\ i \in 1 .. Cardinality(Returns)
  BY EventNumbers DEF Completed
<1>2. r \in Returns
  BY <1>1, NthIs
<1>3. C[i].func = trace_rec[r].func /\ C[i].arg = trace_rec[CallOf(r)].val
  BY <1>1 DEF Completed
<1> HIDE DEF r
<1>4. r \in DOMAIN trace_rec /\ CallOf(r) \in DOMAIN trace_rec
  BY <1>2, EventNumbers, CallOfIs
<1>5. trace_rec[r] \in Event /\ trace_rec[CallOf(r)] \in Event
  BY <1>4, EventNumbers
<1>6. QED
  BY <1>3, <1>5 DEF Event

(* The calls of an accepted history, in the order that explains it.        *)
Accepts(calls, f, n) ==
  /\ QueueRun(programToCheck, calls, f, n)
  /\ DOMAIN calls = 1 .. n
  /\ programToCheck = "QUEUE" =>
       \A i \in 1 .. n : calls[i].func \in {"queue_enqueue", "queue_dequeue"}
  /\ \A c : c \in Range(Completed) <=> \E i \in 1 .. n : c = calls[i]
  /\ \A i, j \in 1 .. n : calls[i] = calls[j] => i = j
  /\ \A i \in 1 .. n : /\ calls[i].call \in Nat /\ calls[i].ret \in Nat
                       /\ calls[i].call < calls[i].ret
  /\ \A i, j \in 1 .. n : calls[i].call # calls[j].ret
  /\ Property = "LIN" => \A i, j \in 1 .. n : i < j => ~ (calls[j].ret < calls[i].call)

LEMMA MethodsOfQueues ==
  ASSUME programToCheck \in WSQPrograms \cup {"QUEUE"}
  PROVE  /\ Methods \subseteq PutFuncs \cup GetFuncs
         /\ programToCheck = "QUEUE" => Methods = {"queue_enqueue", "queue_dequeue"}
<1>1. CASE programToCheck \in WSQPrograms
  <2>1. programToCheck \notin {"QUEUE", "LINKSET", "LF_MALLOC"}
    BY <1>1 DEF WSQPrograms
  <2>2. Methods = {"wsq_put", "wsq_take", "wsq_steal"}
    BY <1>1, <2>1 DEF Methods
  <2>3. QED
    BY <2>1, <2>2 DEF PutFuncs, GetFuncs
<1>2. CASE programToCheck = "QUEUE"
  <2>1. programToCheck \notin WSQPrograms
    BY <1>2 DEF WSQPrograms
  <2>2. Methods = {"queue_enqueue", "queue_dequeue"}
    BY <1>2, <2>1 DEF Methods
  <2>3. QED
    BY <2>2 DEF PutFuncs, GetFuncs
<1>3. QED
  BY <1>1, <1>2

LEMMA AcceptedRun ==
  ASSUME CInv, check = "succeeded", programToCheck \in WSQPrograms \cup {"QUEUE"}
  PROVE  \E calls, f, n : Accepts(calls, f, n)
<1> DEFINE C == Completed
           n == Cardinality(Returns)
           p == Interleaving(C, thread_perm)
           calls == [i \in DOMAIN p |-> C[p[i]]]
<1>1. HistoryOK /\ init_perm = C /\ Fits(thread_perm, C)
      /\ Explains(C, programToCheck, Property, p)
  BY DEF CInv, Listed, Tried, Explanation
<1>2. /\ n \in Nat /\ DOMAIN C = 1 .. n
      /\ \A i \in 1 .. n : /\ C[i].call \in Nat /\ C[i].ret \in Nat /\ C[i].call < C[i].ret
                           /\ C[i].call \notin Returns /\ C[i].ret \in Returns
      /\ \A i, j \in 1 .. n : i < j => C[i].ret < C[j].ret
  BY <1>1, CompletedIs
<1>3. \A i \in 1 .. n : C[i].func \in Methods /\ C[i].arg \in Int
  BY <1>1, <1>2, ValuesOf
<1>4. p \in Bijection(1 .. n, 1 .. n)
  BY <1>1, <1>2, InterleavingIs
<1>5. /\ DOMAIN p = 1 .. n /\ \A i \in 1 .. n : p[i] \in 1 .. n
      /\ \A i, j \in 1 .. n : p[i] = p[j] => i = j
      /\ \A k \in 1 .. n : \E i \in 1 .. n : p[i] = k
  BY <1>4 DEF Bijection, Injection, Surjection, IsInjective
<1>6. Range(C) = {C[k] : k \in DOMAIN C}
  BY DEF Range
<1> HIDE DEF C, n, p
<1>7. DOMAIN calls = 1 .. n /\ \A i \in 1 .. n : calls[i] = C[p[i]]
  BY <1>5
<1>8. Run(programToCheck, calls).ok /\ (Property = "LIN" => Keeps(C, p))
  BY <1>1 DEF Explains
<1> HIDE DEF calls
<1>9. ASSUME NEW i \in 1 .. n, NEW j \in 1 .. n, calls[i] = calls[j] PROVE i = j
  <2>1. p[i] \in 1 .. n /\ p[j] \in 1 .. n /\ C[p[i]].ret = C[p[j]].ret
    BY <1>5, <1>7, <1>9
  <2>2. C[p[i]].ret \in Nat /\ ~ (C[p[i]].ret < C[p[j]].ret) /\ ~ (C[p[j]].ret < C[p[i]].ret)
    BY <1>2, <2>1
  <2>3. ~ (p[i] < p[j]) /\ ~ (p[j] < p[i])
    BY <1>2, <2>1, <2>2
  <2>4. p[i] = p[j]
    BY <1>2, <2>1, <2>3
  <2>5. QED
    BY <1>5, <2>4
<1>10. ASSUME NEW i \in 1 .. n
       PROVE  /\ calls[i].call \in Nat /\ calls[i].ret \in Nat
              /\ calls[i].call < calls[i].ret
              /\ calls[i].call \notin Returns /\ calls[i].ret \in Returns
              /\ calls[i].func \in Methods /\ calls[i].arg \in Int
  <2>1. p[i] \in 1 .. n /\ calls[i] = C[p[i]]
    BY <1>5, <1>7
  <2>2. QED
    BY <1>2, <1>3, <2>1
<1>11. ASSUME Property = "LIN", NEW i \in 1 .. n, NEW j \in 1 .. n, i < j,
              calls[j].ret < calls[i].call
       PROVE  FALSE
  <2>1. Overlap(calls[i], calls[j]) \/ ~ (calls[i].call > calls[j].call)
    <3>1. i \in DOMAIN p /\ j \in DOMAIN p /\ calls[i] = C[p[i]] /\ calls[j] = C[p[j]]
      BY <1>5, <1>7
    <3>2. Overlap(C[p[i]], C[p[j]]) \/ ~ (C[p[i]].call > C[p[j]].call)
      BY <1>8, <1>11, <3>1 DEF Keeps
    <3>3. QED
      BY <3>1, <3>2
  <2>2. /\ calls[i].call \in Nat /\ calls[i].ret \in Nat /\ calls[i].call < calls[i].ret
        /\ calls[j].call \in Nat /\ calls[j].ret \in Nat /\ calls[j].call < calls[j].ret
    BY <1>10
  <2>3. calls[i].call > calls[j].call
    BY <1>11, <2>2
  <2>4. ~ (calls[i].call < calls[j].ret) /\ ~ (calls[j].call > calls[i].call)
    BY <1>11, <2>2
  <2>5. QED
    BY <2>1, <2>3, <2>4 DEF Overlap
<1>12. ASSUME NEW c PROVE c \in Range(C) <=> \E i \in 1 .. n : c = calls[i]
  <2>1. c \in Range(C) <=> \E k \in 1 .. n : c = C[k]
    BY <1>2, <1>6
  <2>2. QED
    BY <1>5, <1>7, <2>1, SMTT(30)
<1>13. Len(calls) = n
  BY <1>2, <1>7
<1>14. PICK f : Outcomes(programToCheck, calls, f, n) /\ Run(programToCheck, calls) = f[n]
  BY <1>2, <1>13, RunIs
<1>15. QueueRun(programToCheck, calls, f, n)
  BY <1>2, <1>8, <1>10, <1>14, MethodsOfQueues DEF QueueRun
<1>16. programToCheck = "QUEUE" =>
         \A i \in 1 .. n : calls[i].func \in {"queue_enqueue", "queue_dequeue"}
  BY <1>10, MethodsOfQueues
<1>17. \A i, j \in 1 .. n : calls[i].call # calls[j].ret
  BY <1>10
<1>18. \A i \in 1 .. n : /\ calls[i].call \in Nat /\ calls[i].ret \in Nat
                         /\ calls[i].call < calls[i].ret
  BY <1>10
<1>19. Accepts(calls, f, n)
  BY <1>7, <1>9, <1>11, <1>12, <1>15, <1>16, <1>17, <1>18 DEF Accepts, C
<1>20. QED
  BY <1>19

(* The puts and gets of the history are those of the run.                  *)
LEMMA PutsAndGets ==
  ASSUME NEW calls, NEW f, NEW n, Accepts(calls, f, n), NEW x
  PROVE  /\ Putting(x) = {calls[i] : i \in Puts(calls, x, n)}
         /\ Getting(x) = {calls[i] : i \in Gets(calls, x, n)}
         /\ Cardinality(Putting(x)) = Cardinality(Puts(calls, x, n))
         /\ Cardinality(Getting(x)) = Cardinality(Gets(calls, x, n))
<1>1. /\ n \in Nat
      /\ \A c : c \in Range(Completed) <=> \E i \in 1 .. n : c = calls[i]
      /\ \A i, j \in 1 .. n : calls[i] = calls[j] => i = j
  BY DEF Accepts, QueueRun
<1>2. Putting(x) = {calls[i] : i \in Puts(calls, x, n)}
  BY <1>1 DEF Putting, Puts, PutFuncs
<1>3. Getting(x) = {calls[i] : i \in Gets(calls, x, n)}
  BY <1>1 DEF Getting, Gets, GetFuncs
<1>4. IsFiniteSet(1 .. n) /\ Puts(calls, x, n) \subseteq 1 .. n /\ Gets(calls, x, n) \subseteq 1 .. n
  BY <1>1, Numbers DEF Puts, Gets
<1>5. IsFiniteSet(Puts(calls, x, n)) /\ IsFiniteSet(Gets(calls, x, n))
  BY <1>4, MoreIn
<1>6. /\ \A i, j \in Puts(calls, x, n) : calls[i] = calls[j] => i = j
      /\ \A i, j \in Gets(calls, x, n) : calls[i] = calls[j] => i = j
  BY <1>1, <1>4
<1>7. /\ Cardinality({calls[i] : i \in Puts(calls, x, n)}) = Cardinality(Puts(calls, x, n))
      /\ Cardinality({calls[i] : i \in Gets(calls, x, n)}) = Cardinality(Gets(calls, x, n))
  BY <1>5, <1>6, ImageSize
<1>8. QED
  BY <1>2, <1>3, <1>7

LEMMA TasksComeHolds ==
  ASSUME CInv PROVE TasksComeFromPuts
<1>1. SUFFICES ASSUME check = "succeeded", programToCheck \in WSQPrograms \cup {"QUEUE"},
                      NEW x \in Task
               PROVE  /\ Cardinality(Getting(x)) <= Cardinality(Putting(x))
                      /\ Property = "LIN" => \A c \in Getting(x) : \E d \in Putting(x) : d.call < c.ret
  BY DEF TasksComeFromPuts
<1>2. PICK calls, f, n : Accepts(calls, f, n)
  BY <1>1, AcceptedRun
<1>3. x \in Nat
  BY CallsAssumption
<1>4. QueueRun(programToCheck, calls, f, n) /\ n \in Nat
  BY <1>2 DEF Accepts, QueueRun
<1>5. /\ Cardinality(Gets(calls, x, n)) <= Cardinality(Puts(calls, x, n))
      /\ \A i \in Gets(calls, x, n) : \E j \in Puts(calls, x, n) : j < i
  BY <1>3, <1>4, GetsFollowPuts
<1>6. /\ Putting(x) = {calls[i] : i \in Puts(calls, x, n)}
      /\ Getting(x) = {calls[i] : i \in Gets(calls, x, n)}
      /\ Cardinality(Putting(x)) = Cardinality(Puts(calls, x, n))
      /\ Cardinality(Getting(x)) = Cardinality(Gets(calls, x, n))
  BY <1>2, PutsAndGets
<1>7. ASSUME Property = "LIN", NEW c \in Getting(x) PROVE \E d \in Putting(x) : d.call < c.ret
  <2>1. PICK i \in Gets(calls, x, n) : c = calls[i]
    BY <1>6
  <2>2. PICK j \in Puts(calls, x, n) : j < i
    BY <1>5
  <2>3. i \in 1 .. n /\ j \in 1 .. n
    BY DEF Gets, Puts
  <2>4. /\ ~ (calls[i].ret < calls[j].call) /\ calls[j].call # calls[i].ret
        /\ calls[i].ret \in Nat /\ calls[j].call \in Nat
    BY <1>2, <1>7, <2>2, <2>3 DEF Accepts
  <2>5. calls[j].call < calls[i].ret
    BY <2>4
  <2>6. QED
    BY <1>6, <2>1, <2>5
<1>8. QED
  BY <1>5, <1>6, <1>7

LEMMA FirstInHolds ==
  ASSUME CInv PROVE FirstInFirstOut
<1>1. SUFFICES ASSUME check = "succeeded", programToCheck = "QUEUE", Property = "LIN",
                      NEW x \in Task, NEW y \in Task,
                      NEW c \in Putting(x), NEW d \in Putting(y), NEW e \in Getting(y),
                      Putting(x) = {c}, Putting(y) = {d}, c.ret < d.call
               PROVE  \E g \in Getting(x) : ~ (e.ret < g.call)
  BY DEF FirstInFirstOut
<1>2. PICK calls, f, n : Accepts(calls, f, n)
  BY <1>1, AcceptedRun
<1>3. x \in Nat /\ y \in Nat
  BY CallsAssumption
<1>4. /\ QueueRun("QUEUE", calls, f, n) /\ n \in Nat
      /\ \A i \in 1 .. n : calls[i].func \in {"queue_enqueue", "queue_dequeue"}
  BY <1>1, <1>2 DEF Accepts, QueueRun
<1>5. /\ Putting(x) = {calls[i] : i \in Puts(calls, x, n)}
      /\ Getting(x) = {calls[i] : i \in Gets(calls, x, n)}
      /\ Putting(y) = {calls[i] : i \in Puts(calls, y, n)}
      /\ Getting(y) = {calls[i] : i \in Gets(calls, y, n)}
  BY <1>2, PutsAndGets
<1>6. /\ \A i \in 1 .. n : /\ calls[i].call \in Nat /\ calls[i].ret \in Nat
                           /\ calls[i].call < calls[i].ret
      /\ \A i, j \in 1 .. n : i < j => ~ (calls[j].ret < calls[i].call)
  BY <1>1, <1>2 DEF Accepts
<1>7. /\ \A i \in Puts(calls, x, n) : i \in 1 .. n /\ calls[i] = c
      /\ \A i \in Puts(calls, y, n) : i \in 1 .. n /\ calls[i] = d
  <2>1. /\ Puts(calls, x, n) \subseteq 1 .. n /\ Puts(calls, y, n) \subseteq 1 .. n
    BY DEF Puts
  <2>2. QED
    BY <1>1, <1>5, <2>1
<1>8. PICK a \in Puts(calls, x, n) : calls[a] = c
  BY <1>5
<1>9. x # y
  <2>1. SUFFICES ASSUME x = y PROVE FALSE
    OBVIOUS
  <2>2. c = d
    BY <1>1, <2>1
  <2>3. calls[a].ret < calls[a].call /\ a \in 1 .. n
    BY <1>1, <1>7, <1>8, <2>2
  <2>4. QED
    BY <1>6, <2>3
<1>10. ASSUME NEW i \in Puts(calls, x, n), NEW j \in Puts(calls, y, n) PROVE i < j
  <2>1. i \in 1 .. n /\ j \in 1 .. n /\ calls[i].ret < calls[j].call
    BY <1>1, <1>7
  <2>2. ~ (j < i)
    BY <1>6, <2>1
  <2>3. i # j
    <3>1. calls[i].call \in Nat /\ calls[i].ret \in Nat /\ calls[i].call < calls[i].ret
      BY <1>6, <2>1
    <3>2. QED
      BY <2>1, <3>1
  <2>4. i \in Int /\ j \in Int
    BY <1>4, <2>1
  <2>5. QED
    BY <2>2, <2>3, <2>4
<1>11. PICK i \in Gets(calls, y, n) : e = calls[i]
  BY <1>5
<1>12. PICK k \in Gets(calls, x, n) : k < i
  BY <1>3, <1>4, <1>8, <1>9, <1>10, FirstOut
<1>13. i \in 1 .. n /\ k \in 1 .. n
  BY DEF Gets
<1>14. ~ (calls[i].ret < calls[k].call)
  BY <1>6, <1>12, <1>13
<1>15. QED
  BY <1>5, <1>11, <1>14

-----------------------------------------------------------------------------
(* Theorems.                                                               *)

(* In a history of a queue the checker accepts, no task comes out more     *)
(* often than it was put in, nor, for linearizability, before it was put   *)
(* in: for any number of calls and threads (checkPermutation, the seq_wsq  *)
(* and seq_queue functions).                                               *)
THEOREM AcceptedTasksComeFromPuts == Spec => []TasksComeFromPuts
<1>1. CInv => TasksComeFromPuts
  BY TasksComeHolds
<1>2. QED
  BY <1>1, Invariant, PTL

(* A history of a queue that the checker accepts as linearizable is first  *)
(* in, first out (checkPermutation, SpecQueue).                            *)
THEOREM AcceptedQueuesAreFIFO == Spec => []FirstInFirstOut
<1>1. CInv => FirstInFirstOut
  BY FirstInHolds
<1>2. QED
  BY <1>1, Invariant, PTL
=============================================================================
