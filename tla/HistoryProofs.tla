--------------------------- MODULE HistoryProofs ---------------------------
(***************************************************************************)
(* The history of calls and returns is well formed, for every program,     *)
(* number of threads, depth of recursion and set of recorded functions.    *)
(*                                                                         *)
(* HistoryWellFormed is not inductive: a return is recorded from a counter *)
(* alone, so the invariant also says that the counter has an entry for     *)
(* every thread started, and which open call the last record of a thread   *)
(* is about: the one lowest on its stack.                                  *)
(***************************************************************************)
EXTENDS InterpreterProofs, FiniteSetTheorems

IsLast(t, k) == k \in EventsOf(t) /\ \A j \in EventsOf(t) : j <= k

CounterOK(t) ==
  t < nextThreadNum /\ threadStacks[t] # <<>> => recur_calls[t] = Cardinality(OpenCalls(t))

Alternating(t) ==
  \A k \in EventsOf(t) :
     IF trace_rec[k].type = "CALL_FUNC"
     THEN \A j \in EventsOf(t) : Follows(j, k, t) => trace_rec[j].type = "RETURN_FUNC"
     ELSE \E j \in EventsOf(t) :
             /\ Follows(j, k, t)
             /\ trace_rec[j].type = "CALL_FUNC" /\ trace_rec[j].func = trace_rec[k].func

OpenAtEnd(t) == InCall(t) <=> OpenCalls(t) # {}

LastIsLowest(t) ==
  \A k \in EventsOf(t) :
     IsLast(t, k) /\ trace_rec[k].type = "CALL_FUNC" =>
       \E f \in OpenCalls(t) : /\ \A g \in OpenCalls(t) : f <= g
                               /\ threadStacks[t][f].fn = trace_rec[k].func

ThreadOK(t) == CounterOK(t) /\ Alternating(t) /\ OpenAtEnd(t) /\ LastIsLowest(t)

(* A thread that was not started has no frames, and no counter yet.        *)
Numbers ==
  /\ Len(recur_calls) + 1 = nextThreadNum
  /\ \A t \in Thread : threadStacks[t] # <<>> => t < nextThreadNum

HInv == IInv /\ Numbers /\ \A t \in Thread : ThreadOK(t)

LEMMA HInvImplies ==
  ASSUME HInv
  PROVE  HistoryWellFormed
BY DEF HInv, ThreadOK, CounterOK, Alternating, OpenAtEnd, HistoryWellFormed

-----------------------------------------------------------------------------
(* Steps that do not touch the history or the functions on a stack.        *)

(* What ThreadOK(t) says of t depends on its events, on the recorded       *)
(* functions on its stack and on its counter only.                         *)
LEMMA Undisturbed ==
  ASSUME NEW t \in Thread, ThreadOK(t),
         EventsOf(t)' = EventsOf(t),
         \A k \in EventsOf(t) : trace_rec'[k] = trace_rec[k],
         OpenCalls(t)' = OpenCalls(t),
         \A k \in OpenCalls(t) : threadStacks'[t][k].fn = threadStacks[t][k].fn,
         recur_calls'[t] = recur_calls[t] \/ threadStacks'[t] = <<>>,
         nextThreadNum' = nextThreadNum \/ t < nextThreadNum \/ threadStacks'[t] = <<>>,
         threadStacks'[t] # <<>> => threadStacks[t] # <<>>
  PROVE  ThreadOK(t)'
<1>1. \A j, k : Follows(j, k, t)' = Follows(j, k, t)
  BY DEF Follows
<1>2. \A k : IsLast(t, k)' <=> IsLast(t, k)
  BY DEF IsLast
<1>3. CounterOK(t)'
  BY DEF ThreadOK, CounterOK
<1>4. Alternating(t)'
  BY <1>1 DEF ThreadOK, Alternating
<1>5. InCall(t)' <=> InCall(t)
  BY DEF InCall
<1>6. OpenAtEnd(t)'
  BY <1>5 DEF ThreadOK, OpenAtEnd
<1>7. LastIsLowest(t)'
  BY <1>2 DEF ThreadOK, LastIsLowest
<1>8. QED
  BY <1>3, <1>4, <1>6, <1>7 DEF ThreadOK

(* Stacks on which the functions of the frames are what they were.         *)
SameFunctions(t) ==
  /\ Len(threadStacks'[t]) = Len(threadStacks[t])
  /\ threadStacks'[t] # <<>> => threadStacks[t] # <<>>
  /\ \A k \in 1 .. Len(threadStacks[t]) : threadStacks'[t][k].fn = threadStacks[t][k].fn

LEMMA SameStacks ==
  ASSUME HInv, IInv', UNCHANGED <<trace_rec, recur_calls, nextThreadNum>>,
         \A t \in Thread : SameFunctions(t)
  PROVE  HInv'
<1>1. ASSUME NEW t \in Thread
      PROVE  ThreadOK(t)' /\ (threadStacks'[t] # <<>> => t < nextThreadNum)
  <2>1. SameFunctions(t) /\ ThreadOK(t)
    BY DEF HInv
  <2>2. EventsOf(t)' = EventsOf(t)
    BY DEF EventsOf
  <2>3. /\ OpenCalls(t)' = OpenCalls(t)
        /\ \A k \in OpenCalls(t) : threadStacks'[t][k].fn = threadStacks[t][k].fn
    <3>1. Len(threadStacks[t]) \in Nat
      BY LenProperties DEF HInv, IInv, TypeOK
    <3>2. QED
      BY <2>1, <3>1 DEF SameFunctions, OpenCalls
  <2>4. ThreadOK(t)'
    BY <2>1, <2>2, <2>3, Undisturbed DEF SameFunctions
  <2>5. QED
    BY <2>1, <2>4 DEF SameFunctions, HInv, Numbers
<1>2. Numbers'
  BY <1>1 DEF HInv, Numbers
<1>3. QED
  BY <1>1, <1>2 DEF HInv

LEMMA TopReplaced ==
  ASSUME IInv, NEW t \in Active, NEW fr, fr.fn = Top(t).fn, threadStacks' = WithTop(t, fr)
  PROVE  \A u \in Thread : SameFunctions(u)
<1>1. /\ t \in Thread /\ Len(threadStacks[t]) \in Nat \ {0}
      /\ threadStacks \in [Thread -> Seq(Frame)] /\ threadStacks[t] # <<>>
  BY TopType DEF IInv, TypeOK, Active
<1>2. threadStacks'[t] = [threadStacks[t] EXCEPT ![Len(threadStacks[t])] = fr]
  BY <1>1 DEF WithTop
<1>3. \A u \in Thread \ {t} : threadStacks'[u] = threadStacks[u]
  BY <1>1 DEF WithTop
<1>4. /\ Len(threadStacks'[t]) = Len(threadStacks[t])
      /\ \A k \in 1 .. Len(threadStacks[t]) :
            threadStacks'[t][k] = IF k = Len(threadStacks[t]) THEN fr ELSE threadStacks[t][k]
  <2>1. ASSUME NEW s \in Seq(Frame), NEW n \in 1 .. Len(s)
        PROVE  /\ Len([s EXCEPT ![n] = fr]) = Len(s)
               /\ \A k \in 1 .. Len(s) :
                     [s EXCEPT ![n] = fr][k] = IF k = n THEN fr ELSE s[k]
    OBVIOUS
  <2>2. QED
    BY <1>1, <1>2, <2>1
<1>5. SameFunctions(t)
  BY <1>1, <1>4 DEF SameFunctions, Top
<1>6. QED
  BY <1>3, <1>5 DEF SameFunctions

-----------------------------------------------------------------------------
(* Calls, returns and new threads.                                         *)

(* A new record is the last event of its thread and no event of another.   *)
LEMMA NewEvent ==
  ASSUME trace_rec \in Seq(CallRecord), NEW t \in Thread, NEW e \in CallRecord, e.thread = t,
         trace_rec' = Append(trace_rec, e), NEW m, m = Len(trace_rec) + 1
  PROVE  /\ m \in Nat
         /\ \A u \in Thread : \A k \in EventsOf(u) :
               k \in Nat /\ k < m /\ trace_rec'[k] = trace_rec[k]
         /\ \A u \in Thread \ {t} : EventsOf(u)' = EventsOf(u)
         /\ EventsOf(t)' = EventsOf(t) \cup {m}
         /\ trace_rec'[m] = e
         /\ IsLast(t, m)'
         /\ \A j, k \in EventsOf(t) : Follows(j, k, t)' <=> Follows(j, k, t)
         /\ \A j \in EventsOf(t) : Follows(j, m, t)' <=> IsLast(t, j)
<1>1. /\ Len(trace_rec) \in Nat
      /\ Len(trace_rec') = m
      /\ \A k \in 1 .. Len(trace_rec) : trace_rec'[k] = trace_rec[k]
      /\ trace_rec'[m] = e
  BY LenProperties, AppendProperties
<1>2. \A u \in Thread : \A k \in EventsOf(u) : k \in Nat /\ k < m /\ trace_rec'[k] = trace_rec[k]
  BY <1>1 DEF EventsOf
<1>3. 1 .. m = (1 .. Len(trace_rec)) \cup {m}
  BY <1>1
<1>4. \A u \in Thread \ {t} : EventsOf(u)' = EventsOf(u)
  BY <1>1, <1>3 DEF EventsOf
<1>5. EventsOf(t)' = EventsOf(t) \cup {m}
  BY <1>1, <1>3 DEF EventsOf
<1>6. m \in Nat
  BY <1>1
<1>7. IsLast(t, m)'
  BY <1>2, <1>5, <1>6 DEF IsLast
<1>8. \A j, k \in EventsOf(t) : Follows(j, k, t)' <=> Follows(j, k, t)
  BY <1>2, <1>5, <1>6 DEF Follows
<1>9. ASSUME NEW j \in EventsOf(t) PROVE Follows(j, m, t)' <=> IsLast(t, j)
  BY <1>2, <1>5, <1>6 DEF Follows, IsLast
<1>10. QED
  BY <1>1, <1>2, <1>4, <1>5, <1>6, <1>7, <1>8, <1>9

LEMMA OpenCallsFinite ==
  ASSUME IInv, NEW t \in Thread
  PROVE  /\ IsFiniteSet(OpenCalls(t))
         /\ Cardinality(OpenCalls(t)) \in Nat
         /\ Cardinality(OpenCalls(t)) = 0 <=> OpenCalls(t) = {}
         /\ OpenCalls(t) \subseteq 2 .. Len(threadStacks[t])
         /\ Len(threadStacks[t]) \in Nat
<1>1. Len(threadStacks[t]) \in Nat
  BY LenProperties DEF IInv, TypeOK
<1>2. OpenCalls(t) \subseteq 2 .. Len(threadStacks[t])
  BY DEF OpenCalls
<1>3. IsFiniteSet(OpenCalls(t))
  <2>1. IsFiniteSet(2 .. Len(threadStacks[t]))
    BY <1>1, FS_Interval
  <2>2. QED
    BY <1>2, <2>1, FS_Subset
<1>4. QED
  BY <1>1, <1>2, <1>3, FS_CardinalityType, FS_EmptySet

LEMMA CounterOf ==
  ASSUME HInv, NEW t \in Active
  PROVE  /\ t \in Thread /\ t < nextThreadNum
         /\ t \in 1 .. Len(recur_calls)
         /\ recur_calls \in Seq(Int) /\ Len(recur_calls) \in Nat
         /\ recur_calls[t] = Cardinality(OpenCalls(t))
         /\ ThreadOK(t)
<1>1. t \in Thread /\ threadStacks[t] # <<>> /\ t \in Nat \ {0}
  BY ThreadAssumption DEF Active
<1>2. recur_calls \in Seq(Int) /\ Len(recur_calls) \in Nat /\ nextThreadNum \in Nat
  BY LenProperties DEF HInv, IInv, TypeOK
<1>3. t < nextThreadNum /\ Len(recur_calls) + 1 = nextThreadNum
  BY <1>1 DEF HInv, Numbers
<1>4. QED
  BY <1>1, <1>2, <1>3 DEF HInv, ThreadOK, CounterOK

(* What a call and a return do to the functions on stacks.                 *)
Pushed(t, f, v) ==
  threadStacks'[t] =
    Append(WithTop(t, Moved(Top(t), Top(t).pc + 1, Top(t).acc))[t], NewFrame(f, v))

Popped(t) ==
  LET n == Len(threadStacks[t])
      caller == threadStacks[t][n - 1]
  IN  threadStacks'[t] = IF n = 1 THEN <<>>
                         ELSE Append(SubSeq(threadStacks[t], 1, n - 2),
                                     Moved(caller, caller.pc, Top(t).acc))

LEMMA CallStacks ==
  ASSUME NEW t \in Thread, NEW f \in Fn, NEW v \in Val, NEW n \in Nat, NEW top \in Nat, t \in Active,
         top = n + 1, IInv, Instr(t).op # "ret", n = Len(threadStacks[t]),
         Pushed(t, f, v)
  PROVE  /\ n \in Nat \ {0}
         /\ threadStacks'[t] # <<>>
         /\ \A k \in 1 .. n : threadStacks'[t][k].fn = threadStacks[t][k].fn
         /\ threadStacks'[t][top] = NewFrame(f, v)
         /\ OpenCalls(t)' = IF f \in Recorded THEN OpenCalls(t) \cup {top} ELSE OpenCalls(t)
<1> DEFINE fr == Moved(Top(t), Top(t).pc + 1, Top(t).acc)
           s == WithTop(t, fr)[t]
           new == NewFrame(f, v)
<1>1. /\ t \in Thread /\ n \in Nat \ {0}
      /\ threadStacks \in [Thread -> Seq(Frame)]
  BY TopType DEF IInv, TypeOK
<1>2. fr \in Frame /\ fr.pc \in 1 .. Len(Code[program][fr.fn]) /\ fr.fn = Top(t).fn
  BY TopType DEF Frame, Moved
<1> HIDE DEF fr
<1>3. /\ s \in Seq(Frame) /\ Len(s) = n
      /\ s = [threadStacks[t] EXCEPT ![n] = fr]
  BY <1>1, <1>2, ReplaceTop DEF WithTop
<1>4. \A k \in 1 .. n : s[k].fn = threadStacks[t][k].fn
  <2>1. ASSUME NEW q \in Seq(Frame), NEW l \in 1 .. Len(q), NEW k \in 1 .. Len(q)
        PROVE  [q EXCEPT ![l] = fr][k] = IF k = l THEN fr ELSE q[k]
    OBVIOUS
  <2>2. \A k \in 1 .. n : s[k] = IF k = n THEN fr ELSE threadStacks[t][k]
    BY <1>1, <1>3, <2>1
  <2>3. QED
    BY <1>2, <2>2 DEF Top
<1>5. new.fn = f
  BY DEF NewFrame
<1>6. threadStacks'[t] = Append(s, new)
  BY DEF fr, Pushed
<1> HIDE DEF s, new
<1>7. /\ Len(threadStacks'[t]) = top
      /\ threadStacks'[t] # <<>>
      /\ \A k \in 1 .. n : threadStacks'[t][k] = s[k]
      /\ threadStacks'[t][top] = new
  <2>1. ASSUME NEW q \in Seq(Frame), NEW e
        PROVE  /\ Len(Append(q, e)) = Len(q) + 1
               /\ Append(q, e) # <<>>
               /\ \A k \in 1 .. Len(q) : Append(q, e)[k] = q[k]
               /\ Append(q, e)[Len(q) + 1] = e
    OBVIOUS
  <2>2. /\ Len(Append(s, new)) = top
        /\ Append(s, new) # <<>>
        /\ \A k \in 1 .. n : Append(s, new)[k] = s[k]
        /\ Append(s, new)[top] = new
    <3>1. s \in Seq(Frame) /\ Len(s) = n /\ top = n + 1
      BY <1>3
    <3>2. QED
      BY ONLY <2>1, <3>1
  <2>3. QED
    BY <1>6, <2>2
<1>8. OpenCalls(t)' = IF f \in Recorded THEN OpenCalls(t) \cup {top} ELSE OpenCalls(t)
  <2>1. /\ 2 .. top = (2 .. n) \cup {top}
        /\ \A k \in 2 .. n : k \in 1 .. n
    BY <1>1
  <2>2. \A k \in 2 .. n : threadStacks'[t][k].fn = threadStacks[t][k].fn
    BY <1>4, <1>7, <2>1
  <2>3. OpenCalls(t)' = {k \in 2 .. top : threadStacks'[t][k].fn \in Recorded}
    BY <1>7 DEF OpenCalls
  <2>4. threadStacks'[t][top].fn = f
    BY <1>5, <1>7
  <2>5. OpenCalls(t) = {k \in 2 .. n : threadStacks[t][k].fn \in Recorded}
    BY DEF OpenCalls
  <2>6. \A k \in 2 .. n : k \in OpenCalls(t)' <=> k \in OpenCalls(t)
    BY <2>1, <2>2, <2>3, <2>5
  <2>7. top \in OpenCalls(t)' <=> f \in Recorded
    BY <1>1, <2>1, <2>3, <2>4
  <2>8. OpenCalls(t)' \subseteq (2 .. n) \cup {top} /\ OpenCalls(t) \subseteq 2 .. n
    BY <2>1, <2>3, <2>5
  <2>10. CASE f \in Recorded
    <3>1. top \in OpenCalls(t)'
      BY <2>7, <2>10
    <3>2. OpenCalls(t)' = OpenCalls(t) \cup {top}
      BY <2>6, <2>8, <3>1
    <3>3. QED
      BY <2>10, <3>2
  <2>11. CASE f \notin Recorded
    <3>1. top \notin OpenCalls(t)'
      BY <2>7, <2>11
    <3>2. OpenCalls(t)' = OpenCalls(t)
      BY <2>6, <2>8, <3>1
    <3>3. QED
      BY <2>11, <3>2
  <2>12. QED
    BY <2>10, <2>11
<1>9. QED
  BY <1>1, <1>4, <1>6, <1>7, <1>8 DEF new

LEMMA ReturnStacks ==
  ASSUME NEW t \in Thread, NEW n \in Nat, t \in Active, IInv, n = Len(threadStacks[t]),
         Popped(t)
  PROVE  /\ n \in Nat \ {0}
         /\ threadStacks[t] # <<>>
         /\ n = 1 => threadStacks'[t] = <<>>
         /\ \A k \in 1 .. n - 1 : threadStacks'[t][k].fn = threadStacks[t][k].fn
         /\ OpenCalls(t)' = OpenCalls(t) \ {n}
         /\ n \in OpenCalls(t) <=> n > 1 /\ Top(t).fn \in Recorded
<1> DEFINE caller == threadStacks[t][n - 1]
           new == Moved(caller, caller.pc, Top(t).acc)
           rest == SubSeq(threadStacks[t], 1, n - 2)
<1>1. /\ t \in Thread /\ n \in Nat \ {0}
      /\ threadStacks \in [Thread -> Seq(Frame)] /\ threadStacks[t] # <<>>
  BY TopType DEF IInv, TypeOK, Active
<1>2. n \in OpenCalls(t) <=> n > 1 /\ Top(t).fn \in Recorded
  BY <1>1 DEF OpenCalls, Top
<1>4. CASE n = 1
  <2>1. threadStacks'[t] = <<>>
    BY <1>1, <1>4 DEF Popped
  <2>2. Len(<<>>) = 0
    OBVIOUS
  <2>3. OpenCalls(t)' = {} /\ OpenCalls(t) = {}
    BY <1>4, <2>1, <2>2 DEF OpenCalls
  <2>4. QED
    BY <1>1, <1>2, <1>4, <2>1, <2>3
<1>5. CASE n # 1
  <2>1. threadStacks'[t] = Append(rest, new)
    BY <1>1, <1>5 DEF Popped
  <2>2. new.fn = caller.fn
    BY DEF Moved
  <2> HIDE DEF new
  <2>3. /\ Len(threadStacks'[t]) = n - 1
        /\ \A k \in 1 .. n - 2 : threadStacks'[t][k] = threadStacks[t][k]
        /\ threadStacks'[t][n - 1] = new
    <3>1. ASSUME NEW q \in Seq(Frame), NEW m \in Nat, m < Len(q)
          PROVE  /\ SubSeq(q, 1, m) \in Seq(Frame)
                 /\ Len(SubSeq(q, 1, m)) = m
                 /\ \A k \in 1 .. m : SubSeq(q, 1, m)[k] = q[k]
      <4>1. \A k \in 1 .. m : q[k] \in Frame
        BY <3>1
      <4>2. QED
        BY <4>1
    <3>2. n - 2 \in Nat /\ n - 2 < Len(threadStacks[t])
      BY <1>1, <1>5
    <3>3. /\ rest \in Seq(Frame)
          /\ Len(rest) = n - 2
          /\ \A k \in 1 .. n - 2 : rest[k] = threadStacks[t][k]
      BY <1>1, <3>1, <3>2
    <3> HIDE DEF rest
    <3>4. ASSUME NEW q \in Seq(Frame), NEW e
          PROVE  /\ Len(Append(q, e)) = Len(q) + 1
                 /\ \A k \in 1 .. Len(q) : Append(q, e)[k] = q[k]
                 /\ Append(q, e)[Len(q) + 1] = e
      OBVIOUS
    <3>5. /\ Len(Append(rest, new)) = Len(rest) + 1
          /\ \A k \in 1 .. Len(rest) : Append(rest, new)[k] = rest[k]
          /\ Append(rest, new)[Len(rest) + 1] = new
      BY <3>3, <3>4
    <3>6. (n - 2) + 1 = n - 1
      OBVIOUS
    <3>7. QED
      BY <2>1, <3>3, <3>5, <3>6
  <2>4. \A k \in 1 .. n - 1 : threadStacks'[t][k].fn = threadStacks[t][k].fn
    <3>1. \A k \in 1 .. n - 1 : k \in 1 .. n - 2 \/ k = n - 1
      BY <1>1, <1>5
    <3>2. QED
      BY <2>2, <2>3, <3>1
  <2>5. OpenCalls(t)' = OpenCalls(t) \ {n}
    BY <1>1, <1>5, <2>3, <2>4 DEF OpenCalls
  <2>6. QED
    BY <1>1, <1>2, <1>5, <2>4, <2>5
<1>6. QED
  BY <1>4, <1>5

LEMMA CallStep ==
  ASSUME HInv, IInv', NEW t \in Thread, Call(t)
  PROVE  HInv'
<1>0. PICK f, v : f = Instr(t).fn /\ v = Instr(t).x
  OBVIOUS
<1>1. /\ IInv /\ t \in Active /\ Instr(t).op # "ret" /\ f \in Fn /\ v \in Val
      /\ nextThreadNum' = nextThreadNum
  BY <1>0, Running DEF HInv, Call
<1>2. PICK n \in Nat : n = Len(threadStacks[t])
  BY <1>1, TopType
<1>2a. PICK top \in Nat : top = n + 1
  OBVIOUS
<1>3. /\ \A u \in Thread \ {t} : threadStacks'[u] = threadStacks[u]
      /\ n \in Nat \ {0}
      /\ threadStacks'[t] # <<>>
      /\ \A k \in 1 .. n : threadStacks'[t][k].fn = threadStacks[t][k].fn
      /\ threadStacks'[t][top].fn = f
      /\ OpenCalls(t)' = IF f \in Recorded THEN OpenCalls(t) \cup {top} ELSE OpenCalls(t)
  <2>1. Pushed(t, f, v) /\ \A u \in Thread \ {t} : threadStacks'[u] = threadStacks[u]
    BY <1>0, <1>1 DEF Call, IInv, TypeOK, Pushed
  <2>2. /\ n \in Nat \ {0}
        /\ threadStacks'[t] # <<>>
        /\ \A k \in 1 .. n : threadStacks'[t][k].fn = threadStacks[t][k].fn
        /\ threadStacks'[t][top] = NewFrame(f, v)
        /\ OpenCalls(t)' = IF f \in Recorded THEN OpenCalls(t) \cup {top} ELSE OpenCalls(t)
    BY <1>1, <1>2, <1>2a, <2>1, CallStacks
  <2>3. NewFrame(f, v).fn = f
    BY DEF NewFrame
  <2>4. QED
    BY <2>1, <2>2, <2>3
<1>4. /\ t < nextThreadNum
      /\ t \in 1 .. Len(recur_calls)
      /\ recur_calls \in Seq(Int) /\ Len(recur_calls) \in Nat
      /\ recur_calls[t] = Cardinality(OpenCalls(t))
      /\ ThreadOK(t)
  BY <1>1, CounterOf
<1>5. /\ OpenCalls(t) \subseteq 2 .. n
      /\ IsFiniteSet(OpenCalls(t))
      /\ Cardinality(OpenCalls(t)) \in Nat
      /\ Cardinality(OpenCalls(t)) = 0 <=> OpenCalls(t) = {}
  BY <1>1, <1>2, OpenCallsFinite
<1>6. RecordInvokeEvent(f, t, v)
  BY <1>0 DEF Call
<1>7. /\ Len(recur_calls') = Len(recur_calls)
      /\ recur_calls'[t] = IF f \in Recorded THEN recur_calls[t] + 1 ELSE recur_calls[t]
      /\ \A u \in Thread \ {t} : recur_calls'[u] = recur_calls[u]
  BY <1>4, <1>6 DEF RecordInvokeEvent
<1>8. trace_rec \in Seq(CallRecord)
  BY <1>1 DEF IInv, TypeOK
<1>9. Numbers'
  <2>1. \A u \in Thread : threadStacks'[u] # <<>> => u < nextThreadNum
    BY <1>3, <1>4 DEF HInv, Numbers
  <2>2. QED
    BY <1>1, <1>7, <2>1 DEF HInv, Numbers
<1>10. ASSUME NEW u \in Thread \ {t}, EventsOf(u)' = EventsOf(u),
              \A k \in EventsOf(u) : trace_rec'[k] = trace_rec[k]
       PROVE  ThreadOK(u)'
  <2>1. threadStacks'[u] = threadStacks[u] /\ ThreadOK(u)
    BY <1>3 DEF HInv
  <2>2. OpenCalls(u)' = OpenCalls(u)
    BY <2>1 DEF OpenCalls
  <2>3. QED
    BY <1>1, <1>7, <1>10, <2>1, <2>2, Undisturbed
<1>11. CASE f \notin Recorded
  <2>1. trace_rec' = trace_rec
    BY <1>6, <1>11 DEF RecordInvokeEvent
  <2>2. \A u \in Thread : EventsOf(u)' = EventsOf(u)
    BY <2>1 DEF EventsOf
  <2>3. \A u \in Thread \ {t} : ThreadOK(u)'
    BY <1>10, <2>1, <2>2
  <2>4. \A k \in OpenCalls(t) : threadStacks'[t][k].fn = threadStacks[t][k].fn
    BY <1>3, <1>5
  <2>5. OpenCalls(t)' = OpenCalls(t) /\ recur_calls'[t] = recur_calls[t]
    BY <1>3, <1>7, <1>11
  <2>6. threadStacks[t] # <<>>
    BY <1>1 DEF Active
  <2>7. ThreadOK(t)'
    BY <1>1, <1>4, <2>1, <2>2, <2>4, <2>5, <2>6, Undisturbed
  <2>8. QED
    BY <1>9, <2>3, <2>7 DEF HInv
<1>12. CASE f \in Recorded
  <2>1. OpenCalls(t)' = OpenCalls(t) \cup {top} /\ top \notin OpenCalls(t)
    BY <1>2a, <1>3, <1>5, <1>12
  <2>2. CounterOK(t)'
    <3>1. Cardinality(OpenCalls(t) \cup {top}) = Cardinality(OpenCalls(t)) + 1
      BY <1>5, <2>1, FS_AddElement
    <3>2. QED
      BY <1>4, <1>7, <1>12, <2>1, <3>1 DEF CounterOK
  <2>3. CASE recur_calls[t] = 0
    <3>1. PICK m : m = Len(trace_rec) + 1
      OBVIOUS
    <3> DEFINE e == [type |-> "CALL_FUNC", func |-> f, thread |-> t, val |-> v]
    <3>2. e \in CallRecord /\ e.thread = t /\ trace_rec' = Append(trace_rec, e)
      BY <1>1, <1>6, <1>12, <2>3 DEF RecordInvokeEvent, CallRecord
    <3>3. e.type = "CALL_FUNC" /\ e.func = f
      OBVIOUS
    <3> HIDE DEF e
    <3>4. /\ m \in Nat
          /\ \A u \in Thread : \A k \in EventsOf(u) :
                k \in Nat /\ k < m /\ trace_rec'[k] = trace_rec[k]
          /\ \A u \in Thread \ {t} : EventsOf(u)' = EventsOf(u)
          /\ EventsOf(t)' = EventsOf(t) \cup {m}
          /\ trace_rec'[m] = e
          /\ IsLast(t, m)'
          /\ \A j, k \in EventsOf(t) : Follows(j, k, t)' <=> Follows(j, k, t)
          /\ \A j \in EventsOf(t) : Follows(j, m, t)' <=> IsLast(t, j)
      BY <1>8, <3>1, <3>2, NewEvent
    <3>5. \A u \in Thread \ {t} : ThreadOK(u)'
      BY <1>10, <3>4
    <3>6. OpenCalls(t) = {} /\ ~ InCall(t)
      BY <1>4, <1>5, <2>3 DEF ThreadOK, OpenAtEnd
    <3>7. Alternating(t)'
      <4>1. ASSUME NEW j \in EventsOf(t), IsLast(t, j)
            PROVE  trace_rec[j].type = "RETURN_FUNC"
        <5>1. trace_rec[j].type # "CALL_FUNC"
          BY <3>6, <4>1 DEF InCall, IsLast
        <5>2. j \in 1 .. Len(trace_rec)
          BY DEF EventsOf
        <5>3. trace_rec[j] \in CallRecord
          BY <1>8, <5>2, ElementOfSeq
        <5>4. QED
          BY <5>1, <5>3 DEF CallRecord
      <4>2. ~ Follows(m, m, t)'
        BY <3>4 DEF Follows
      <4>3. \A j \in EventsOf(t)' : Follows(j, m, t)' => trace_rec'[j].type = "RETURN_FUNC"
        BY <3>4, <4>1, <4>2
      <4>4. \A k \in EventsOf(t) : ~ Follows(m, k, t)'
        BY <3>4 DEF Follows
      <4>5. ASSUME NEW k \in EventsOf(t)
            PROVE  IF trace_rec'[k].type = "CALL_FUNC"
                   THEN \A j \in EventsOf(t)' : Follows(j, k, t)' => trace_rec'[j].type = "RETURN_FUNC"
                   ELSE \E j \in EventsOf(t)' :
                           /\ Follows(j, k, t)'
                           /\ trace_rec'[j].type = "CALL_FUNC"
                           /\ trace_rec'[j].func = trace_rec'[k].func
        <5>1. /\ trace_rec'[k] = trace_rec[k]
              /\ \A j \in EventsOf(t) :
                    trace_rec'[j] = trace_rec[j] /\ (Follows(j, k, t)' <=> Follows(j, k, t))
          BY <3>4
        <5>2. IF trace_rec[k].type = "CALL_FUNC"
              THEN \A j \in EventsOf(t) : Follows(j, k, t) => trace_rec[j].type = "RETURN_FUNC"
              ELSE \E j \in EventsOf(t) :
                      /\ Follows(j, k, t)
                      /\ trace_rec[j].type = "CALL_FUNC" /\ trace_rec[j].func = trace_rec[k].func
          BY <1>4 DEF ThreadOK, Alternating
        <5>3. QED
          BY <3>4, <4>4, <5>1, <5>2
      <4>6. QED
        BY <3>3, <3>4, <4>3, <4>5 DEF Alternating
    <3>8. OpenAtEnd(t)'
      BY <2>1, <3>3, <3>4 DEF OpenAtEnd, InCall, IsLast
    <3>9. LastIsLowest(t)'
      <4>1. OpenCalls(t)' = {top}
        BY <2>1, <3>6
      <4>2. ASSUME NEW k \in EventsOf(t)', IsLast(t, k)'
            PROVE  k = m
        BY <3>4, <4>2 DEF IsLast
      <4>3. top <= top /\ threadStacks'[t][top].fn = trace_rec'[m].func
        BY <1>3, <3>3, <3>4
      <4>4. QED
        BY <4>1, <4>2, <4>3 DEF LastIsLowest
    <3>10. QED
      BY <1>9, <2>2, <3>5, <3>7, <3>8, <3>9 DEF HInv, ThreadOK
  <2>4. CASE recur_calls[t] # 0
    <3>1. trace_rec' = trace_rec
      BY <1>6, <2>4 DEF RecordInvokeEvent
    <3>2. /\ \A u \in Thread : EventsOf(u)' = EventsOf(u)
          /\ \A j, k : Follows(j, k, t)' = Follows(j, k, t)
          /\ \A k : IsLast(t, k)' <=> IsLast(t, k)
          /\ InCall(t)' <=> InCall(t)
      BY <3>1 DEF EventsOf, Follows, IsLast, InCall
    <3>3. \A u \in Thread \ {t} : ThreadOK(u)'
      BY <1>10, <3>1, <3>2
    <3>4. OpenCalls(t) # {} /\ InCall(t)
      BY <1>4, <1>5, <2>4 DEF ThreadOK, OpenAtEnd
    <3>5. Alternating(t)' /\ OpenAtEnd(t)'
      BY <1>4, <2>1, <3>1, <3>2, <3>4 DEF ThreadOK, Alternating, OpenAtEnd
    <3>6. LastIsLowest(t)'
      <4>1. ASSUME NEW k \in EventsOf(t), IsLast(t, k), trace_rec[k].type = "CALL_FUNC"
            PROVE  \E g \in OpenCalls(t)' : /\ \A h \in OpenCalls(t)' : g <= h
                                            /\ threadStacks'[t][g].fn = trace_rec[k].func
        <5>1. PICK g \in OpenCalls(t) : /\ \A h \in OpenCalls(t) : g <= h
                                        /\ threadStacks[t][g].fn = trace_rec[k].func
          BY <1>4, <4>1 DEF ThreadOK, LastIsLowest
        <5>2. g \in 1 .. n /\ g <= top
          BY <1>2a, <1>3, <1>5
        <5>3. QED
          BY <1>3, <2>1, <5>1, <5>2
      <4>2. QED
        BY <3>1, <3>2, <4>1 DEF LastIsLowest
    <3>7. QED
      BY <1>9, <2>2, <3>3, <3>5, <3>6 DEF HInv, ThreadOK
  <2>5. QED
    BY <2>3, <2>4
<1>13. QED
  BY <1>11, <1>12

LEMMA ReturnStep ==
  ASSUME HInv, IInv', NEW t \in Thread, Return(t)
  PROVE  HInv'
<1> DEFINE f == Top(t).fn
<1>1. /\ IInv /\ t \in Active /\ f \in Fn /\ Top(t).acc \in Val
      /\ nextThreadNum' = nextThreadNum
  BY Running DEF HInv, Return
<1>2. PICK n \in Nat : n = Len(threadStacks[t])
  BY <1>1, TopType
<1>3. /\ \A u \in Thread \ {t} : threadStacks'[u] = threadStacks[u]
      /\ n \in Nat \ {0}
      /\ threadStacks[t] # <<>>
      /\ n = 1 => threadStacks'[t] = <<>>
      /\ \A k \in 1 .. n - 1 : threadStacks'[t][k].fn = threadStacks[t][k].fn
      /\ OpenCalls(t)' = OpenCalls(t) \ {n}
      /\ n \in OpenCalls(t) <=> n > 1 /\ f \in Recorded
  <2>1. Popped(t) /\ \A u \in Thread \ {t} : threadStacks'[u] = threadStacks[u]
    BY <1>1 DEF Return, IInv, TypeOK, Popped
  <2>2. QED
    BY <1>1, <1>2, <2>1, ReturnStacks
<1>4. /\ t < nextThreadNum
      /\ t \in 1 .. Len(recur_calls)
      /\ recur_calls \in Seq(Int) /\ Len(recur_calls) \in Nat
      /\ recur_calls[t] = Cardinality(OpenCalls(t))
      /\ ThreadOK(t)
  BY <1>1, CounterOf
<1>5. /\ OpenCalls(t) \subseteq 2 .. n
      /\ IsFiniteSet(OpenCalls(t))
      /\ Cardinality(OpenCalls(t)) \in Nat
      /\ Cardinality(OpenCalls(t)) = 0 <=> OpenCalls(t) = {}
  BY <1>1, <1>2, OpenCallsFinite
<1>6. RecordReturnEvent(f, t, Top(t).acc)
  BY DEF Return
<1>7. /\ Len(recur_calls') = Len(recur_calls)
      /\ recur_calls'[t] = IF f \in Recorded THEN recur_calls[t] - 1 ELSE recur_calls[t]
      /\ \A u \in Thread \ {t} : recur_calls'[u] = recur_calls[u]
  BY <1>4, <1>6 DEF RecordReturnEvent
<1>8. trace_rec \in Seq(CallRecord)
  BY <1>1 DEF IInv, TypeOK
<1> HIDE DEF f
<1>9. Numbers'
  <2>1. \A u \in Thread : threadStacks'[u] # <<>> => u < nextThreadNum
    BY <1>3, <1>4 DEF HInv, Numbers
  <2>2. QED
    BY <1>1, <1>7, <2>1 DEF HInv, Numbers
<1>10. ASSUME NEW u \in Thread \ {t}, EventsOf(u)' = EventsOf(u),
              \A k \in EventsOf(u) : trace_rec'[k] = trace_rec[k]
       PROVE  ThreadOK(u)'
  <2>1. threadStacks'[u] = threadStacks[u] /\ ThreadOK(u)
    BY <1>3 DEF HInv
  <2>2. OpenCalls(u)' = OpenCalls(u)
    BY <2>1 DEF OpenCalls
  <2>3. QED
    BY <1>1, <1>7, <1>10, <2>1, <2>2, Undisturbed
<1>11. ASSUME NEW k \in OpenCalls(t), k # n
       PROVE  k \in OpenCalls(t)' /\ threadStacks'[t][k].fn = threadStacks[t][k].fn
  <2>1. k \in 1 .. n - 1
    BY <1>3, <1>5, <1>11
  <2>2. QED
    BY <1>3, <1>11, <2>1
<1>12. CASE n \notin OpenCalls(t)
  <2>1. f \in Recorded => n = 1
    BY <1>3, <1>12
  <2>2. OpenCalls(t)' = OpenCalls(t)
    BY <1>3, <1>12
  <2>3. n = 1 => OpenCalls(t) = {}
    BY <1>5
  <2>4. trace_rec' = trace_rec
    BY <1>4, <1>5, <1>6, <2>1, <2>3 DEF RecordReturnEvent
  <2>5. \A u \in Thread : EventsOf(u)' = EventsOf(u)
    BY <2>4 DEF EventsOf
  <2>6. \A u \in Thread \ {t} : ThreadOK(u)'
    BY <1>10, <2>4, <2>5
  <2>7. \A k \in OpenCalls(t) : threadStacks'[t][k].fn = threadStacks[t][k].fn
    BY <1>11, <1>12
  <2>8. recur_calls'[t] = recur_calls[t] \/ threadStacks'[t] = <<>>
    BY <1>3, <1>7, <2>1
  <2>9. ThreadOK(t)'
    BY <1>1, <1>3, <1>4, <2>2, <2>4, <2>5, <2>7, <2>8, Undisturbed
  <2>10. QED
    BY <1>9, <2>6, <2>9 DEF HInv
<1>13. CASE n \in OpenCalls(t)
  <2>1. f \in Recorded
    BY <1>3, <1>13
  <2>2. CounterOK(t)'
    <3>1. Cardinality(OpenCalls(t) \ {n}) = Cardinality(OpenCalls(t)) - 1
      BY <1>5, <1>13, FS_RemoveElement
    <3>2. QED
      BY <1>3, <1>4, <1>7, <2>1, <3>1 DEF CounterOK
  <2>3. \A k \in OpenCalls(t) : k <= n
    BY <1>5
  <2>4. CASE recur_calls[t] = 1
    <3>1. PICK m : m = Len(trace_rec) + 1
      OBVIOUS
    <3> DEFINE e == [type |-> "RETURN_FUNC", func |-> f, thread |-> t, val |-> Top(t).acc]
    <3>2. e \in CallRecord /\ e.thread = t /\ trace_rec' = Append(trace_rec, e)
      BY <1>1, <1>6, <2>1, <2>4 DEF RecordReturnEvent, CallRecord
    <3>3. e.type = "RETURN_FUNC" /\ e.func = f
      OBVIOUS
    <3> HIDE DEF e
    <3>4. /\ m \in Nat
          /\ \A u \in Thread : \A k \in EventsOf(u) :
                k \in Nat /\ k < m /\ trace_rec'[k] = trace_rec[k]
          /\ \A u \in Thread \ {t} : EventsOf(u)' = EventsOf(u)
          /\ EventsOf(t)' = EventsOf(t) \cup {m}
          /\ trace_rec'[m] = e
          /\ IsLast(t, m)'
          /\ \A j, k \in EventsOf(t) : Follows(j, k, t)' <=> Follows(j, k, t)
          /\ \A j \in EventsOf(t) : Follows(j, m, t)' <=> IsLast(t, j)
      BY <1>8, <3>1, <3>2, NewEvent
    <3>5. \A u \in Thread \ {t} : ThreadOK(u)'
      BY <1>10, <3>4
    <3>6. OpenCalls(t) = {n}
      <4>1. Cardinality(OpenCalls(t)) = 1
        BY <1>4, <2>4
      <4>2. \E x : OpenCalls(t) = {x}
        BY <1>5, <4>1, FS_Singleton
      <4>3. QED
        BY <1>13, <4>2
    <3>7. PICK c \in EventsOf(t) : IsLast(t, c) /\ trace_rec[c].type = "CALL_FUNC"
      BY <1>4, <3>6 DEF ThreadOK, OpenAtEnd, InCall, IsLast
    <3>8. trace_rec[c].func = f
      <4>1. threadStacks[t][n].fn = trace_rec[c].func
        BY <1>4, <3>6, <3>7 DEF ThreadOK, LastIsLowest
      <4>2. QED
        BY <1>2, <4>1 DEF f, Top
    <3>9. Alternating(t)'
      <4>1. /\ c \in EventsOf(t)' /\ Follows(c, m, t)'
            /\ trace_rec'[c].type = "CALL_FUNC" /\ trace_rec'[c].func = trace_rec'[m].func
        BY <3>3, <3>4, <3>7, <3>8
      <4>2. trace_rec'[m].type # "CALL_FUNC"
        BY <3>3, <3>4
      <4>3. \A k \in EventsOf(t) : ~ Follows(m, k, t)'
        BY <3>4 DEF Follows
      <4>4. ASSUME NEW k \in EventsOf(t)
            PROVE  IF trace_rec'[k].type = "CALL_FUNC"
                   THEN \A j \in EventsOf(t)' : Follows(j, k, t)' => trace_rec'[j].type = "RETURN_FUNC"
                   ELSE \E j \in EventsOf(t)' :
                           /\ Follows(j, k, t)'
                           /\ trace_rec'[j].type = "CALL_FUNC"
                           /\ trace_rec'[j].func = trace_rec'[k].func
        <5>1. /\ trace_rec'[k] = trace_rec[k]
              /\ \A j \in EventsOf(t) :
                    trace_rec'[j] = trace_rec[j] /\ (Follows(j, k, t)' <=> Follows(j, k, t))
          BY <3>4
        <5>2. IF trace_rec[k].type = "CALL_FUNC"
              THEN \A j \in EventsOf(t) : Follows(j, k, t) => trace_rec[j].type = "RETURN_FUNC"
              ELSE \E j \in EventsOf(t) :
                      /\ Follows(j, k, t)
                      /\ trace_rec[j].type = "CALL_FUNC" /\ trace_rec[j].func = trace_rec[k].func
          BY <1>4 DEF ThreadOK, Alternating
        <5>3. QED
          BY <3>4, <4>3, <5>1, <5>2
      <4>5. QED
        BY <3>4, <4>1, <4>2, <4>4 DEF Alternating
    <3>10. \A k \in EventsOf(t)' : IsLast(t, k)' => k = m
      BY <3>4 DEF IsLast
    <3>11. OpenAtEnd(t)' /\ LastIsLowest(t)'
      <4>1. OpenCalls(t)' = {}
        BY <1>3, <3>6
      <4>2. trace_rec'[m].type # "CALL_FUNC"
        BY <3>3, <3>4
      <4>3. ~ InCall(t)'
        BY <3>10, <4>2 DEF InCall, IsLast
      <4>4. QED
        BY <3>10, <4>1, <4>2, <4>3 DEF OpenAtEnd, LastIsLowest
    <3>12. QED
      BY <1>9, <2>2, <3>5, <3>9, <3>11 DEF HInv, ThreadOK
  <2>5. CASE recur_calls[t] # 1
    <3>1. trace_rec' = trace_rec
      BY <1>6, <2>5 DEF RecordReturnEvent
    <3>2. /\ \A u \in Thread : EventsOf(u)' = EventsOf(u)
          /\ \A j, k : Follows(j, k, t)' = Follows(j, k, t)
          /\ \A k : IsLast(t, k)' <=> IsLast(t, k)
          /\ InCall(t)' <=> InCall(t)
      BY <3>1 DEF EventsOf, Follows, IsLast, InCall
    <3>3. \A u \in Thread \ {t} : ThreadOK(u)'
      BY <1>10, <3>1, <3>2
    <3>4. PICK h \in OpenCalls(t) : h # n
      <4>1. OpenCalls(t) # {n}
        BY <1>4, <2>5, FS_Singleton
      <4>2. QED
        BY <1>13, <4>1
    <3>5. OpenAtEnd(t)'
      BY <1>4, <1>11, <3>2, <3>4 DEF ThreadOK, OpenAtEnd
    <3>6. Alternating(t)'
      BY <1>4, <3>1, <3>2 DEF ThreadOK, Alternating
    <3>7. LastIsLowest(t)'
      <4>1. ASSUME NEW k \in EventsOf(t), IsLast(t, k), trace_rec[k].type = "CALL_FUNC"
            PROVE  \E g \in OpenCalls(t)' : /\ \A j \in OpenCalls(t)' : g <= j
                                            /\ threadStacks'[t][g].fn = trace_rec[k].func
        <5>1. PICK g \in OpenCalls(t) : /\ \A j \in OpenCalls(t) : g <= j
                                        /\ threadStacks[t][g].fn = trace_rec[k].func
          BY <1>4, <4>1 DEF ThreadOK, LastIsLowest
        <5>2. g # n
          BY <1>5, <2>3, <3>4, <5>1
        <5>3. QED
          BY <1>3, <1>11, <5>1, <5>2
      <4>2. QED
        BY <3>1, <3>2, <4>1 DEF LastIsLowest
    <3>8. QED
      BY <1>9, <2>2, <3>3, <3>5, <3>6, <3>7 DEF HInv, ThreadOK
  <2>6. QED
    BY <2>4, <2>5
<1>14. QED
  BY <1>12, <1>13

LEMMA SpawnStep ==
  ASSUME HInv, IInv', NEW t \in Thread, Spawn(t)
  PROVE  HInv'
<1> DEFINE fr == Moved(Top(t), Top(t).pc + 1, Top(t).acc)
           s == WithTop(t, fr)
           new == NewFrame(Instr(t).fn, 0)
<1>1. /\ IInv /\ t \in Active /\ nextThreadNum \in Thread
      /\ nextThreadNum' = nextThreadNum + 1
      /\ recur_calls' = Append(recur_calls, 0)
      /\ trace_rec' = trace_rec
  BY Running DEF HInv, Spawn
<1>2. PICK w \in Thread : w = nextThreadNum
  BY <1>1
<1>3. t < nextThreadNum /\ threadStacks[t] # <<>>
  BY <1>1, CounterOf DEF Active
<1>4. nextThreadNum \in Nat /\ t # w
  BY <1>1, <1>2, <1>3 DEF IInv, TypeOK
<1>5. recur_calls \in Seq(Int) /\ Len(recur_calls) + 1 = w /\ Len(recur_calls) \in Nat
  BY <1>1, <1>2, LenProperties DEF HInv, Numbers, IInv, TypeOK
<1>6. /\ Len(recur_calls') = Len(recur_calls) + 1
      /\ \A k \in 1 .. Len(recur_calls) : recur_calls'[k] = recur_calls[k]
      /\ recur_calls'[w] = 0
  BY <1>1, <1>5, AppendProperties
<1>7. threadStacks[w] = <<>>
  BY <1>2, <1>4 DEF HInv, Numbers
<1>8. /\ fr \in Frame /\ fr.fn = Top(t).fn /\ fr.pc \in 1 .. Len(Code[program][fr.fn])
      /\ threadStacks' = [s EXCEPT ![w] = <<new>>]
  BY <1>1, <1>2, Running, TopType DEF Spawn, Moved, Frame
<1> HIDE DEF fr, new
<1>9. /\ s \in [Thread -> Seq(Frame)]
      /\ Len(s[t]) = Len(threadStacks[t])
      /\ Len(threadStacks[t]) \in Nat \ {0}
  BY <1>1, <1>8, ReplaceTop, TopType
<1>10. \A u \in Thread \ {t, w} : threadStacks'[u] = threadStacks[u]
  BY <1>8, <1>9 DEF WithTop, IInv, TypeOK
<1>11. threadStacks'[w] = <<new>> /\ threadStacks'[t] = s[t]
  BY <1>4, <1>8, <1>9
<1>12. /\ Len(threadStacks'[t]) = Len(threadStacks[t])
       /\ \A k \in 1 .. Len(threadStacks[t]) : threadStacks'[t][k].fn = threadStacks[t][k].fn
  <2>1. threadStacks[t] \in Seq(Frame)
    BY <1>1 DEF IInv, TypeOK
  <2>2. s[t] = [threadStacks[t] EXCEPT ![Len(threadStacks[t])] = fr]
    BY <1>1 DEF WithTop, IInv, TypeOK
  <2>3. ASSUME NEW q \in Seq(Frame), NEW l \in 1 .. Len(q), NEW k \in 1 .. Len(q)
        PROVE  [q EXCEPT ![l] = fr][k] = IF k = l THEN fr ELSE q[k]
    OBVIOUS
  <2>4. \A k \in 1 .. Len(threadStacks[t]) :
           s[t][k] = IF k = Len(threadStacks[t]) THEN fr ELSE threadStacks[t][k]
    BY <1>9, <2>1, <2>2, <2>3
  <2>5. QED
    BY <1>8, <1>9, <1>11, <2>4 DEF Top
<1> HIDE DEF s
<1>13. \A u \in Thread : EventsOf(u)' = EventsOf(u)
  BY <1>1 DEF EventsOf
<1>14. Len(<<new>>) = 1
  OBVIOUS
<1>15. ASSUME NEW u \in Thread, u # w
       PROVE  ThreadOK(u)' /\ (threadStacks'[u] # <<>> => u < nextThreadNum)
  <2>1. threadStacks'[u] # <<>> => threadStacks[u] # <<>>
    BY <1>3, <1>10, <1>15
  <2>2. threadStacks[u] # <<>> => u < nextThreadNum
    BY DEF HInv, Numbers
  <2>3. recur_calls'[u] = recur_calls[u] \/ threadStacks'[u] = <<>>
    <3>1. CASE threadStacks[u] # <<>>
      <4>1. u \in Nat \ {0} /\ u < w
        BY <1>2, <2>2, <3>1, ThreadAssumption
      <4>2. w = Len(recur_calls) + 1 /\ Len(recur_calls) \in Nat
        BY <1>5
      <4>3. u \in 1 .. Len(recur_calls)
        BY <4>1, <4>2
      <4>4. QED
        BY <1>6, <4>3
    <3>2. QED
      BY <2>1, <3>1
  <2>4. /\ OpenCalls(u)' = OpenCalls(u)
        /\ \A k \in OpenCalls(u) : threadStacks'[u][k].fn = threadStacks[u][k].fn
    <3>1. CASE u = t
      BY <1>9, <1>12, <3>1 DEF OpenCalls
    <3>2. CASE u # t
      BY <1>10, <1>15, <3>2 DEF OpenCalls
    <3>3. QED
      BY <3>1, <3>2
  <2>5. ThreadOK(u)
    BY DEF HInv
  <2>6. ThreadOK(u)'
    BY <1>1, <1>13, <2>1, <2>2, <2>3, <2>4, <2>5, Undisturbed
  <2>7. QED
    BY <2>1, <2>2, <2>6
<1>16. ThreadOK(w)'
  <2>1. OpenCalls(w)' = {} /\ OpenCalls(w) = {}
    BY <1>7, <1>11, <1>14 DEF OpenCalls
  <2>2. ThreadOK(w)
    BY DEF HInv
  <2>3. CounterOK(w)'
    BY <1>6, <2>1, FS_EmptySet DEF CounterOK
  <2>4. Alternating(w)'
    BY <1>1, <1>13, <2>2 DEF ThreadOK, Alternating, Follows
  <2>5. OpenAtEnd(w)'
    BY <1>1, <1>13, <2>1, <2>2 DEF ThreadOK, OpenAtEnd, InCall
  <2>6. ~ InCall(w)
    BY <2>1, <2>2 DEF ThreadOK, OpenAtEnd
  <2>7. LastIsLowest(w)'
    BY <1>1, <1>13, <2>6 DEF LastIsLowest, InCall, IsLast
  <2>8. QED
    BY <2>3, <2>4, <2>5, <2>7 DEF ThreadOK
<1>17. Numbers'
  <2>1. \A u \in Thread : threadStacks'[u] # <<>> => u < nextThreadNum'
    BY <1>1, <1>2, <1>4, <1>15, ThreadAssumption
  <2>2. QED
    BY <1>1, <1>2, <1>5, <1>6, <2>1 DEF Numbers
<1>18. QED
  BY <1>15, <1>16, <1>17 DEF HInv

(* No other step touches the history or the functions on a stack.          *)
LEMMA OtherInstruction ==
  ASSUME HInv, IInv', NEW t \in Thread, Execute(t), ~ Call(t), ~ Return(t), ~ Spawn(t)
  PROVE  HInv'
<1>1. UNCHANGED <<trace_rec, recur_calls, nextThreadNum>>
  BY DEF Execute, StoreToMemory, StoreToBuffer, LoadFromBuffer, LoadFromMemory, LoadFault,
     Membar_ss, Membar_sl, Cas32, Cas32Fault, CasPO, FasPO, Alloca, Malloc, Free, FreeFault,
     SetValue, Branch, JoinBlocked, Join, AssertExist, history
<1>2. /\ t \in Active
      /\ \/ threadStacks' = threadStacks
         \/ \E fr : fr.fn = Top(t).fn /\ threadStacks' = WithTop(t, fr)
  <2>1. \A pc, v : Moved(Top(t), pc, v).fn = Top(t).fn
    BY DEF Moved
  <2>2. \A v : Advance(t, v) => \E fr : fr.fn = Top(t).fn /\ threadStacks' = WithTop(t, fr)
    BY <2>1 DEF Advance
  <2>3. Skip(t) => \E fr : fr.fn = Top(t).fn /\ threadStacks' = WithTop(t, fr)
    BY <2>2 DEF Skip
  <2>4. CASE \/ StoreToMemory(t) \/ StoreToBuffer(t) \/ LoadFault(t)
             \/ Membar_ss(t) \/ Membar_sl(t) \/ Cas32Fault(t)
             \/ Malloc(t) \/ Free(t) \/ Join(t) \/ AssertExist(t)
    BY <2>3, <2>4 DEF At, StoreToMemory, StoreToBuffer, LoadFault, Membar_ss, Membar_sl,
       Cas32Fault, Malloc, Free, Join, AssertExist
  <2>5. CASE \/ LoadFromBuffer(t) \/ LoadFromMemory(t) \/ Cas32(t) \/ CasPO(t) \/ FasPO(t)
             \/ SetValue(t)
    BY <2>2, <2>5 DEF At, LoadFromBuffer, LoadFromMemory, Cas32, CasPO, FasPO, SetValue
  <2>6. CASE Branch(t)
    BY <2>1, <2>6 DEF At, Branch
  <2>7. CASE Alloca(t)
    BY <2>7 DEF At, Alloca
  <2>8. CASE JoinBlocked(t) \/ FreeFault(t)
    BY <2>8 DEF At, JoinBlocked, FreeFault
  <2>9. QED
    BY <2>4, <2>5, <2>6, <2>7, <2>8 DEF Execute
<1>3. \A u \in Thread : SameFunctions(u)
  BY <1>2, TopReplaced DEF HInv, SameFunctions
<1>4. QED
  BY <1>1, <1>3, SameStacks

LEMMA HistoryStep ==
  ASSUME HInv, [Next]_vars
  PROVE  HInv'
<1>1. IInv'
  BY NextStep DEF HInv
<1>2. ASSUME NEW t \in Thread, Execute(t)
      PROVE  HInv'
  BY <1>1, <1>2, CallStep, ReturnStep, SpawnStep, OtherInstruction
<1>3. ASSUME (\E t \in Thread : RandomFlush(t)) \/ Finish \/ UNCHANGED vars
      PROVE  HInv'
  <2>1. UNCHANGED <<trace_rec, recur_calls, nextThreadNum, threadStacks>>
    BY <1>3 DEF RandomFlush, RandomFlushTSO, RandomFlushPSO, Finish, vars, history
  <2>2. QED
    BY <1>1, <2>1, SameStacks DEF SameFunctions
<1>4. QED
  BY <1>2, <1>3 DEF Next

LEMMA StartedHistory ==
  ASSUME Started, allonAssertExist \in BOOLEAN
  PROVE  HInv
<1>1. IInv
  BY StartedType
<1>2. /\ threadStacks = [t \in Thread |-> IF t = 1 THEN <<NewFrame(Main, 0)>> ELSE <<>>]
      /\ nextThreadNum = 2 /\ trace_rec = <<>> /\ recur_calls = <<0>>
  BY DEF Started
<1>3. ASSUME NEW t \in Thread
      PROVE  OpenCalls(t) = {} /\ EventsOf(t) = {} /\ (threadStacks[t] # <<>> => t = 1)
  <2>1. Len(threadStacks[t]) = 0 \/ Len(threadStacks[t]) = 1
    BY <1>2
  <2>2. Len(trace_rec) = 0
    BY <1>2
  <2>3. QED
    BY <1>2, <2>1, <2>2 DEF OpenCalls, EventsOf
<1>4. Numbers
  BY <1>2, <1>3 DEF Numbers
<1>5. ASSUME NEW t \in Thread PROVE ThreadOK(t)
  <2>1. OpenCalls(t) = {} /\ EventsOf(t) = {}
    BY <1>3
  <2>2. CounterOK(t)
    <3>1. recur_calls[1] = 0
      BY <1>2
    <3>2. Cardinality(OpenCalls(t)) = 0 /\ (threadStacks[t] # <<>> => t = 1)
      BY <1>3, <2>1, FS_EmptySet
    <3>3. QED
      BY <3>1, <3>2 DEF CounterOK
  <2>3. Alternating(t) /\ OpenAtEnd(t) /\ LastIsLowest(t)
    BY <2>1 DEF Alternating, OpenAtEnd, LastIsLowest, InCall
  <2>4. QED
    BY <2>2, <2>3 DEF ThreadOK
<1>6. QED
  BY <1>1, <1>4, <1>5 DEF HInv

(***************************************************************************)
(* Whatever the program, its threads and its recursion, and whichever      *)
(* functions are recorded: recur_calls counts the recorded functions on a  *)
(* thread's stack, each thread's records alternate between a call and the  *)
(* return of the same function, and a call is open exactly while the       *)
(* thread is inside one (RecordInvokeEvent, RecordReturnEvent).            *)
(***************************************************************************)
THEOREM HistoriesWellFormed == Spec => []HistoryWellFormed
<1>1. Init => HInv
  BY StartedHistory DEF Init
<1>2. HInv /\ [Next]_vars => HInv'
  BY HistoryStep
<1>3. HInv => HistoryWellFormed
  BY HInvImplies
<1>4. QED
  BY <1>1, <1>2, <1>3, PTL DEF Spec
=============================================================================
