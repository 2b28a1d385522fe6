----------------------------- MODULE CheckTrace -----------------------------
(***************************************************************************)
(* The checker of recorded histories. It goes through the interleavings of *)
(* the threads' completed calls until one is a run of the sequential       *)
(* specification of the object under test; for linearizability the         *)
(* interleaving must also keep the order of calls that do not overlap.     *)
(*                                                                         *)
(* The first part of a behaviour is the recorded program: calls of the     *)
(* object's methods that overlap and return as they like, as History       *)
(* leaves them (see HistoryWellFormed in Interpreter).                     *)
(***************************************************************************)
EXTENDS Integers, Sequences, FiniteSets, FiniteSetsExt

CONSTANTS
  Thread,     (* threads of the program                                    *)
  Task,       (* arguments: tasks of the queues, elements of the sets      *)
  Checked,    (* values of Params::programToCheck                          *)
  Asked,      (* values of Params::Property                                *)
  Callers,    (* bound: the threads that call, for each program checked    *)
  MaxCalls    (* bound: calls in a history                                 *)

WSQPrograms == {"WSQ_CHASE", "WSQ_LIFO", "WSQ_FIFO", "WSQ_THE", "WSQ_ANCHOR"}
EMPTY == -1   \* what the queues return when they are empty

ASSUME CheckedAssumption == Checked \subseteq WSQPrograms \cup {"QUEUE", "LINKSET", "LF_MALLOC"}
ASSUME AskedAssumption == Asked \subseteq {"SC", "LIN"}
ASSUME CallsAssumption == Thread \subseteq Nat /\ Task \subseteq Nat /\ MaxCalls \in Nat
ASSUME CallersAssumption == Callers \in [Checked -> SUBSET Thread]

VARIABLES
  programToCheck, Property,   (* Params                                     *)
  trace_rec,                  (* the history                                *)
  init_perm,                  (* completed calls, by return                 *)
  thread_perm, curr_perm,     (* the interleaving being tried               *)
  check                       (* how far the check is, or its verdict       *)

vars == <<programToCheck, Property, trace_rec, init_perm, thread_perm, curr_perm, check>>
params == <<programToCheck, Property>>
perms == <<init_perm, thread_perm, curr_perm>>

-----------------------------------------------------------------------------
(* The history.                                                            *)

Methods ==
  CASE programToCheck \in WSQPrograms -> {"wsq_put", "wsq_take", "wsq_steal"}
    [] programToCheck = "QUEUE"       -> {"queue_enqueue", "queue_dequeue"}
    [] programToCheck = "LINKSET"     -> {"linkset_add", "linkset_contains", "linkset_remove"}
    [] programToCheck = "LF_MALLOC"   -> {"mmalloc", "mfree"}

(* Events of a thread, and its open call if it has one.                    *)
Events(t) == {k \in DOMAIN trace_rec : trace_rec[k].thread = t}
Open(t) == Events(t) # {} /\ trace_rec[Max(Events(t))].type = "CALL_FUNC"

Calls == {k \in DOMAIN trace_rec : trace_rec[k].type = "CALL_FUNC"}

Invoke(t) ==
  /\ check = "recording" /\ t \in Callers[programToCheck]
  /\ ~ Open(t) /\ Cardinality(Calls) < MaxCalls
  /\ \E f \in Methods, x \in Task :
        /\ f \in {"wsq_take", "wsq_steal", "queue_dequeue"} => \A y \in Task : x <= y
        /\ trace_rec' = Append(trace_rec, [type |-> "CALL_FUNC", func |-> f, thread |-> t, val |-> x])
  /\ UNCHANGED <<params, perms, check>>

(* What a method may return: a flag, a task or EMPTY, or an address.       *)
Results(f) ==
  CASE f \in {"wsq_take", "wsq_steal", "queue_dequeue"} -> Task \cup {EMPTY}
    [] f = "mmalloc"                                     -> 1 .. 3
    [] f \in {"wsq_put", "queue_enqueue", "mfree"}        -> {1}
    [] OTHER                                             -> {0, 1}

Respond(t) ==
  /\ check = "recording"
  /\ Open(t)
  /\ LET f == trace_rec[Max(Events(t))].func
     IN  \E v \in Results(f) :
            trace_rec' = Append(trace_rec, [type |-> "RETURN_FUNC", func |-> f, thread |-> t, val |-> v])
  /\ UNCHANGED <<params, perms, check>>

-----------------------------------------------------------------------------
(* The sequential specifications. A state is the contents of the object,   *)
(* as the class of the specification keeps them: a deque, a set, or the    *)
(* list of allocated blocks.                                               *)

Initially(prog) == IF prog \in WSQPrograms \cup {"QUEUE"} THEN <<>> ELSE {}

(* A step that is as specified leaves the object as q, another one fails.  *)
Outcome(ok, q) == [ok |-> ok, q |-> q]

PutBack(q, c) == Outcome(c.ret_val = 1, Append(q, c.arg))
PutFront(q, c) == Outcome(c.ret_val = 1, <<c.arg>> \o q)
PopFront(q, c) == IF q = <<>> THEN Outcome(c.ret_val = EMPTY, q)
                  ELSE Outcome(c.ret_val = Head(q), Tail(q))
(* Mutant: dequeue reads the back and leaves it there.                     *)
PeekBack(q, c) == Outcome(c.ret_val = (IF q = <<>> THEN EMPTY ELSE q[Len(q)]), q)
PopBack(q, c) == IF q = <<>> THEN Outcome(c.ret_val = EMPTY, q)
                 ELSE Outcome(c.ret_val = q[Len(q)], SubSeq(q, 1, Len(q) - 1))

(* seq_wsq_take_* and seq_wsq_steal_*: which end they work at.             *)
Take(prog, q, c) == IF prog = "WSQ_FIFO" THEN PopFront(q, c) ELSE PopBack(q, c)
Steal(prog, q, c) == IF prog = "WSQ_LIFO" THEN PopBack(q, c) ELSE PopFront(q, c)

Flag(b) == IF b THEN 1 ELSE 0
SetAdd(q, c) == Outcome(c.ret_val = 1, q \cup {c.arg})
SetContains(q, c) == Outcome(c.ret_val = Flag(c.arg \in q), q)
SetRemove(q, c) == Outcome(c.ret_val = Flag(c.arg \in q), q \ {c.arg})

(* Neither end of a new block may lie in an allocated one, or at its end.  *)
Allocate(q, c) ==
  LET size == c.arg
      inside(a, b) == a >= b.first /\ a <= b.first + b.second
  IN  Outcome(\A b \in q : ~ inside(c.ret_val, b) /\ ~ inside(c.ret_val + size, b),
              q \cup {[first |-> c.ret_val, second |-> size]})
Release(q, c) ==
  Outcome(\E b \in q : b.first = c.arg, {b \in q : b.first # c.arg})

Step(prog, q, c) ==
  CASE c.func = "wsq_put"          -> PutBack(q, c)
    [] c.func = "wsq_take"         -> Take(prog, q, c)
    [] c.func = "wsq_steal"        -> Steal(prog, q, c)
    [] c.func = "queue_enqueue"    -> PutFront(q, c)
    [] c.func = "queue_dequeue"    -> PopBack(q, c)
    [] c.func = "linkset_add"      -> SetAdd(q, c)
    [] c.func = "linkset_contains" -> SetContains(q, c)
    [] c.func = "linkset_remove"   -> SetRemove(q, c)
    [] c.func = "mmalloc"          -> Allocate(q, c)
    [] c.func = "mfree"            -> Release(q, c)

(* The outcome of a sequence of calls on the object of program prog.       *)
Run(prog, calls) ==
  LET after[n \in 0 .. Len(calls)] ==
        IF n = 0 THEN Outcome(TRUE, Initially(prog))
        ELSE IF after[n - 1].ok THEN Step(prog, after[n - 1].q, calls[n]) ELSE after[n - 1]
  IN  after[Len(calls)]

checkPermutation ==
  Run(programToCheck, [i \in DOMAIN curr_perm |-> init_perm[curr_perm[i]]]).ok

-----------------------------------------------------------------------------
(* The interleavings.                                                      *)

(* The i-th smallest member of a set of numbers.                           *)
Nth(S, i) == CHOOSE k \in S : Cardinality({j \in S : j <= k}) = i

(* A completed call: its place in the history, function, thread, argument  *)
(* and result. Calls are listed in the order in which they returned.       *)
Returns == {k \in DOMAIN trace_rec : trace_rec[k].type = "RETURN_FUNC"}
(* Mutant: the last call before the return, of whatever thread.            *)
LastCall(r) == Max({k \in Calls : k < r})
CallOf(r) == Max({k \in Events(trace_rec[r].thread) : k < r})
Completed ==
  [i \in 1 .. Cardinality(Returns) |->
     LET r == Nth(Returns, i)
         e == trace_rec[r]
     IN  [call |-> CallOf(r), ret |-> r, func |-> e.func, thread |-> e.thread,
          arg |-> trace_rec[CallOf(r)].val, ret_val |-> e.val]]

(* The k-th occurrence of a thread in tp stands for the k-th completed     *)
(* call of the thread in ip.                                               *)
Of(ip, t) == {k \in DOMAIN ip : ip[k].thread = t}
Interleaving(ip, tp) ==
  [i \in DOMAIN tp |-> Nth(Of(ip, tp[i]), Cardinality({k \in 1 .. i : tp[k] = tp[i]}))]

(* std::sort of the threads of the calls: in place i is the first thread   *)
(* such that i calls are its own or those of threads before it.            *)
SortedThreads(ip) ==
  [i \in DOMAIN ip |->
     Min({t \in Thread : Cardinality({k \in DOMAIN ip : ip[k].thread <= t}) >= i})]

(* std::next_permutation: the positions from which s rises, and the next   *)
(* sequence in the lexicographic order.                                    *)
Rises(s) == {i \in 1 .. Len(s) - 1 : s[i] < s[i + 1]}
(* Mutant: what follows the risen position stays in falling order.         *)
NextUnsorted(s) ==
  LET p == Max(Rises(s))
      r == Max({k \in p + 1 .. Len(s) : s[k] > s[p]})
  IN  [s EXCEPT ![p] = s[r], ![r] = s[p]]
NextPermutation(s) ==
  LET p == Max(Rises(s))
      r == Max({k \in p + 1 .. Len(s) : s[k] > s[p]})
      swapped == [s EXCEPT ![p] = s[r], ![r] = s[p]]
  IN  [i \in DOMAIN s |-> IF i <= p THEN swapped[i] ELSE swapped[Len(s) + p + 1 - i]]

(* Call i lies before call j in the interleaving; their order in time is   *)
(* kept when they overlap or i was called first.                           *)
(* Mutant: a call that begins during another one does not overlap it.     *)
BeginsBefore(c, d) == d.call > c.call /\ d.call < c.ret
Overlap(c, d) == (c.call > d.call /\ c.call < d.ret) \/ (d.call > c.call /\ d.call < c.ret)
isRealTimeOrderPreserved ==
  \A i, j \in DOMAIN curr_perm :
     i < j => LET c == init_perm[curr_perm[i]]
                  d == init_perm[curr_perm[j]]
              IN  Overlap(c, d) \/ ~ (c.call > d.call)

(* gen_init_sc_perm, once the program has ended: no thread is in a call.   *)
GenInit ==
  /\ check = "recording"
  /\ \A t \in Thread : ~ Open(t)
  /\ init_perm' = Completed
  /\ thread_perm' = SortedThreads(init_perm')
  /\ curr_perm' = Interleaving(init_perm', thread_perm')
  /\ check' = "checking"
  /\ UNCHANGED <<params, trace_rec>>

(* One turn of the loop of checkHistory.                                   *)
Explained == (Property = "LIN" => isRealTimeOrderPreserved) /\ checkPermutation

Accept ==
  /\ check = "checking"
  /\ Explained
  /\ check' = "succeeded"
  /\ UNCHANGED <<params, trace_rec, perms>>

(* Mutants: curr_perm is not made anew, and next_permutation's result,     *)
(* false when it begins again with the sorted sequence, is not looked at.  *)
GenNextStale ==
  /\ check = "checking"
  /\ ~ Explained
  /\ Rises(thread_perm) # {}
  /\ thread_perm' = NextPermutation(thread_perm)
  /\ UNCHANGED <<params, trace_rec, init_perm, curr_perm, check>>
GenNextForEver ==
  /\ check = "checking"
  /\ ~ Explained
  /\ thread_perm' = IF Rises(thread_perm) # {} THEN NextPermutation(thread_perm)
                    ELSE SortedThreads(init_perm)
  /\ curr_perm' = Interleaving(init_perm, thread_perm')
  /\ UNCHANGED <<params, trace_rec, init_perm, check>>

GenNext ==
  /\ check = "checking"
  /\ ~ Explained
  /\ Rises(thread_perm) # {}
  /\ thread_perm' = NextPermutation(thread_perm)
  /\ curr_perm' = Interleaving(init_perm, thread_perm')
  /\ UNCHANGED <<params, trace_rec, init_perm, check>>

Reject ==
  /\ check = "checking"
  /\ ~ Explained
  /\ Rises(thread_perm) = {}
  /\ check' = "failed"
  /\ UNCHANGED <<params, trace_rec, perms>>

Init ==
  /\ programToCheck \in Checked
  /\ Property \in Asked
  /\ trace_rec = <<>>
  /\ init_perm = <<>> /\ thread_perm = <<>> /\ curr_perm = <<>>
  /\ check = "recording"

Next == (\E t \in Thread : Invoke(t) \/ Respond(t)) \/ GenInit \/ Accept \/ GenNext \/ Reject

Spec == Init /\ [][Next]_vars

-----------------------------------------------------------------------------
(* Properties.                                                             *)

(* checkHistory returns 0 and 253.                                         *)
Verdict == {"succeeded", "failed"}

TypeOK ==
  /\ programToCheck \in Checked /\ Property \in Asked
  /\ \A k \in DOMAIN trace_rec :
        trace_rec[k].func \in Methods /\ trace_rec[k].thread \in Thread
  /\ check \in {"recording", "checking"} \cup Verdict
  /\ check # "recording" =>
        /\ DOMAIN thread_perm = DOMAIN init_perm /\ DOMAIN curr_perm = DOMAIN init_perm
        /\ \A i \in DOMAIN curr_perm : init_perm[curr_perm[i]].thread = thread_perm[i]

(* What an explanation of the history may not turn round: the order of a   *)
(* thread's calls, and for linearizability that of calls one of which      *)
(* returned before the other was made.                                     *)
Precedes(c, d) == c.ret < d.call /\ (Property = "LIN" \/ c.thread = d.thread)

(* Some order of the calls C keeps what must be kept and is a run of the   *)
(* sequential specification.                                               *)
Explicable(C) ==
  LET N == DOMAIN C
      kept(p) == \A i, j \in N : i < j => ~ Precedes(C[p[j]], C[p[i]])
  IN  \E p \in [N -> N] :
         /\ Range(p) = N /\ kept(p)
         /\ Run(programToCheck, [i \in N |-> C[p[i]]]).ok

(***************************************************************************)
(* The verdict is that of the definition: success just when some order of  *)
(* the completed calls that keeps what must be kept is a run of the        *)
(* sequential specification (checkHistory, gen_init_sc_perm,               *)
(* gen_next_sc_perm, isRealTimeOrderPreserved).                            *)
(***************************************************************************)
VerdictIsRight ==
  check \in Verdict => (check = "succeeded" <=> Explicable(Completed))

(***************************************************************************)
(* In an accepted history of a queue no task comes out more often than it  *)
(* was put in, nor, when linearizability was asked for, before it was put  *)
(* in (the seq_wsq and seq_queue functions).                               *)
(***************************************************************************)
Putting(x) == {c \in Range(Completed) : c.func \in {"wsq_put", "queue_enqueue"} /\ c.arg = x}
Getting(x) == {c \in Range(Completed) :
                 c.func \in {"wsq_take", "wsq_steal", "queue_dequeue"} /\ c.ret_val = x}

TasksComeFromPuts ==
  check = "succeeded" /\ programToCheck \in WSQPrograms \cup {"QUEUE"} =>
    \A x \in Task :
      /\ Cardinality(Getting(x)) <= Cardinality(Putting(x))
      /\ Property = "LIN" => \A c \in Getting(x) : \E d \in Putting(x) : d.call < c.ret

(***************************************************************************)
(* An accepted history of a queue is first in, first out: when the         *)
(* enqueue of x returned before that of y began, and each was enqueued     *)
(* once, y is not dequeued without x, nor before x (SpecQueue).            *)
(***************************************************************************)
FirstInFirstOut ==
  check = "succeeded" /\ programToCheck = "QUEUE" /\ Property = "LIN" =>
    \A x, y \in Task :
      \A c \in Putting(x), d \in Putting(y), e \in Getting(y) :
         Putting(x) = {c} /\ Putting(y) = {d} /\ c.ret < d.call
           => \E g \in Getting(x) : ~ (e.ret < g.call)

(***************************************************************************)
(* No interleaving is tried twice, so the checker comes to a verdict: each *)
(* is a rearrangement of the one before and later in the lexicographic     *)
(* order (gen_next_sc_perm, the result of std::next_permutation).          *)
(***************************************************************************)
Later(s, r) == \E p \in DOMAIN r : s[p] > r[p] /\ \A i \in 1 .. p - 1 : s[i] = r[i]
Occurrences(s, v) == Cardinality({i \in DOMAIN s : s[i] = v})
PermutationsAdvance ==
  [][check = "checking" /\ check' = "checking" =>
       /\ Later(thread_perm', thread_perm)
       /\ \A t \in Thread : Occurrences(thread_perm', t) = Occurrences(thread_perm, t)]_vars
=============================================================================
