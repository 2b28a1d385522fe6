------------------------------ MODULE SCMemory ------------------------------
(***************************************************************************)
(* Sequential consistency, in the form the fences inserted by the          *)
(* synthesis restore it: a thread's stores become visible to everybody at  *)
(* one instant each, in program order, and a thread reads or exchanges     *)
(* only when all its earlier stores are visible, or reads an address when  *)
(* its pending stores are to that address: such a read may be thought of   *)
(* as happening just after the store. The instants then order all          *)
(* operations of all threads, each thread's in program order.              *)
(***************************************************************************)
EXTENDS Integers, Sequences

CONSTANTS Thread, Addr, Val, NoLoc

VARIABLES
  mem,       \* memory
  pend,      \* per thread, its last stores, not yet visible, in program order
  observed   \* per thread, the address of its last load or atomic operation, and what it got

vars == <<mem, pend, observed>>

Init ==
  /\ mem = [a \in Addr |-> 0]
  /\ pend = [t \in Thread |-> <<>>]
  /\ observed = [t \in Thread |-> [addr |-> NoLoc, val |-> 0]]

(* Memory after the first n pending stores of thread t became visible.     *)
MemAfter(t, n) ==
  [a \in Addr |->
     LET own == {k \in 1 .. n : pend[t][k].addr = a}
     IN  IF own = {} THEN mem[a]
         ELSE pend[t][CHOOSE k \in own : \A j \in own : j <= k].val]

Issue(t) ==
  /\ Len(pend'[t]) = Len(pend[t]) + 1
  /\ pend' = [pend EXCEPT ![t] = Append(@, pend'[t][Len(pend'[t])])]
  /\ UNCHANGED <<mem, observed>>

Write(t) ==
  /\ pend[t] = <<>>
  /\ \E a \in Addr, v \in Val : mem' = [mem EXCEPT ![a] = v]
  /\ UNCHANGED <<pend, observed>>

Commit(t) ==
  /\ \E n \in 1 .. Len(pend[t]) :
       /\ mem' = MemAfter(t, n)
       /\ pend' = [pend EXCEPT ![t] = SubSeq(@, n + 1, Len(@))]
  /\ UNCHANGED observed

Read(t) ==
  /\ \E a \in Addr :
       /\ \A k \in 1 .. Len(pend[t]) : pend[t][k].addr = a
       /\ observed' = [observed EXCEPT ![t] =
                        [addr |-> a, val |-> MemAfter(t, Len(pend[t]))[a]]]
  /\ UNCHANGED <<mem, pend>>

Exchange(t) ==
  LET m == MemAfter(t, Len(pend[t]))
  IN  /\ pend' = [pend EXCEPT ![t] = <<>>]
      /\ \E a \in Addr :
           /\ observed' = [observed EXCEPT ![t] = [addr |-> a, val |-> m[a]]]
           /\ mem' = m \/ \E v \in Val : mem' = [m EXCEPT ![a] = v]

Next == \E t \in Thread : Issue(t) \/ Write(t) \/ Commit(t) \/ Read(t) \/ Exchange(t)

Spec == Init /\ [][Next]_vars
=============================================================================
