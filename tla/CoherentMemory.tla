-------------------------- MODULE CoherentMemory --------------------------
(***************************************************************************)
(* What any of the simulated memory models promises a program, address by  *)
(* address: a thread's stores to one address reach memory one after the    *)
(* other in program order, a load returns the thread's own newest pending  *)
(* store to the address or else what memory holds, and an atomic exchange  *)
(* acts on memory when the thread has no pending store to the address.     *)
(* Stores to different addresses are not ordered at all.                   *)
(*                                                                         *)
(* A thread may make pending stores visible at any time, also as a part of *)
(* another of its operations (a fence, or an instruction that flushes).    *)
(***************************************************************************)
EXTENDS Integers

CONSTANTS Thread, Addr, Val, NoLoc

VARIABLES
  mem,       \* memory
  pend,      \* per thread, the stores not yet visible
  observed,  \* per thread, the address of its last load or atomic operation, and what it got
  live,      \* the addresses in use
  faulted    \* a segment fault was seen: nothing is promised any more

vars == <<mem, pend, observed, live, faulted>>

(* A store; a thread's stores to an address are numbered in program order. *)
Store == [addr : Addr, at : Nat, val : Val]

Init ==
  /\ mem = [a \in Addr |-> 0]
  /\ pend = [t \in Thread |-> {}]
  /\ observed = [t \in Thread |-> [addr |-> NoLoc, val |-> 0]]
  /\ live \subseteq Addr
  /\ faulted = FALSE

To(S, a) == {e \in S : e.addr = a}
Last(S) == CHOOSE e \in S : \A d \in S : d.at <= e.at

(* Memory when the stores in S have become visible.                        *)
MemAfter(S) == [a \in Addr |-> IF To(S, a) = {} THEN mem[a] ELSE Last(To(S, a)).val]

(* The sets of stores of thread t that may become visible together: with a *)
(* store, all those to the same address before it.                         *)
Committable(t) ==
  {S \in SUBSET pend[t] :
     \A e \in S, d \in pend[t] : d.addr = e.addr /\ d.at < e.at => d \in S}

Issue(t) ==
  /\ \E e \in pend'[t] :
        /\ e \in Store
        /\ \A d \in To(pend[t], e.addr) : d.at < e.at
        /\ pend' = [pend EXCEPT ![t] = @ \cup {e}]
  /\ UNCHANGED <<mem, observed, live>>

(* A store that is visible at once.                                        *)
Write(t) ==
  /\ \E a \in Addr, v \in Val : To(pend[t], a) = {} /\ mem' = [mem EXCEPT ![a] = v]
  /\ UNCHANGED <<pend, observed, live>>

Commit(t) ==
  /\ \E S \in Committable(t) :
        /\ mem' = MemAfter(S)
        /\ pend' = [pend EXCEPT ![t] = @ \ S]
  /\ UNCHANGED <<observed, live>>

Read(t) ==
  /\ \E a \in Addr :
        observed' = [observed EXCEPT ![t] = [addr |-> a, val |-> MemAfter(pend[t])[a]]]
  /\ UNCHANGED <<mem, pend, live>>

(* An atomic operation: it gets the old value and may put a new one.       *)
Exchange(t) ==
  /\ \E S \in Committable(t), a \in Addr :
        LET m == MemAfter(S)
        IN  /\ To(pend[t], a) \subseteq S
            /\ observed' = [observed EXCEPT ![t] = [addr |-> a, val |-> m[a]]]
            /\ mem' = m \/ \E v \in Val : mem' = [m EXCEPT ![a] = v]
            /\ pend' = [pend EXCEPT ![t] = @ \ S]
  /\ UNCHANGED live

(* Memory comes into use with any contents, and goes out of use.           *)
Allocate ==
  /\ \E a \in Addr \ live, v \in Val :
        live' = live \cup {a} /\ mem' = [mem EXCEPT ![a] = v]
  /\ UNCHANGED <<pend, observed>>

Release ==
  /\ live' \subseteq live
  /\ UNCHANGED <<mem, pend, observed>>

Next ==
  \/ faulted'
  \/ /\ ~ faulted /\ ~ faulted'
     /\ \/ \E t \in Thread : Issue(t) \/ Write(t) \/ Commit(t) \/ Read(t) \/ Exchange(t)
        \/ Allocate \/ Release

Spec == Init /\ [][Next]_vars
=============================================================================
