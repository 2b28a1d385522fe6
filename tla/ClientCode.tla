----------------------------- MODULE ClientCode -----------------------------
(***************************************************************************)
(* Notation for small programs of the interpreter: instructions, and       *)
(* bodies numbered as the driver numbers the instructions of a module.     *)
(***************************************************************************)
EXTENDS Interpreter, SequencesExt

I(op, a, x, y) == [op |-> op, addr |-> a, x |-> x, y |-> y, fn |-> "main", to |-> 1,
                   label |-> 0]

St(a, v) == I("store", a, v, 0)
Ld(a) == I("load", a, 0, 0)
Cas(a, x, y) == I("cas32", a, x, y)
CasP(a, x, y) == I("caspo", a, x, y)
FasP(a, x) == I("faspo", a, x, 0)
SS == I("membar_ss", "x", 0, 0)
SL == I("membar_sl", "x", 0, 0)
Set(v) == I("set", "x", v, 0)
New(a) == I("malloc", a, 0, 0)
Del(a) == I("free", a, 0, 0)
Local(a) == I("alloca", a, 0, 0)
Exists(a, v) == I("assert_exist", a, v, 0)
Ret == I("ret", "x", 0, 0)
JoinAll == I("join", "x", 0, 0)
SpawnThread(f) == [I("spawn", "x", 0, 0) EXCEPT !.fn = f]
CallFn(f, v) == [I("call", "x", v, 0) EXCEPT !.fn = f]
BrIf(v, k) == [I("br", "x", v, 0) EXCEPT !.to = k]

(* The sequence of F(1), ..., F(n). SubSeq makes TLC evaluate it once.      *)
Tabulated(F(_), n) == SubSeq([k \in 1 .. n |-> F(k)], 1, n)

(* The driver numbers the instructions of the module from 1.               *)
Numbered(body, first) ==
  Tabulated(LAMBDA k : [body[k] EXCEPT !.label = first + k - 1], Len(body))
=============================================================================
