--------------------------- MODULE SynthesisProofs ---------------------------
(***************************************************************************)
(* Proofs about the synthesis driver, for every program, number of runs in *)
(* a round, set of threads and set of fences.                              *)
(***************************************************************************)
EXTENDS Synthesis, HistoryProofs, FenceProofs

-----------------------------------------------------------------------------
(* Buffers reconstructed from a trace. The trace is extended record by     *)
(* record; what was reconstructed before stays.                            *)

(* The stores thread t has buffered after the trace, and the literals for  *)
(* what overtook its stores in it.                                         *)
BufferAt(trace, t) == Buffered(trace, Of(trace, t))[Len(trace)]
LitsAt(trace, t) == GenerateClauses(trace, Of(trace, t))

LEMMA LeastNat ==
  ASSUME NEW T, T \subseteq Nat, T # {}
  PROVE  \E x \in T : \A y \in T : x <= y
<1> DEFINE R == {ss \in Nat \X Nat : ss[1] < ss[2]}
<1>1. IsWellFoundedOn(R, Nat)
  BY NatLessThanWellFounded DEF OpToRel
<1>2. \A x, y \in Nat : y < x => <<y, x>> \in R
  OBVIOUS
<1> HIDE DEF R
<1>3. PICK x \in T : \A y \in T : ~ (<<y, x>> \in R)
  BY <1>1, WFMin
<1>4. x \in Nat /\ T \subseteq Nat
  OBVIOUS
<1>5. ASSUME NEW y \in T PROVE x <= y
  <2>1. y \in Nat
    BY <1>4
  <2>2. ~ (y < x)
    BY <1>2, <1>3, <1>4, <2>1, Zenon
  <2>3. QED
    BY <2>1, <2>2, <1>4
<1>6. QED
  BY <1>5

(* f says for every length up to n what is buffered after it.              *)
Reconstruction(trace, own, f, n) ==
  f = [m \in 0 .. n |->
         IF m = 0 THEN {}
         ELSE IF m \in own THEN StoreBuffer(trace, f[m - 1], m) ELSE f[m - 1]]

LEMMA ReconstructionExists ==
  ASSUME NEW trace, NEW own, NEW n \in Nat
  PROVE  \E f : Reconstruction(trace, own, f, n)
<1> DEFINE T == {m \in Nat : ~ \E f : Reconstruction(trace, own, f, m)}
<1>1. SUFFICES ASSUME T # {} PROVE FALSE
  OBVIOUS
<1>2. PICK m \in T : \A k \in T : m <= k
  BY <1>1, LeastNat
<1>3. m \in Nat /\ ~ \E f : Reconstruction(trace, own, f, m)
  OBVIOUS
<1> DEFINE value(h, k) == IF k = 0 THEN {}
                          ELSE IF k \in own THEN StoreBuffer(trace, h[k - 1], k) ELSE h[k - 1]
<1>4. CASE m = 0
  <2> DEFINE f == [k \in 0 .. 0 |-> {}]
  <2>1. \A k \in 0 .. 0 : k = 0
    OBVIOUS
  <2>2. f = [k \in 0 .. 0 |-> value(f, k)]
    BY <2>1
  <2>3. Reconstruction(trace, own, f, 0)
    BY <2>2 DEF Reconstruction
  <2>4. QED
    BY <1>3, <1>4, <2>3
<1>5. CASE m # 0
  <2>1. m - 1 \in Nat /\ ~ (m <= m - 1)
    BY <1>3, <1>5
  <2>2. PICK g : Reconstruction(trace, own, g, m - 1)
    BY <1>2, <2>1
  <2> DEFINE f == [k \in 0 .. m |-> IF k = m THEN value(g, m) ELSE g[k]]
  <2>3. \A k \in 0 .. m - 1 : g[k] = value(g, k)
    BY <2>2 DEF Reconstruction
  <2>4. \A k \in 0 .. m - 1 : f[k] = g[k]
    BY <1>3, <1>5
  <2>5. f[m] = value(g, m) /\ f = [k \in 0 .. m |-> f[k]]
    BY <1>3
  <2> HIDE DEF f
  <2>6. ASSUME NEW k \in 0 .. m PROVE f[k] = value(f, k)
    <3>1. value(f, k) = value(g, k)
      <4>1. CASE k = 0
        BY <4>1
      <4>2. CASE k # 0
        <5>1. k - 1 \in 0 .. m - 1
          BY <1>3, <4>2
        <5>2. f[k - 1] = g[k - 1]
          BY <2>4, <5>1
        <5>3. QED
          BY <4>2, <5>2
      <4>3. QED
        BY <4>1, <4>2
    <3>2. f[k] = value(g, k)
      <4>1. CASE k = m
        BY <2>5, <4>1
      <4>2. CASE k # m
        <5>1. k \in 0 .. m - 1
          BY <1>3, <4>2
        <5>2. QED
          BY <2>3, <2>4, <5>1
      <4>3. QED
        BY <4>1, <4>2
    <3>3. QED
      BY <3>1, <3>2
  <2>7. f = [k \in 0 .. m |-> value(f, k)]
    BY <2>5, <2>6
  <2>8. Reconstruction(trace, own, f, m)
    BY <2>7 DEF Reconstruction
  <2>9. QED
    BY <1>3, <2>8
<1>6. QED
  BY <1>4, <1>5

LEMMA BufferedIs ==
  ASSUME NEW trace, NEW own, Len(trace) \in Nat
  PROVE  /\ Buffered(trace, own)[0] = {}
         /\ \A n \in 1 .. Len(trace) :
               Buffered(trace, own)[n] = IF n \in own THEN StoreBuffer(trace, Buffered(trace, own)[n - 1], n)
                                                      ELSE Buffered(trace, own)[n - 1]
<1> DEFINE g == CHOOSE f : f = [m \in 0 .. Len(trace) |->
                  IF m = 0 THEN {}
                  ELSE IF m \in own THEN StoreBuffer(trace, f[m - 1], m) ELSE f[m - 1]]
<1>1. \E f : f = [m \in 0 .. Len(trace) |->
                  IF m = 0 THEN {}
                  ELSE IF m \in own THEN StoreBuffer(trace, f[m - 1], m) ELSE f[m - 1]]
  <2>1. PICK f : Reconstruction(trace, own, f, Len(trace))
    BY ReconstructionExists
  <2>2. QED
    BY <2>1 DEF Reconstruction
<1>2. g = [m \in 0 .. Len(trace) |->
                  IF m = 0 THEN {}
                  ELSE IF m \in own THEN StoreBuffer(trace, g[m - 1], m) ELSE g[m - 1]]
  BY <1>1
<1>3. Buffered(trace, own) = g
  BY DEF Buffered
<1> HIDE DEF g
<1>4. g[0] = {}
  <2>1. 0 \in 0 .. Len(trace)
    OBVIOUS
  <2>2. QED
    BY <1>2, <2>1
<1>5. ASSUME NEW n \in 1 .. Len(trace)
      PROVE  g[n] = IF n \in own THEN StoreBuffer(trace, g[n - 1], n) ELSE g[n - 1]
  <2>1. n \in 0 .. Len(trace) /\ n # 0
    OBVIOUS
  <2>2. QED
    BY <1>2, <2>1
<1>6. QED
  BY <1>3, <1>4, <1>5

LEMMA StoreBufferIn ==
  ASSUME NEW trace, NEW buffer, NEW n
  PROVE  \A k \in StoreBuffer(trace, buffer, n) :
            k \in buffer \/ (k = n /\ trace[n].type = "WRITE" /\ trace[n].label # 0)
<1> DEFINE e == trace[n]
<1>1. CASE e.label = 0
  BY <1>1 DEF StoreBuffer
<1>2. CASE e.label # 0 /\ e.type = "WRITE"
  BY <1>2 DEF StoreBuffer
<1>3. CASE e.label # 0 /\ e.type # "WRITE"
  <2>1. StoreBuffer(trace, buffer, n) \subseteq buffer
    <3>1. CASE e.type = "FLUSH_RANDOM_TSO"
      BY <1>3, <3>1 DEF StoreBuffer
    <3>2. CASE e.type = "FLUSH_RANDOM_PSO"
      BY <1>3, <3>2 DEF StoreBuffer
    <3>3. CASE e.type = "FLUSH_CAS_PSO"
      BY <1>3, <3>3 DEF StoreBuffer
    <3>4. CASE e.type \notin {"FLUSH_RANDOM_TSO", "FLUSH_RANDOM_PSO", "FLUSH_CAS_PSO"}
      BY <1>3, <3>4 DEF StoreBuffer
    <3>5. QED
      BY <3>1, <3>2, <3>3, <3>4
  <2>2. QED
    BY <2>1
<1>4. QED
  BY <1>1, <1>2, <1>3

(* What is buffered are stores of the thread, with a label.                *)
LEMMA BufferedWrites ==
  ASSUME NEW trace, NEW own, Len(trace) \in Nat
  PROVE  \A n \in 0 .. Len(trace) : \A k \in Buffered(trace, own)[n] :
            k \in own /\ k \in 1 .. n /\ trace[k].type = "WRITE" /\ trace[k].label # 0
<1> DEFINE B == Buffered(trace, own)
           Right(n) == \A k \in B[n] :
                         k \in own /\ k \in 1 .. n /\ trace[k].type = "WRITE" /\ trace[k].label # 0
           T == {n \in Nat : n \in 0 .. Len(trace) /\ ~ Right(n)}
<1>1. SUFFICES ASSUME T # {} PROVE FALSE
  OBVIOUS
<1>2. PICK m \in T : \A k \in T : m <= k
  BY <1>1, LeastNat
<1>3. m \in Nat /\ m \in 0 .. Len(trace) /\ ~ Right(m)
  OBVIOUS
<1>4. m # 0
  BY <1>3, BufferedIs
<1>5. m - 1 \in Nat /\ m - 1 \in 0 .. Len(trace) /\ m \in 1 .. Len(trace) /\ ~ (m <= m - 1)
  BY <1>3, <1>4
<1>6. Right(m - 1)
  BY <1>2, <1>5
<1>7. \A k \in B[m] : k \in B[m - 1] \/ (m \in own /\ k = m /\ trace[m].type = "WRITE" /\ trace[m].label # 0)
  <2>1. B[m] = IF m \in own THEN StoreBuffer(trace, B[m - 1], m) ELSE B[m - 1]
    BY <1>5, BufferedIs
  <2> HIDE DEF B
  <2>2. QED
    BY <2>1, StoreBufferIn
<1>8. Right(m)
  BY <1>5, <1>6, <1>7
<1>9. QED
  BY <1>3, <1>8

(* One more record.                                                        *)
LEMMA AppendIs ==
  ASSUME NEW trace \in Seq(RWRecord), NEW e \in RWRecord
  PROVE  /\ Append(trace, e) \in Seq(RWRecord)
         /\ Len(trace) \in Nat
         /\ Len(Append(trace, e)) = Len(trace) + 1
         /\ \A k \in 1 .. Len(trace) : Append(trace, e)[k] = trace[k]
         /\ Append(trace, e)[Len(trace) + 1] = e
BY AppendProperties, LenProperties

LEMMA SameBetween ==
  ASSUME NEW trace, NEW more, NEW n \in Nat, \A k \in 1 .. n : more[k] = trace[k],
         NEW k \in 1 .. n
  PROVE  Between(more, k) <=> Between(trace, k)
<1>1. \A j \in 1 .. k : j \in 1 .. n
  OBVIOUS
<1>2. Boundaries(more, k) = Boundaries(trace, k)
  BY <1>1 DEF Boundaries
<1>3. \A j \in Boundaries(trace, k) : more[j] = trace[j]
  BY <1>1 DEF Boundaries
<1>4. QED
  BY <1>2, <1>3 DEF Between

LEMMA SameStep ==
  ASSUME NEW trace, NEW more, NEW n \in Nat, \A k \in 1 .. n : more[k] = trace[k],
         NEW m \in 1 .. n, NEW buffer \in SUBSET (1 .. n)
  PROVE  /\ StoreBuffer(more, buffer, m) = StoreBuffer(trace, buffer, m)
         /\ Literals(more, buffer, m) = Literals(trace, buffer, m)
<1>1. more[m] = trace[m] /\ \A k \in buffer : more[k] = trace[k]
  OBVIOUS
<1>2. \A loc : To(more, buffer, loc) = To(trace, buffer, loc)
  BY <1>1 DEF To
<1>3. StoreBuffer(more, buffer, m) = StoreBuffer(trace, buffer, m)
  BY <1>1, <1>2 DEF StoreBuffer
<1>4. Overtaken(more, buffer, m) = Overtaken(trace, buffer, m) /\ Overtaken(trace, buffer, m) \subseteq buffer
  BY <1>1, <1>2 DEF Overtaken
<1>5. \A kind : {Lit(kind, more[k], more[m]) : k \in Overtaken(more, buffer, m)}
                  = {Lit(kind, trace[k], trace[m]) : k \in Overtaken(trace, buffer, m)}
  BY <1>1, <1>4
<1>6. Literals(more, buffer, m) = Literals(trace, buffer, m)
  BY <1>1, <1>5 DEF Literals
<1>7. QED
  BY <1>3, <1>6

LEMMA SameBuffered ==
  ASSUME NEW trace, NEW more, Len(trace) \in Nat, Len(more) \in Nat, Len(trace) <= Len(more),
         \A k \in 1 .. Len(trace) : more[k] = trace[k],
         NEW own, NEW own2, \A k \in 1 .. Len(trace) : k \in own <=> k \in own2
  PROVE  \A n \in 0 .. Len(trace) : Buffered(more, own2)[n] = Buffered(trace, own)[n]
<1> DEFINE B == Buffered(trace, own)
           C == Buffered(more, own2)
           T == {n \in Nat : n \in 0 .. Len(trace) /\ C[n] # B[n]}
<1>1. SUFFICES ASSUME T # {} PROVE FALSE
  OBVIOUS
<1>2. PICK m \in T : \A k \in T : m <= k
  BY <1>1, LeastNat
<1>3. m \in Nat /\ m \in 0 .. Len(trace) /\ C[m] # B[m]
  OBVIOUS
<1>4. m # 0
  BY <1>3, BufferedIs
<1>5. /\ m - 1 \in Nat /\ m - 1 \in 0 .. Len(trace) /\ ~ (m <= m - 1)
      /\ m \in 1 .. Len(trace) /\ m \in 1 .. Len(more)
  BY <1>3, <1>4
<1>6. C[m - 1] = B[m - 1]
  BY <1>2, <1>5
<1>7. B[m - 1] \in SUBSET (1 .. Len(trace))
  <2>1. \A k \in B[m - 1] : k \in 1 .. m - 1
    BY <1>5, BufferedWrites
  <2>2. QED
    BY <1>5, <2>1
<1>8. StoreBuffer(more, B[m - 1], m) = StoreBuffer(trace, B[m - 1], m)
  BY <1>5, <1>7, SameStep
<1>9. /\ B[m] = IF m \in own THEN StoreBuffer(trace, B[m - 1], m) ELSE B[m - 1]
      /\ C[m] = IF m \in own2 THEN StoreBuffer(more, C[m - 1], m) ELSE C[m - 1]
  BY <1>5, BufferedIs
<1> HIDE DEF B, C
<1>10. QED
  BY <1>3, <1>5, <1>6, <1>8, <1>9

LEMMA OfIs ==
  ASSUME NEW trace, NEW t, NEW k
  PROVE  k \in Of(trace, t) <=> k \in 1 .. Len(trace) /\ Between(trace, k) /\ trace[k].thr = t
BY DEF Of, FindSharedRW

(* The new record counts for its thread when it lies in a region.          *)
Counts(trace, e, t) ==
  Between(Append(trace, e), Len(trace) + 1) /\ e.thr = t

LEMMA OneMore ==
  ASSUME NEW trace \in Seq(RWRecord), NEW e \in RWRecord, NEW t
  PROVE  LET more == Append(trace, e)
             n == Len(trace) + 1
         IN  /\ BufferAt(more, t) = IF Counts(trace, e, t) THEN StoreBuffer(more, BufferAt(trace, t), n)
                                                           ELSE BufferAt(trace, t)
             /\ LitsAt(more, t) = LitsAt(trace, t) \cup
                   (IF Counts(trace, e, t) THEN Literals(more, BufferAt(trace, t), n) ELSE {})
<1> DEFINE more == Append(trace, e)
           n == Len(trace) + 1
           own == Of(trace, t)
           own2 == Of(more, t)
           B == Buffered(trace, own)
           C == Buffered(more, own2)
<1>1. /\ Len(trace) \in Nat /\ n \in Nat /\ n # 0 /\ n - 1 = Len(trace)
      /\ Len(more) = n /\ more[n] = e
      /\ \A k \in 1 .. Len(trace) : more[k] = trace[k]
  BY AppendIs
<1> HIDE DEF more
<1>2. \A k \in 1 .. Len(trace) : k \in own <=> k \in own2
  <2>1. ASSUME NEW k \in 1 .. Len(trace)
        PROVE  k \in own <=> k \in own2
    <3>1. Between(more, k) <=> Between(trace, k)
      BY <1>1, SameBetween
    <3>2. k \in 1 .. Len(more) /\ more[k] = trace[k]
      BY <1>1
    <3>3. QED
      BY <3>1, <3>2, OfIs
  <2>2. QED
    BY <2>1
<1>3. own2 = own \cup (IF Counts(trace, e, t) THEN {n} ELSE {})
  <2>1. \A k : k \in 1 .. Len(more) <=> (k \in 1 .. Len(trace) \/ k = n)
    BY <1>1
  <2>2. n \in own2 <=> Counts(trace, e, t)
    <3>1. Counts(trace, e, t) <=> Between(more, n) /\ more[n].thr = t
      BY <1>1 DEF Counts, more
    <3>2. n \in 1 .. Len(more)
      BY <1>1
    <3>3. QED
      BY <3>1, <3>2, OfIs
  <2>3. \A k \in own2 : k \in 1 .. Len(trace) \/ k = n
    BY <2>1, OfIs
  <2>4. \A k \in own : k \in 1 .. Len(trace)
    BY OfIs
  <2>5. QED
    BY <1>2, <2>2, <2>3, <2>4
<1>4. \A k \in own : k \in 1 .. Len(trace)
  BY OfIs
<1>5. ~ (n \in 1 .. Len(trace))
  BY <1>1
<1>6. \A m \in 0 .. Len(trace) : C[m] = B[m]
  <2>1. Len(more) \in Nat /\ Len(trace) <= Len(more)
    BY <1>1
  <2> HIDE DEF own, own2
  <2>2. QED
    BY <1>1, <1>2, <2>1, SameBuffered
<1>7. C[n] = IF n \in own2 THEN StoreBuffer(more, C[n - 1], n) ELSE C[n - 1]
  <2>1. n \in 1 .. Len(more) /\ Len(more) \in Nat
    BY <1>1
  <2>2. QED
    BY <1>1, <2>1, BufferedIs
<1>8. C[n - 1] = B[Len(trace)]
  BY <1>1, <1>6
<1>9. n \in own2 <=> Counts(trace, e, t)
  BY <1>3, <1>4, <1>5
<1>10. BufferAt(more, t) = IF Counts(trace, e, t) THEN StoreBuffer(more, BufferAt(trace, t), n)
                                                  ELSE BufferAt(trace, t)
  BY <1>1, <1>7, <1>8, <1>9 DEF BufferAt
<1>11. \A l : l \in LitsAt(more, t) <=> \E m \in own2 : l \in Literals(more, C[m - 1], m)
  BY DEF LitsAt, GenerateClauses
<1>12. \A l : l \in LitsAt(trace, t) <=> \E m \in own : l \in Literals(trace, B[m - 1], m)
  BY DEF LitsAt, GenerateClauses
<1>13. \A m \in own : Literals(more, C[m - 1], m) = Literals(trace, B[m - 1], m)
  <2>1. ASSUME NEW m \in own PROVE Literals(more, C[m - 1], m) = Literals(trace, B[m - 1], m)
    <3>1. m \in 1 .. Len(trace) /\ m - 1 \in 0 .. Len(trace)
      BY <1>1, <1>4
    <3>2. C[m - 1] = B[m - 1]
      BY <1>6, <3>1
    <3>3. B[m - 1] \in SUBSET (1 .. Len(trace))
      <4>1. \A k \in B[m - 1] : k \in 1 .. m - 1
        BY <1>1, <3>1, BufferedWrites
      <4>2. QED
        BY <3>1, <4>1
    <3>4. PICK b : b = B[m - 1]
      OBVIOUS
    <3> HIDE DEF B, C, own, n
    <3>5. Literals(more, b, m) = Literals(trace, b, m)
      BY <1>1, <3>1, <3>3, <3>4, SameStep
    <3>6. QED
      BY <3>2, <3>4, <3>5
  <2>2. QED
    BY <2>1
<1>14. Literals(more, C[n - 1], n) = Literals(more, BufferAt(trace, t), n)
  BY <1>8 DEF BufferAt
<1> HIDE DEF own, own2, B, C, n
<1>15. LitsAt(more, t) = LitsAt(trace, t) \cup
         (IF Counts(trace, e, t) THEN Literals(more, BufferAt(trace, t), n) ELSE {})
  <2> DEFINE last == IF Counts(trace, e, t) THEN Literals(more, BufferAt(trace, t), n) ELSE {}
  <2>1. \A m : m \in own2 <=> m \in own \/ (m = n /\ Counts(trace, e, t))
    BY <1>3
  <2>2. \A l : (\E m \in own2 : l \in Literals(more, C[m - 1], m))
                  <=> \/ \E m \in own : l \in Literals(trace, B[m - 1], m)
                      \/ l \in last
    BY <1>13, <1>14, <2>1
  <2> HIDE DEF last
  <2>3. \A l : l \in LitsAt(more, t) <=> l \in LitsAt(trace, t) \/ l \in last
    BY <1>11, <1>12, <2>2, Zenon
  <2>4. LitsAt(more, t) = LitsAt(trace, t) \cup last
    BY <2>3
  <2>5. QED
    BY <2>4 DEF last
<1>16. QED
  BY <1>10, <1>15 DEF more, n

LEMMA BufferAtWrites ==
  ASSUME NEW trace \in Seq(RWRecord), NEW t
  PROVE  \A k \in BufferAt(trace, t) :
            /\ k \in 1 .. Len(trace) /\ trace[k] \in RWRecord
            /\ trace[k].thr = t /\ trace[k].type = "WRITE" /\ trace[k].label # 0
            /\ Between(trace, k)
<1>1. Len(trace) \in Nat /\ Len(trace) \in 0 .. Len(trace)
  BY LenProperties
<1>2. \A k \in BufferAt(trace, t) :
        k \in Of(trace, t) /\ k \in 1 .. Len(trace) /\ trace[k].type = "WRITE" /\ trace[k].label # 0
  BY <1>1, BufferedWrites DEF BufferAt
<1>3. QED
  BY <1>2, OfIs, ElementOfSeq

LEMMA NothingRecorded ==
  ASSUME NEW t
  PROVE  BufferAt(<<>>, t) = {} /\ LitsAt(<<>>, t) = {}
<1>1. Len(<<>>) = 0
  BY EmptySeq
<1>2. BufferAt(<<>>, t) = {}
  BY <1>1, BufferedIs DEF BufferAt
<1>3. \A k : ~ (k \in Of(<<>>, t))
  BY <1>1, OfIs
<1>4. QED
  BY <1>2, <1>3 DEF LitsAt, GenerateClauses

(* Where literals come from.                                               *)
Finding(l, st, next) ==
  /\ st.type = "WRITE" /\ st.label # 0
  /\ next.type \in {"READ", "WRITE"} /\ next.label # 0
  /\ l = Lit(IF next.type = "READ" THEN "sl" ELSE "ss", st, next)
  /\ next.type = "WRITE" => WMM = "PSO"

LEMMA LiteralsAre ==
  ASSUME NEW trace, NEW buffer, NEW n, NEW l,
         \A k \in buffer : trace[k].type = "WRITE" /\ trace[k].label # 0
  PROVE  l \in Literals(trace, buffer, n)
           <=> \E k \in buffer : trace[k].loc # trace[n].loc /\ Finding(l, trace[k], trace[n])
<1> DEFINE e == trace[n]
           over(kind) == {Lit(kind, trace[k], e) : k \in Overtaken(trace, buffer, n)}
<1>1. \A k : k \in Overtaken(trace, buffer, n) <=> k \in buffer /\ trace[k].loc # e.loc
  BY DEF Overtaken, To
<1>2. CASE e.label # 0 /\ e.type = "READ"
  <2>1. Literals(trace, buffer, n) = over("sl")
    BY <1>2 DEF Literals
  <2>2. \A k \in buffer : Finding(l, trace[k], e) <=> l = Lit("sl", trace[k], e)
    BY <1>2 DEF Finding
  <2>3. QED
    BY <1>1, <2>1, <2>2
<1>3. CASE e.label # 0 /\ e.type = "WRITE" /\ WMM = "PSO"
  <2>1. Literals(trace, buffer, n) = over("ss")
    BY <1>3 DEF Literals
  <2>2. \A k \in buffer : Finding(l, trace[k], e) <=> l = Lit("ss", trace[k], e)
    BY <1>3 DEF Finding
  <2>3. QED
    BY <1>1, <2>1, <2>2
<1>4. CASE ~ (e.label # 0 /\ e.type = "READ") /\ ~ (e.label # 0 /\ e.type = "WRITE" /\ WMM = "PSO")
  <2>1. Literals(trace, buffer, n) = {}
    BY <1>4 DEF Literals
  <2>2. \A k \in buffer : ~ Finding(l, trace[k], e)
    BY <1>4 DEF Finding
  <2>3. QED
    BY <2>1, <2>2
<1>5. QED
  BY <1>2, <1>3, <1>4

LEMMA LitsAtAre ==
  ASSUME NEW trace \in Seq(RWRecord), NEW t, NEW l \in LitsAt(trace, t)
  PROVE  \E k, n \in 1 .. Len(trace) :
            /\ trace[k].thr = t /\ trace[n].thr = t
            /\ trace[k] \in RWRecord /\ trace[n] \in RWRecord
            /\ Finding(l, trace[k], trace[n])
<1> DEFINE B == Buffered(trace, Of(trace, t))
<1>1. PICK n \in Of(trace, t) : l \in Literals(trace, B[n - 1], n)
  BY DEF LitsAt, GenerateClauses
<1>2. Len(trace) \in Nat /\ n \in 1 .. Len(trace) /\ trace[n].thr = t
  BY OfIs, LenProperties
<1>3. n - 1 \in 0 .. Len(trace)
  BY <1>2
<1>4. \A k \in B[n - 1] : k \in Of(trace, t) /\ k \in 1 .. n - 1 /\ trace[k].type = "WRITE" /\ trace[k].label # 0
  BY <1>2, <1>3, BufferedWrites
<1> HIDE DEF B
<1>5. PICK k \in B[n - 1] : Finding(l, trace[k], trace[n])
  BY <1>1, <1>4, LiteralsAre
<1>6. k \in 1 .. Len(trace) /\ trace[k].thr = t
  BY <1>4, OfIs
<1>7. QED
  BY <1>2, <1>5, <1>6, ElementOfSeq

LEMMA NoLiterals0 ==
  ASSUME NEW trace, NEW buffer, NEW n,
         trace[n].type \notin {"READ", "WRITE"} \/ trace[n].label = 0
  PROVE  Literals(trace, buffer, n) = {}
BY DEF Literals

-----------------------------------------------------------------------------
(* What an instruction leaves in the trace and on the stacks.              *)

Advances(t) == \E v \in Val : Advance(t, v)

Leaves(t, e) ==
  /\ e.thr = t
  /\ e.type = "READ" => Instr(t).op = "load" /\ e.label = Instr(t).label
  /\ e.type = "WRITE" => /\ Instr(t).op \in {"store", "cas32"}
                         /\ e.label \in {0, Instr(t).label} /\ Advances(t)
  /\ e.type = "SPAWN" => Instr(t).op = "spawn"
  /\ e.type = "JOIN" => Instr(t).op = "join"
  /\ Instr(t).op \in FenceOps => e.label = 0 /\ e.type \notin {"READ", "WRITE", "SPAWN", "JOIN"}

Recorded0(t) == rwtrace_rec' = rwtrace_rec /\ Instr(t).op \notin FenceOps
Recorded1(t) == \E e \in RWRecord : Leaves(t, e) /\ rwtrace_rec' = Append(rwtrace_rec, e)
Recorded2(t) ==
  \E e, f \in RWRecord :
     /\ Leaves(t, e) /\ Leaves(t, f) /\ Instr(t).op \notin FenceOps
     /\ f.type \notin {"READ", "WRITE", "SPAWN", "JOIN"}
     /\ e.type = "WRITE"
     /\ rwtrace_rec' = Append(Append(rwtrace_rec, e), f)

LEMMA RecordIs ==
  ASSUME IInv, Len(rwtrace_rec) < RecordLimit, NEW ev, Record(ev)
  PROVE  /\ ev = <<>> => rwtrace_rec' = rwtrace_rec
         /\ \A e : ev = <<e>> => rwtrace_rec' = Append(rwtrace_rec, e)
         /\ \A e, f : ev = <<e, f>> => rwtrace_rec' = Append(Append(rwtrace_rec, e), f)
<1>1. rwtrace_rec' = rwtrace_rec \o ev /\ rwtrace_rec \in Seq(RWRecord)
  BY DEF Record, IInv, TypeOK
<1>2. QED
  BY <1>1

LEMMA RecordedOne ==
  ASSUME IInv, Len(rwtrace_rec) < RecordLimit, NEW t \in Thread, NEW type \in RWType,
         NEW loc \in Addr \cup {NoLoc}, NEW label \in Int,
         Record(<<RWEvent(type, t, loc, label)>>), Leaves(t, RWEvent(type, t, loc, label))
  PROVE  Recorded1(t)
<1>1. RWEvent(type, t, loc, label) \in RWRecord
  BY EventType
<1>2. QED
  BY <1>1, RecordIs DEF Recorded1

LEMMA PairIs ==
  ASSUME NEW S, NEW w \in S, NEW f \in S
  PROVE  <<w>> \o <<f>> = <<w, f>> /\ <<>> \o <<f>> = <<f>>
<1>1. <<w>> \in Seq(S) /\ <<f>> \in Seq(S) /\ <<w, f>> \in Seq(S) /\ <<>> \in Seq(S)
  OBVIOUS
<1>2. <<w>> \o <<f>> = <<w, f>>
  <2>1. <<w>> \o <<f>> \in Seq(S) /\ Len(<<w>> \o <<f>>) = 2 /\ Len(<<w, f>>) = 2
    BY <1>1, ConcatProperties
  <2>2. \A k \in 1 .. 2 : (<<w>> \o <<f>>)[k] = <<w, f>>[k]
    BY <1>1, ConcatProperties
  <2>3. QED
    BY <1>1, <2>1, <2>2, SeqEqual
<1>3. <<>> \o <<f>> = <<f>>
  BY <1>1, ConcatEmptySeq
<1>4. QED
  BY <1>2, <1>3

LEMMA InstructionRecords ==
  ASSUME IInv, NEW t \in Thread, Execute(t), Len(rwtrace_rec) < RecordLimit
  PROVE  Recorded0(t) \/ Recorded1(t) \/ Recorded2(t)
<1> DEFINE i == Instr(t)
<1>0. NoLoc \in Addr \cup {NoLoc} /\ 0 \in Int
  OBVIOUS
<1>1. CASE StoreToMemory(t) \/ StoreToBuffer(t)
  <2>1. i.op = "store" /\ i.addr \in Addr /\ i.label \in Nat /\ Top(t).acc \in Val
    BY <1>1, Running DEF StoreToMemory, StoreToBuffer
  <2>2. Advances(t)
    BY <1>1, <2>1 DEF StoreToMemory, StoreToBuffer, Skip, Advances
  <2>3. Leaves(t, RWEvent("WRITE", t, i.addr, i.label)) /\ i.op \notin FenceOps
    BY <2>1, <2>2 DEF Leaves, RWEvent, FenceOps
  <2>4. Record(<<>>) \/ Record(<<RWEvent("WRITE", t, i.addr, i.label)>>)
    BY <1>1 DEF StoreToMemory, StoreToBuffer
  <2>5. "WRITE" \in RWType /\ i.addr \in Addr \cup {NoLoc} /\ i.label \in Int
    BY <2>1 DEF RWType
  <2>6. Record(<<>>) => Recorded0(t)
    BY <2>3, RecordIs DEF Recorded0
  <2> HIDE DEF i
  <2>7. QED
    BY <2>3, <2>4, <2>5, <2>6, RecordedOne
<1>2. CASE LoadFromBuffer(t) \/ LoadFromMemory(t)
  <2>1. i.op = "load" /\ i.addr \in Addr /\ i.label \in Nat
    BY <1>2, Running DEF LoadFromBuffer, LoadFromMemory
  <2>2. Leaves(t, RWEvent("READ", t, i.addr, i.label)) /\ i.op \notin FenceOps
    BY <2>1 DEF Leaves, RWEvent, FenceOps
  <2>3. Record(<<>>) \/ Record(<<RWEvent("READ", t, i.addr, i.label)>>)
    BY <1>2 DEF LoadFromBuffer, LoadFromMemory
  <2>4. "READ" \in RWType /\ i.addr \in Addr \cup {NoLoc} /\ i.label \in Int
    BY <2>1 DEF RWType
  <2>5. Record(<<>>) => Recorded0(t)
    BY <2>2, RecordIs DEF Recorded0
  <2> HIDE DEF i
  <2>6. QED
    BY <2>2, <2>3, <2>4, <2>5, RecordedOne
<1>3. CASE Membar_ss(t) \/ Membar_sl(t) \/ CasPO(t) \/ FasPO(t)
  <2>1. Leaves(t, RWEvent("FLUSH_FENCE", t, NoLoc, 0)) /\ "FLUSH_FENCE" \in RWType
    BY DEF Leaves, RWEvent, RWType
  <2>2. \/ Record(<<RWEvent("FLUSH_FENCE", t, NoLoc, 0)>>)
        \/ Record(<<>>) /\ i.op \notin FenceOps
    BY <1>3 DEF Membar_ss, Membar_sl, CasPO, FasPO, At, FenceOps
  <2>3. Record(<<>>) /\ i.op \notin FenceOps => Recorded0(t)
    BY RecordIs DEF Recorded0
  <2> HIDE DEF i
  <2>4. QED
    BY <1>0, <2>1, <2>2, <2>3, RecordedOne
<1>4. CASE Spawn(t) \/ JoinBlocked(t) \/ Join(t)
  <2>1. i.op \notin FenceOps
    BY <1>4 DEF Spawn, JoinBlocked, Join, At, FenceOps
  <2>2. /\ i.op = "spawn" => Leaves(t, RWEvent("SPAWN", t, NoLoc, 0))
        /\ i.op = "join" => Leaves(t, RWEvent("JOIN", t, NoLoc, 0))
        /\ "SPAWN" \in RWType /\ "JOIN" \in RWType
    BY <2>1 DEF Leaves, RWEvent, RWType
  <2>3. \/ i.op = "spawn" /\ Record(<<RWEvent("SPAWN", t, NoLoc, 0)>>)
        \/ i.op = "join" /\ Record(<<RWEvent("JOIN", t, NoLoc, 0)>>)
    BY <1>4 DEF Spawn, JoinBlocked, Join, At
  <2> HIDE DEF i
  <2>4. QED
    BY <1>0, <2>2, <2>3, RecordedOne
<1>5. CASE \/ LoadFault(t) \/ Cas32Fault(t) \/ Alloca(t) \/ Malloc(t) \/ Free(t) \/ FreeFault(t)
           \/ SetValue(t) \/ Branch(t) \/ Call(t) \/ Return(t) \/ AssertExist(t)
  <2>1. rwtrace_rec' = rwtrace_rec
    BY <1>5 DEF LoadFault, Cas32Fault, Alloca, Malloc, Free, FreeFault, SetValue, Branch, Call,
       Return, AssertExist
  <2>2. i.op \in {"load", "cas32", "alloca", "malloc", "free", "set", "br", "call", "ret", "assert_exist"}
    BY <1>5 DEF LoadFault, Cas32Fault, Alloca, Malloc, Free, FreeFault, SetValue, Branch, Call,
       Return, AssertExist, At
  <2>3. i.op \notin FenceOps
    BY <2>2 DEF FenceOps
  <2>4. QED
    BY <2>1, <2>3 DEF Recorded0
<1>6. CASE Cas32(t)
  <2>1. i.op = "cas32" /\ i.addr \in Addr /\ i.label \in Nat
    BY <1>6, Running DEF Cas32
  <2>2. Advances(t) /\ \E success \in BOOLEAN : Record(CASRecords(t, i, success))
    BY <1>6, ValAssumption DEF Cas32, Advances
  <2>3. PICK success \in BOOLEAN : Record(CASRecords(t, i, success))
    BY <2>2
  <2>4. PICK w, f : /\ w = RWEvent("WRITE", t, i.addr, IF WMM = "TSO" THEN 0 ELSE i.label)
                    /\ f = IF WMM = "TSO" THEN RWEvent("FLUSH_CAS_TSO", t, NoLoc, 0)
                                          ELSE RWEvent("FLUSH_CAS_PSO", t, i.addr, -1)
    OBVIOUS
  <2>5. w \in RWRecord /\ f \in RWRecord
    <3>1. -1 \in Int /\ i.label \in Int /\ i.addr \in Addr \cup {NoLoc}
      BY <2>1
    <3>2. "WRITE" \in RWType /\ "FLUSH_CAS_TSO" \in RWType /\ "FLUSH_CAS_PSO" \in RWType
      BY DEF RWType
    <3> HIDE DEF i
    <3>3. w \in RWRecord
      BY <1>0, <2>4, <3>1, <3>2, EventType
    <3>4. f \in RWRecord
      BY <1>0, <2>4, <3>1, <3>2, EventType
    <3>5. QED
      BY <3>3, <3>4
  <2>6. /\ Leaves(t, w) /\ Leaves(t, f) /\ i.op \notin FenceOps /\ w.type = "WRITE"
        /\ f.type \notin {"READ", "WRITE", "SPAWN", "JOIN"}
    BY <2>1, <2>2, <2>4 DEF Leaves, RWEvent, FenceOps
  <2>7. CASRecords(t, i, success) = IF success THEN <<w, f>> ELSE <<f>>
    <3>1. WMM = "TSO" \/ WMM = "PSO"
      BY SynthesisAssumption
    <3>2. <<w>> \o <<f>> = <<w, f>> /\ <<>> \o <<f>> = <<f>>
      BY <2>5, PairIs
    <3>3. CASE WMM = "TSO"
      <4>1. CASRecords(t, i, success) = (IF success THEN <<w>> ELSE <<>>) \o <<f>>
        BY <2>4, <3>3 DEF CASRecords
      <4>2. QED
        BY <3>2, <4>1
    <3>4. CASE WMM = "PSO"
      <4>1. CASRecords(t, i, success) = (IF success THEN <<w>> ELSE <<>>) \o <<f>>
        BY <2>4, <3>4 DEF CASRecords
      <4>2. QED
        BY <3>2, <4>1
    <3>5. QED
      BY <3>1, <3>3, <3>4
  <2> HIDE DEF i
  <2>8. CASE success
    <3>1. rwtrace_rec' = Append(Append(rwtrace_rec, w), f)
      BY <2>3, <2>7, <2>8, RecordIs
    <3>2. QED
      BY <2>5, <2>6, <3>1 DEF Recorded2, i
  <2>9. CASE ~ success
    <3>1. rwtrace_rec' = Append(rwtrace_rec, f)
      BY <2>3, <2>7, <2>9, RecordIs
    <3>2. QED
      BY <2>5, <2>6, <3>1 DEF Recorded1
  <2>10. QED
    BY <2>8, <2>9
<1>7. QED
  BY <1>1, <1>2, <1>3, <1>4, <1>5, <1>6 DEF Execute

-----------------------------------------------------------------------------
(* Regions of a trace.                                                     *)

JoinIn(trace) == \E j \in 1 .. Len(trace) : trace[j].type = "JOIN"
OneRegionIn(trace) ==
  \A j, k \in 1 .. Len(trace) : j < k /\ trace[j].type = "JOIN" => trace[k].type # "SPAWN"

LEMMA BoundariesIn ==
  ASSUME NEW trace, NEW k \in Nat, Boundaries(trace, k) # {}
  PROVE  \E j \in Boundaries(trace, k) : \A i \in Boundaries(trace, k) : i <= j
<1>1. Boundaries(trace, k) \in SUBSET (1 .. k)
  BY DEF Boundaries
<1>2. QED
  BY <1>1, MaximumExists

(* After a join nothing counts, as long as no thread is started.           *)
LEMMA NothingAfterJoin ==
  ASSUME NEW trace \in Seq(RWRecord), NEW e \in RWRecord,
         JoinIn(trace), OneRegionIn(Append(trace, e))
  PROVE  ~ Between(Append(trace, e), Len(trace) + 1)
<1> DEFINE more == Append(trace, e)
           n == Len(trace) + 1
<1>1. Len(trace) \in Nat /\ n \in Nat /\ Len(more) = n /\ \A k \in 1 .. Len(trace) : more[k] = trace[k]
  BY AppendIs
<1> HIDE DEF more
<1>2. PICK j \in 1 .. Len(trace) : trace[j].type = "JOIN"
  BY DEF JoinIn
<1>3. j \in 1 .. n /\ j < n /\ more[j].type = "JOIN"
  BY <1>1, <1>2
<1>4. SUFFICES ASSUME Between(more, n) PROVE FALSE
  BY DEF more
<1>5. PICK i \in Boundaries(more, n) : more[i].type = "SPAWN" /\ \A k \in Boundaries(more, n) : k <= i
  BY <1>4 DEF Between
<1>6. j \in Boundaries(more, n) /\ i \in 1 .. n
  BY <1>3 DEF Boundaries
<1>7. j <= i /\ i # j
  BY <1>3, <1>5, <1>6
<1>8. j < i /\ j \in 1 .. Len(more) /\ i \in 1 .. Len(more)
  BY <1>1, <1>3, <1>6, <1>7
<1>9. QED
  BY <1>3, <1>5, <1>8 DEF OneRegionIn, more

(* A record that does not count although others did comes after a join.    *)
LEMMA Outside ==
  ASSUME NEW trace \in Seq(RWRecord), NEW e \in RWRecord, e.type # "SPAWN",
         NEW k \in 1 .. Len(trace), Between(trace, k),
         ~ Between(Append(trace, e), Len(trace) + 1)
  PROVE  JoinIn(Append(trace, e))
<1> DEFINE more == Append(trace, e)
           n == Len(trace) + 1
<1>1. /\ Len(trace) \in Nat /\ n \in Nat /\ Len(more) = n /\ more[n] = e
      /\ \A m \in 1 .. Len(trace) : more[m] = trace[m]
  BY AppendIs
<1> HIDE DEF more
<1>2. Between(more, k)
  BY <1>1, SameBetween
<1>3. PICK i \in Boundaries(more, k) : more[i].type = "SPAWN"
  BY <1>2 DEF Between
<1>4. i \in Boundaries(more, n)
  BY <1>1, <1>3 DEF Boundaries
<1>5. PICK j \in Boundaries(more, n) : \A m \in Boundaries(more, n) : m <= j
  BY <1>1, <1>4, BoundariesIn
<1>6. more[j].type # "SPAWN"
  BY <1>1, <1>5 DEF Between, more
<1>7. j \in 1 .. Len(more) /\ more[j].type = "JOIN"
  BY <1>1, <1>5, <1>6 DEF Boundaries
<1>8. QED
  BY <1>7 DEF JoinIn, more

LEMMA PrefixRegion ==
  ASSUME NEW trace \in Seq(RWRecord), NEW e \in RWRecord
  PROVE  /\ OneRegionIn(Append(trace, e)) => OneRegionIn(trace)
         /\ JoinIn(trace) => JoinIn(Append(trace, e))
<1> DEFINE more == Append(trace, e)
<1>1. /\ Len(trace) \in Nat /\ Len(more) = Len(trace) + 1
      /\ \A m \in 1 .. Len(trace) : more[m] = trace[m]
  BY AppendIs
<1> HIDE DEF more
<1>2. \A k \in 1 .. Len(trace) : k \in 1 .. Len(more)
  BY <1>1
<1>3. OneRegionIn(more) => OneRegionIn(trace)
  BY <1>1, <1>2 DEF OneRegionIn
<1>4. JoinIn(trace) => JoinIn(more)
  BY <1>1, <1>2 DEF JoinIn
<1>5. QED
  BY <1>3, <1>4 DEF more

(* Spawns and joins are no accesses.                                       *)
LEMMA SpawnsDoNotCount ==
  ASSUME NEW trace \in Seq(RWRecord), NEW e \in RWRecord, e.type \in {"SPAWN", "JOIN"}
  PROVE  ~ Between(Append(trace, e), Len(trace) + 1)
<1> DEFINE more == Append(trace, e)
           n == Len(trace) + 1
<1>1. Len(trace) \in Nat /\ n \in Nat /\ more[n] = e
  BY AppendIs
<1> HIDE DEF more
<1>2. CASE e.type = "SPAWN"
  BY <1>1, <1>2 DEF Between, more
<1>3. CASE e.type = "JOIN"
  <2>1. n \in Boundaries(more, n)
    BY <1>1, <1>3 DEF Boundaries
  <2>2. \A j \in Boundaries(more, n) : n <= j => j = n
    BY <1>1 DEF Boundaries
  <2>3. QED
    BY <1>1, <1>3, <2>1, <2>2 DEF Between, more
<1>4. QED
  BY <1>2, <1>3

-----------------------------------------------------------------------------
(* Stacks of the others, and the next instruction.                         *)

LEMMA OthersStay ==
  ASSUME HInv, NEW t \in Thread, Execute(t)
  PROVE  /\ program' = program
         /\ \A u \in Active : u # t => threadStacks'[u] = threadStacks[u]
<1>1. IInv /\ threadStacks \in [Thread -> Seq(Frame)]
  BY DEF HInv, IInv, TypeOK
<1>2. \A u \in Active : u \in Thread /\ u < nextThreadNum /\ nextThreadNum \in Nat
  BY <1>1 DEF HInv, Numbers, Active, IInv, TypeOK
<1>3. \A u \in Active : u # nextThreadNum
  BY <1>2, ThreadAssumption
<1>4. program' = program
  BY DEF Execute, StoreToMemory, StoreToBuffer, LoadFromBuffer, LoadFromMemory, LoadFault,
     Membar_ss, Membar_sl, Cas32, Cas32Fault, CasPO, FasPO, Alloca, Malloc, Free, FreeFault,
     SetValue, Branch, Call, Return, Spawn, JoinBlocked, Join, AssertExist, Proceed
<1>5. ASSUME NEW frame, threadStacks' = WithTop(t, frame)
      PROVE  \A u \in Active : u # t => threadStacks'[u] = threadStacks[u]
  BY <1>1, <1>2, <1>5 DEF WithTop
<1>6. CASE \/ StoreToMemory(t) \/ StoreToBuffer(t) \/ LoadFromBuffer(t) \/ LoadFromMemory(t)
           \/ LoadFault(t) \/ Membar_ss(t) \/ Membar_sl(t)
           \/ Cas32(t) \/ Cas32Fault(t) \/ CasPO(t) \/ FasPO(t)
           \/ Malloc(t) \/ Free(t) \/ SetValue(t) \/ Join(t) \/ AssertExist(t)
  <2>1. \E v : Advance(t, v)
    BY <1>6 DEF StoreToMemory, StoreToBuffer, LoadFromBuffer, LoadFromMemory, LoadFault, Membar_ss,
       Membar_sl, Cas32, Cas32Fault, CasPO, FasPO, Malloc, Free, SetValue, Join, AssertExist, Skip
  <2>2. \E frame : threadStacks' = WithTop(t, frame)
    BY <2>1 DEF Advance
  <2>3. QED
    BY <1>4, <1>5, <2>2
<1>7. CASE Alloca(t) \/ Branch(t)
  <2>1. \E frame : threadStacks' = WithTop(t, frame)
    BY <1>7 DEF Alloca, Branch
  <2>2. QED
    BY <1>4, <1>5, <2>1
<1>8. CASE Call(t) \/ Return(t) \/ FreeFault(t) \/ JoinBlocked(t)
  <2>1. threadStacks' = threadStacks \/ \E s : threadStacks' = [threadStacks EXCEPT ![t] = s]
    BY <1>8 DEF Call, Return, FreeFault, JoinBlocked
  <2>2. QED
    BY <1>1, <1>2, <1>4, <2>1
<1>9. CASE Spawn(t)
  <2>1. PICK frame, s : threadStacks' = [WithTop(t, frame) EXCEPT ![nextThreadNum] = s]
    BY <1>9 DEF Spawn
  <2>2. \A u \in Active : u # t => threadStacks'[u] = threadStacks[u]
    BY <1>1, <1>2, <1>3, <2>1 DEF WithTop
  <2>3. QED
    BY <1>4, <2>2
<1>10. QED
  BY <1>6, <1>7, <1>8, <1>9 DEF Execute

AtFence(t) == t \in Active /\ Instr(t).op \in FenceOps

LEMMA StaysAtFence ==
  ASSUME HInv, NEW t \in Thread, Execute(t), NEW u \in Thread, u # t, AtFence(u)
  PROVE  AtFence(u)'
<1>1. u \in Active /\ threadStacks[u] # <<>> /\ Instr(u).op \in FenceOps
  BY DEF AtFence, Active
<1>2. program' = program /\ threadStacks'[u] = threadStacks[u]
  BY <1>1, OthersStay
<1>3. Instr(u)' = Instr(u) /\ (u \in Active)'
  BY <1>1, <1>2 DEF Instr, Top, Active, Code
<1>4. QED
  BY <1>1, <1>3 DEF AtFence, FenceOps

(* The instruction after a store that has its fence is the fence.          *)
LEMMA FenceIsNext ==
  ASSUME IInv, NEW t \in Thread, t \in Active, program' = program, Advances(t),
         Instr(t).op \in {"store", "cas32"}, Instr(t).label # 0,
         NEW fence \in program, fence.after = Instr(t).label
  PROVE  AtFence(t)' /\ \E f \in program : Instr(t)'.op = f.op
<1>1. /\ Len(threadStacks[t]) \in Nat \ {0} /\ Top(t) \in Frame
      /\ Top(t).pc \in 1 .. Len(Code[program][Top(t).fn])
      /\ threadStacks \in [Thread -> Seq(Frame)] /\ program \in DOMAIN Code
  BY TopType DEF IInv, TypeOK
<1>2. PICK v \in Val : Advance(t, v)
  BY DEF Advances
<1>3. Code[program][Top(t).fn][Top(t).pc + 1].op \in OpsAfter(program, Instr(t)) \cap FenceOps
  <2>1. Top(t).fn \in Fn /\ Writes(Instr(t))
    BY <1>1 DEF Frame, Writes
  <2>2. fence.op \in OpsAfter(program, Instr(t))
    BY <2>1 DEF OpsAfter
  <2>3. QED
    BY <1>1, <2>1, <2>2, InsertionAssumption DEF Instr
<1>4. PICK frame : frame = Moved(Top(t), Top(t).pc + 1, v)
  OBVIOUS
<1>5. threadStacks' = WithTop(t, frame) /\ frame.fn = Top(t).fn /\ frame.pc = Top(t).pc + 1
  BY <1>2, <1>4 DEF Advance, Moved
<1>6. threadStacks'[t] = [threadStacks[t] EXCEPT ![Len(threadStacks[t])] = frame]
  BY <1>1, <1>5 DEF WithTop
<1>7. frame \in Frame
  BY <1>1, <1>4 DEF Moved, Frame
<1>8. Len(threadStacks'[t]) = Len(threadStacks[t]) /\ threadStacks'[t][Len(threadStacks[t])] = frame
  <2>1. threadStacks[t] \in Seq(Frame) /\ Len(threadStacks[t]) \in 1 .. Len(threadStacks[t])
    BY <1>1
  <2>2. QED
    BY <1>6, <1>7, <2>1, ExceptSeq
<1>9. Top(t)' = frame
  BY <1>8 DEF Top
<1>10. (t \in Active)'
  <2>1. threadStacks'[t] # <<>>
    BY <1>1, <1>8
  <2>2. QED
    BY <2>1 DEF Active
<1>11. Instr(t)' = Code[program][Top(t).fn][Top(t).pc + 1]
  BY <1>5, <1>9 DEF Instr, Code
<1>12. Instr(t)'.op \in FenceOps /\ \E f \in program : Instr(t)'.op = f.op
  BY <1>3, <1>11 DEF OpsAfter
<1>13. QED
  BY <1>10, <1>12 DEF AtFence, FenceOps

-----------------------------------------------------------------------------
(* Stores that have their fence. The labels of these stores are F; S are   *)
(* the threads whose next instruction is a fence.                          *)

DrainedIn(trace, S, F) ==
  \A t \in Thread : \A k \in BufferAt(trace, t) :
     trace[k].label \in F => JoinIn(trace) \/ t \in S
UnblamedIn(trace, F) == \A t \in Thread : \A l \in LitsAt(trace, t) : l.st \notin F

LEMMA UnblamedGrows ==
  ASSUME NEW trace \in Seq(RWRecord), NEW e \in RWRecord, NEW S, NEW F,
         DrainedIn(trace, S, F), UnblamedIn(trace, F), OneRegionIn(Append(trace, e)),
         e.type \in {"READ", "WRITE"} => e.thr \notin S
  PROVE  UnblamedIn(Append(trace, e), F)
<1> DEFINE more == Append(trace, e)
           n == Len(trace) + 1
<1>1. SUFFICES ASSUME NEW t \in Thread, NEW l \in LitsAt(more, t)
               PROVE  l.st \notin F
  BY DEF UnblamedIn
<1>2. /\ Len(trace) \in Nat /\ more[n] = e
      /\ \A k \in 1 .. Len(trace) : more[k] = trace[k]
  BY AppendIs
<1>3. LitsAt(more, t) = LitsAt(trace, t) \cup
        (IF Counts(trace, e, t) THEN Literals(more, BufferAt(trace, t), n) ELSE {})
  BY OneMore
<1>4. CASE l \in LitsAt(trace, t)
  BY <1>4 DEF UnblamedIn
<1>5. CASE Counts(trace, e, t) /\ l \in Literals(more, BufferAt(trace, t), n)
  <2>1. e.thr = t /\ ~ JoinIn(trace)
    BY <1>5, NothingAfterJoin DEF Counts
  <2>2. \A k \in BufferAt(trace, t) :
           k \in 1 .. Len(trace) /\ trace[k].type = "WRITE" /\ trace[k].label # 0
    BY BufferAtWrites
  <2>3. \A k \in BufferAt(trace, t) : more[k] = trace[k]
    BY <1>2, <2>2
  <2> HIDE DEF more, n
  <2>4. PICK k \in BufferAt(trace, t) : Finding(l, more[k], more[n])
    BY <1>5, <2>2, <2>3, LiteralsAre
  <2>5. l.st = trace[k].label /\ e.type \in {"READ", "WRITE"}
    BY <1>2, <2>3, <2>4 DEF Finding, Lit
  <2>6. QED
    BY <2>1, <2>5 DEF DrainedIn
<1>6. QED
  BY <1>3, <1>4, <1>5

LEMMA DrainedGrows ==
  ASSUME NEW trace \in Seq(RWRecord), NEW e \in RWRecord, NEW S, NEW T, NEW F,
         DrainedIn(trace, S, F),
         \A u \in S : u = e.thr \/ u \in T,
         e.thr \in S => e.label = 0 /\ e.type # "SPAWN",
         e.type = "WRITE" /\ e.label # 0 /\ e.label \in F => e.thr \in T
  PROVE  DrainedIn(Append(trace, e), T, F)
<1> DEFINE more == Append(trace, e)
           n == Len(trace) + 1
<1>1. SUFFICES ASSUME NEW t \in Thread, NEW k \in BufferAt(more, t), more[k].label \in F
               PROVE  JoinIn(more) \/ t \in T
  BY DEF DrainedIn
<1>2. /\ Len(trace) \in Nat /\ more[n] = e
      /\ \A j \in 1 .. Len(trace) : more[j] = trace[j]
  BY AppendIs
<1>3. BufferAt(more, t) = IF Counts(trace, e, t) THEN StoreBuffer(more, BufferAt(trace, t), n)
                                                 ELSE BufferAt(trace, t)
  BY OneMore
<1>4. JoinIn(trace) => JoinIn(more)
  BY PrefixRegion
<1>5. \A j \in BufferAt(trace, t) : j \in 1 .. Len(trace) /\ more[j] = trace[j] /\ Between(trace, j)
  BY <1>2, BufferAtWrites
<1>6. CASE Counts(trace, e, t)
  <2>1. e.thr = t
    BY <1>6 DEF Counts
  <2>2. e.label # 0
    BY <1>1, <1>2, <1>3, <1>6 DEF StoreBuffer
  <2>3. k \in BufferAt(trace, t) \/ (k = n /\ e.type = "WRITE" /\ e.label # 0)
    <3> HIDE DEF more, n
    <3>1. k \in StoreBuffer(more, BufferAt(trace, t), n)
      BY <1>1, <1>3, <1>6
    <3>2. QED
      BY <1>2, <3>1, StoreBufferIn
  <2>4. CASE k \in BufferAt(trace, t)
    BY <1>1, <1>4, <1>5, <2>1, <2>2, <2>4 DEF DrainedIn
  <2>5. CASE k = n /\ e.type = "WRITE" /\ e.label # 0
    BY <1>1, <1>2, <2>1, <2>5
  <2>6. QED
    BY <2>3, <2>4, <2>5
<1>7. CASE ~ Counts(trace, e, t)
  <2>1. k \in BufferAt(trace, t) /\ trace[k].label \in F
    BY <1>1, <1>3, <1>5, <1>7
  <2>2. JoinIn(trace) \/ t \in S
    BY <2>1 DEF DrainedIn
  <2>3. CASE JoinIn(trace) \/ t # e.thr
    BY <1>4, <2>2, <2>3
  <2>4. CASE t \in S /\ t = e.thr
    BY <1>5, <1>7, <2>1, <2>4, Outside DEF Counts
  <2>5. QED
    BY <2>2, <2>3, <2>4
<1>8. QED
  BY <1>6, <1>7

LEMMA DrainedShrinks ==
  ASSUME NEW trace \in Seq(RWRecord), NEW e \in RWRecord, NEW S, NEW F,
         DrainedIn(trace, S, F), e.type # "WRITE"
  PROVE  DrainedIn(Append(trace, e), S, F)
<1> DEFINE more == Append(trace, e)
           n == Len(trace) + 1
<1>1. SUFFICES ASSUME NEW t \in Thread, NEW k \in BufferAt(more, t), more[k].label \in F
               PROVE  JoinIn(more) \/ t \in S
  BY DEF DrainedIn
<1>2. /\ Len(trace) \in Nat /\ more[n] = e
      /\ \A j \in 1 .. Len(trace) : more[j] = trace[j]
  BY AppendIs
<1>3. BufferAt(more, t) = IF Counts(trace, e, t) THEN StoreBuffer(more, BufferAt(trace, t), n)
                                                 ELSE BufferAt(trace, t)
  BY OneMore
<1>4. JoinIn(trace) => JoinIn(more)
  BY PrefixRegion
<1> HIDE DEF more, n
<1>5. k \in BufferAt(trace, t)
  BY <1>1, <1>2, <1>3, StoreBufferIn
<1>6. k \in 1 .. Len(trace) /\ more[k] = trace[k]
  BY <1>2, <1>5, BufferAtWrites
<1>7. QED
  BY <1>1, <1>4, <1>5, <1>6 DEF DrainedIn

Fencing == {t \in Thread : AtFence(t)}
FencedLabels == {f.after : f \in program}

FencedOK ==
  /\ DrainedIn(rwtrace_rec, Fencing, FencedLabels)
  /\ UnblamedIn(rwtrace_rec, FencedLabels)

LEMMA ExecuteFenced ==
  ASSUME HInv, FencedOK, NEW t \in Thread, Execute(t), Len(rwtrace_rec) < RecordLimit,
         OneRegionIn(rwtrace_rec')
  PROVE  FencedOK'
<1> DEFINE trace == rwtrace_rec
           S == Fencing
           F == FencedLabels
<1>1. IInv /\ trace \in Seq(RWRecord) /\ t \in Active /\ Instr(t) \in Instruction
  <2>1. IInv
    BY DEF HInv
  <2>2. t \in Active
    BY DEF Execute, StoreToMemory, StoreToBuffer, LoadFromBuffer, LoadFromMemory, LoadFault,
       Membar_ss, Membar_sl, Cas32, Cas32Fault, CasPO, FasPO, Alloca, Malloc, Free, FreeFault,
       SetValue, Branch, Call, Return, Spawn, JoinBlocked, Join, AssertExist, At
  <2>3. QED
    BY <2>1, <2>2, TopType DEF IInv, TypeOK
<1>2. program' = program /\ F' = F
  BY OthersStay DEF FencedLabels
<1>3. \A u \in S : u = t \/ u \in S'
  BY StaysAtFence DEF Fencing
<1>4. t \in S <=> Instr(t).op \in FenceOps
  BY <1>1 DEF Fencing, AtFence
<1>5. ASSUME NEW e \in RWRecord, Leaves(t, e), e.type = "WRITE", e.label # 0, e.label \in F
      PROVE  t \in S'
  <2>1. Advances(t) /\ Instr(t).op \in {"store", "cas32"} /\ e.label = Instr(t).label
    BY <1>5 DEF Leaves
  <2>2. PICK fence \in program : fence.after = e.label
    BY <1>5 DEF FencedLabels
  <2>3. AtFence(t)'
    BY <1>1, <1>2, <1>5, <2>1, <2>2, FenceIsNext
  <2>4. QED
    BY <2>3 DEF Fencing
<1>6. DrainedIn(trace, S, F) /\ UnblamedIn(trace, F)
  BY DEF FencedOK
<1> HIDE DEF S, F
<1>7. CASE Recorded0(t)
  <2>1. t \notin S /\ rwtrace_rec' = trace
    BY <1>4, <1>7 DEF Recorded0
  <2>2. DrainedIn(trace, S', F)
    BY <1>3, <1>6, <2>1 DEF DrainedIn
  <2>3. QED
    BY <1>2, <1>6, <2>1, <2>2 DEF FencedOK, S, F
<1>8. CASE Recorded1(t)
  <2>1. PICK e \in RWRecord : Leaves(t, e) /\ rwtrace_rec' = Append(trace, e)
    BY <1>8 DEF Recorded1
  <2>2. /\ e.thr = t
        /\ t \in S => e.label = 0 /\ e.type \notin {"READ", "WRITE", "SPAWN", "JOIN"}
    BY <1>4, <2>1 DEF Leaves
  <2>3. DrainedIn(Append(trace, e), S', F)
    BY <1>1, <1>3, <1>5, <1>6, <2>1, <2>2, DrainedGrows
  <2>4. UnblamedIn(Append(trace, e), F)
    BY <1>1, <1>6, <2>1, <2>2, UnblamedGrows
  <2>5. QED
    BY <1>2, <2>1, <2>3, <2>4 DEF FencedOK, S, F
<1>9. CASE Recorded2(t)
  <2>1. PICK e, f \in RWRecord :
           /\ Leaves(t, e) /\ Leaves(t, f) /\ Instr(t).op \notin FenceOps
           /\ f.type \notin {"READ", "WRITE", "SPAWN", "JOIN"}
           /\ rwtrace_rec' = Append(Append(trace, e), f)
    BY <1>9 DEF Recorded2
  <2>2. e.thr = t /\ t \notin S
    BY <1>4, <2>1 DEF Leaves
  <2>3. PICK one : one = Append(trace, e)
    OBVIOUS
  <2>4. one \in Seq(RWRecord) /\ OneRegionIn(Append(one, f)) /\ OneRegionIn(one)
    BY <1>1, <2>1, <2>3, AppendIs, PrefixRegion
  <2>5. DrainedIn(one, S', F)
    BY <1>1, <1>3, <1>5, <1>6, <2>1, <2>2, <2>3, DrainedGrows
  <2>6. UnblamedIn(one, F)
    BY <1>1, <1>6, <2>2, <2>3, <2>4, UnblamedGrows
  <2>7. DrainedIn(Append(one, f), S', F)
    BY <2>1, <2>4, <2>5, DrainedShrinks
  <2>8. UnblamedIn(Append(one, f), F)
    BY <2>1, <2>4, <2>5, <2>6, UnblamedGrows
  <2>9. QED
    BY <1>2, <2>1, <2>3, <2>7, <2>8 DEF FencedOK, S, F
<1>10. QED
  BY <1>1, <1>7, <1>8, <1>9, InstructionRecords

LEMMA FlushRecords ==
  ASSUME IInv, NEW t \in Thread, RandomFlush(t), Len(rwtrace_rec) < RecordLimit
  PROVE  /\ program' = program /\ threadStacks' = threadStacks
         /\ \E e \in RWRecord : /\ e.type \in {"FLUSH_RANDOM_TSO", "FLUSH_RANDOM_PSO"}
                                /\ e.thr = currThread /\ e.label = -1
                                /\ rwtrace_rec' = Append(rwtrace_rec, e)
<1>1. program' = program /\ threadStacks' = threadStacks
  BY DEF RandomFlush, RandomFlushTSO, RandomFlushPSO
<1>2. currThread \in Thread /\ -1 \in Int /\ NoLoc \in Addr \cup {NoLoc}
  BY DEF IInv, TypeOK
<1>3. "FLUSH_RANDOM_TSO" \in RWType /\ "FLUSH_RANDOM_PSO" \in RWType
  BY DEF RWType
<1>4. CASE RandomFlushTSO(t)
  <2>1. PICK e : e = RWEvent("FLUSH_RANDOM_TSO", currThread, NoLoc, -1)
    OBVIOUS
  <2>2. e \in RWRecord
    BY <1>2, <1>3, <2>1, EventType
  <2>3. e.type = "FLUSH_RANDOM_TSO" /\ e.thr = currThread /\ e.label = -1
    BY <2>1 DEF RWEvent
  <2>4. Record(<<e>>)
    BY <1>4, <2>1 DEF RandomFlushTSO
  <2>5. QED
    BY <1>1, <2>2, <2>3, <2>4, RecordIs
<1>5. CASE \E q \in Queue : RandomFlushPSO(t, q)
  <2>1. PICK q \in Queue : RandomFlushPSO(t, q)
    BY <1>5
  <2>2. q \in Addr \cup {NoLoc}
    BY <2>1 DEF RandomFlushPSO, Queue
  <2>3. PICK e : e = RWEvent("FLUSH_RANDOM_PSO", currThread, q, -1)
    OBVIOUS
  <2>4. e \in RWRecord
    BY <1>2, <1>3, <2>2, <2>3, EventType
  <2>5. e.type = "FLUSH_RANDOM_PSO" /\ e.thr = currThread /\ e.label = -1
    BY <2>3 DEF RWEvent
  <2>6. Record(<<e>>)
    BY <2>1, <2>3 DEF RandomFlushPSO
  <2>7. QED
    BY <1>1, <2>4, <2>5, <2>6, RecordIs
<1>6. QED
  BY <1>4, <1>5 DEF RandomFlush

LEMMA SameFencing ==
  ASSUME program' = program, threadStacks' = threadStacks
  PROVE  Fencing' = Fencing /\ FencedLabels' = FencedLabels
<1>1. \A t : AtFence(t)' <=> AtFence(t)
  BY DEF AtFence, Active, Instr, Top, Code, FenceOps
<1>2. QED
  BY <1>1 DEF Fencing, FencedLabels

LEMMA FlushFenced ==
  ASSUME IInv, FencedOK, NEW t \in Thread, RandomFlush(t), Len(rwtrace_rec) < RecordLimit,
         OneRegionIn(rwtrace_rec')
  PROVE  FencedOK'
<1>1. PICK e \in RWRecord : /\ e.type \in {"FLUSH_RANDOM_TSO", "FLUSH_RANDOM_PSO"}
                            /\ rwtrace_rec' = Append(rwtrace_rec, e)
  BY FlushRecords
<1>2. Fencing' = Fencing /\ FencedLabels' = FencedLabels
  BY FlushRecords, SameFencing
<1>3. rwtrace_rec \in Seq(RWRecord)
  BY DEF IInv, TypeOK
<1>4. DrainedIn(Append(rwtrace_rec, e), Fencing, FencedLabels)
  BY <1>1, <1>3, DrainedShrinks DEF FencedOK
<1>5. UnblamedIn(Append(rwtrace_rec, e), FencedLabels)
  BY <1>1, <1>3, UnblamedGrows DEF FencedOK
<1>6. QED
  BY <1>1, <1>2, <1>4, <1>5 DEF FencedOK

-----------------------------------------------------------------------------
(* What the driver keeps, and where the labels in it come from.            *)

RecordsIn(trace, p) ==
  \A k \in 1 .. Len(trace) :
     /\ trace[k].type \in {"READ", "WRITE"} => trace[k].label \in Nat
     /\ trace[k].type = "WRITE" /\ trace[k].label # 0 => trace[k].label \in StoreLabels(p)

(* A literal is about a store of the program. One for a fence between two  *)
(* stores there is under PSO only.                                         *)
Found(l, p) ==
  /\ l \in Literal /\ l.st \in StoreLabels(p)
  /\ l.kind = "ss" => WMM = "PSO"

SInv ==
  /\ HInv /\ STypeOK /\ IsFiniteSet(solver)
  /\ RecordsIn(rwtrace_rec, program)
  /\ \A c \in solver \cup {clauses} : \A l \in c : Found(l, program)

LEMMA RecordsGrow ==
  ASSUME NEW trace \in Seq(RWRecord), NEW e \in RWRecord, NEW p, RecordsIn(trace, p),
         e.type \in {"READ", "WRITE"} => e.label \in Nat,
         e.type = "WRITE" /\ e.label # 0 => e.label \in StoreLabels(p)
  PROVE  RecordsIn(Append(trace, e), p)
<1>1. /\ Len(trace) \in Nat /\ Len(Append(trace, e)) = Len(trace) + 1
      /\ \A k \in 1 .. Len(trace) : Append(trace, e)[k] = trace[k]
      /\ Append(trace, e)[Len(trace) + 1] = e
  BY AppendIs
<1>2. \A k \in 1 .. Len(trace) + 1 : k \in 1 .. Len(trace) \/ k = Len(trace) + 1
  BY <1>1
<1>3. QED
  BY <1>1, <1>2 DEF RecordsIn

LEMMA ExecuteRecords ==
  ASSUME HInv, NEW t \in Thread, Execute(t), Len(rwtrace_rec) < RecordLimit,
         RecordsIn(rwtrace_rec, program)
  PROVE  RecordsIn(rwtrace_rec', program')
<1>1. IInv /\ rwtrace_rec \in Seq(RWRecord) /\ t \in Active
  BY DEF HInv, IInv, TypeOK, Execute, StoreToMemory, StoreToBuffer, LoadFromBuffer, LoadFromMemory,
     LoadFault, Membar_ss, Membar_sl, Cas32, Cas32Fault, CasPO, FasPO, Alloca, Malloc, Free, FreeFault,
     SetValue, Branch, Call, Return, Spawn, JoinBlocked, Join, AssertExist, At
<1>2. /\ Instr(t) \in Instruction /\ program \in DOMAIN Code /\ Top(t) \in Frame
      /\ Top(t).pc \in 1 .. Len(Code[program][Top(t).fn])
  BY <1>1, TopType DEF IInv, TypeOK
<1>3. Instr(t).label \in Nat
  BY <1>2 DEF Instruction
<1>4. Writes(Instr(t)) => Instr(t).label \in StoreLabels(program)
  BY <1>2 DEF StoreLabels, Instr, Frame
<1>5. program' = program
  BY OthersStay
<1>6. ASSUME NEW e \in RWRecord, Leaves(t, e)
      PROVE  /\ e.type \in {"READ", "WRITE"} => e.label \in Nat
             /\ e.type = "WRITE" /\ e.label # 0 => e.label \in StoreLabels(program)
  BY <1>3, <1>4, <1>6 DEF Leaves, Writes
<1>7. CASE Recorded0(t)
  BY <1>5, <1>7 DEF Recorded0
<1>8. CASE Recorded1(t)
  BY <1>1, <1>5, <1>6, <1>8, RecordsGrow DEF Recorded1
<1>9. CASE Recorded2(t)
  <2>1. PICK e, f \in RWRecord :
           Leaves(t, e) /\ Leaves(t, f) /\ rwtrace_rec' = Append(Append(rwtrace_rec, e), f)
    BY <1>9 DEF Recorded2
  <2>2. PICK one : one = Append(rwtrace_rec, e)
    OBVIOUS
  <2>3. one \in Seq(RWRecord) /\ RecordsIn(one, program)
    BY <1>1, <1>6, <2>1, <2>2, AppendIs, RecordsGrow
  <2>4. RecordsIn(Append(one, f), program)
    BY <1>6, <2>1, <2>3, RecordsGrow
  <2>5. QED
    BY <1>5, <2>1, <2>2, <2>4
<1>10. QED
  BY <1>1, <1>7, <1>8, <1>9, InstructionRecords

LEMMA FlushKeepsRecords ==
  ASSUME IInv, NEW t \in Thread, RandomFlush(t), Len(rwtrace_rec) < RecordLimit,
         RecordsIn(rwtrace_rec, program)
  PROVE  RecordsIn(rwtrace_rec', program')
<1>1. rwtrace_rec \in Seq(RWRecord)
  BY DEF IInv, TypeOK
<1>2. QED
  BY <1>1, FlushRecords, RecordsGrow

LEMMA LiteralsFound ==
  ASSUME NEW trace \in Seq(RWRecord), NEW p, RecordsIn(trace, p), NEW t, NEW l \in LitsAt(trace, t)
  PROVE  Found(l, p)
<1>1. PICK k, n \in 1 .. Len(trace) : Finding(l, trace[k], trace[n])
  BY LitsAtAre
<1>2. trace[k].label \in Nat /\ trace[k].label \in StoreLabels(p) /\ trace[n].label \in Nat
  BY <1>1 DEF Finding, RecordsIn
<1>3. QED
  BY <1>1, <1>2 DEF Found, Finding, Lit, Literal

LEMMA CalculateIs ==
  ASSUME NEW trace, NEW T, NEW l
  PROVE  l \in Calculate(trace, T) <=> \E t \in T : l \in LitsAt(trace, t)
BY DEF Calculate, LitsAt

LEMMA DelaysType ==
  ASSUME IInv, NEW t \in Thread, Execute(t)
  PROVE  Delays(t) \subseteq Literal
<1>1. t \in Active
  BY DEF Execute, StoreToMemory, StoreToBuffer, LoadFromBuffer, LoadFromMemory,
     LoadFault, Membar_ss, Membar_sl, Cas32, Cas32Fault, CasPO, FasPO, Alloca, Malloc, Free, FreeFault,
     SetValue, Branch, Call, Return, Spawn, JoinBlocked, Join, AssertExist, At
<1>2. Instr(t) \in Instruction
  BY <1>1, TopType
<1>3. Instr(t).label \in Nat
  BY <1>2 DEF Instruction
<1>4. ASSUME NEW e \in Unflushed(t) PROVE e.label \in Nat
  <2>1. PICK q \in Queue : e \in Range(thread_buffer[t][q])
    BY <1>4 DEF Unflushed
  <2>2. thread_buffer[t][q] \in Seq(Elem)
    BY DEF IInv, TypeOK
  <2>3. e \in Elem
    BY <2>1, <2>2 DEF Range
  <2>4. QED
    BY <2>3 DEF Elem
<1>5. ASSUME NEW l \in Delays(t) PROVE l \in Literal
  <2>1. l \in Overtakes(t, Instr(t))
    BY <1>5 DEF Delays
  <2>2. PICK e \in Unflushed(t) : l = Lit(IF Instr(t).op = "load" THEN "sl" ELSE "ss", e, Instr(t))
    BY <2>1 DEF Overtakes
  <2>3. QED
    BY <1>3, <1>4, <2>2 DEF Lit, Literal
<1>6. QED
  BY <1>5

-----------------------------------------------------------------------------
(* A new run.                                                              *)

LEMMA StartedNext == (Started /\ allonAssertExist \in BOOLEAN)' => HInv'
<1>1. Started /\ allonAssertExist \in BOOLEAN => HInv
  BY StartedHistory
<1>2. QED
  BY <1>1, PTL

LEMMA RestartType ==
  ASSUME NEW p \in DOMAIN Code, Restart(p)
  PROVE  /\ HInv' /\ program' = p /\ rwtrace_rec' = <<>>
         /\ RecordsIn(rwtrace_rec', program')
         /\ delays' = {} /\ aligned' = TRUE /\ outlived' = FALSE
<1>2. (Started /\ allonAssertExist \in BOOLEAN)' => HInv'
  BY StartedNext
<1>3. (Started /\ allonAssertExist \in BOOLEAN)'
  BY DEF Restart, Started, Code
<1>4. rwtrace_rec' = <<>> /\ program' = p /\ delays' = {} /\ aligned' = TRUE /\ outlived' = FALSE
  BY DEF Restart
<1>5. RecordsIn(<<>>, p)
  <2>1. Len(<<>>) = 0
    BY EmptySeq
  <2>2. QED
    BY <2>1 DEF RecordsIn
<1>6. QED
  BY <1>2, <1>3, <1>4, <1>5

(* The clauses of a solution, and the fences Merge makes of it.            *)
LEMMA MergeIs ==
  ASSUME NEW L, NEW solved, NEW F \in Merge(L, solved)
  PROVE  /\ \A f \in F : \E l \in L : f = [after |-> l.st, op |-> IF l.kind = "sl" THEN "membar_sl"
                                                                                  ELSE "membar_ss"]
         /\ \A l \in L : l.kind = "sl" /\ l.st \notin solved => \E f \in F : f.after = l.st
<1> DEFINE sl == {l \in OfKind(L, "sl") : l.st \notin solved}
           ss == OfKind(L, "ss")
<1>1. F = FencesOf(sl) \/ \E l \in ss : F = FencesOf(sl \cup {l})
  BY DEF Merge
<1>2. PICK M : F = FencesOf(M) /\ sl \subseteq M /\ M \subseteq L
  BY <1>1 DEF OfKind
<1>3. \A l \in L : l.kind = "sl" /\ l.st \notin solved => l \in M
  BY <1>2 DEF OfKind
<1> HIDE DEF sl, ss
<1>4. \A f \in F : \E l \in M : f = [after |-> l.st, op |-> IF l.kind = "sl" THEN "membar_sl"
                                                                            ELSE "membar_ss"]
  BY <1>2 DEF FencesOf
<1>5. \A l \in M : \E f \in F : f.after = l.st
  <2>1. ASSUME NEW l \in M PROVE \E f \in F : f.after = l.st
    <3>1. PICK f : f = [after |-> l.st, op |-> IF l.kind = "sl" THEN "membar_sl" ELSE "membar_ss"]
      OBVIOUS
    <3>2. f \in F /\ f.after = l.st
      BY <1>2, <3>1 DEF FencesOf
    <3>3. QED
      BY <3>2
  <2>2. QED
    BY <2>1
<1>6. QED
  BY <1>2, <1>3, <1>4, <1>5

LEMMA InsertedProgram ==
  ASSUME NEW p \in DOMAIN Code, NEW L, NEW solved, NEW F \in Merge(L, solved),
         \A l \in L : Found(l, p)
  PROVE  p \cup F \in DOMAIN Code
<1>1. ASSUME NEW f \in F PROVE f \in [after : StoreLabels(p), op : FenceOps]
  <2>1. PICK l \in L : f = [after |-> l.st, op |-> IF l.kind = "sl" THEN "membar_sl" ELSE "membar_ss"]
    BY MergeIs
  <2>2. l.st \in StoreLabels(p)
    BY DEF Found
  <2>3. QED
    BY <2>1, <2>2 DEF FenceOps
<1>2. F \in SUBSET [after : StoreLabels(p), op : FenceOps]
  BY <1>1
<1>3. QED
  BY <1>2, InsertionAssumption

LEMMA SolutionsIn ==
  ASSUME NEW L \in Solutions(solver)
  PROVE  /\ \A l \in L : \E c \in solver : l \in c
         /\ \A c \in solver : \E l \in L : l \in c
BY DEF Solutions, Hits

-----------------------------------------------------------------------------
(* The steps of the driver.                                                *)

DriverOK ==
  /\ total_traces \in 0 .. RetryTime /\ buggy_traces \in 0 .. total_traces
  /\ clauses \subseteq Literal /\ solver \subseteq (SUBSET Literal) \ {{}}
  /\ IsFiniteSet(solver) /\ Cardinality(solver) <= buggy_traces
  /\ outcome \in {"running", "converged", "asserted", "254", "255"}
  /\ Property \in Asked
  /\ \A c \in solver \cup {clauses} : \A l \in c : Found(l, program)
GhostsOK == delays \subseteq Literal /\ aligned \in BOOLEAN /\ outlived \in BOOLEAN

LEMMA SInvParts == SInv <=> HInv /\ RecordsIn(rwtrace_rec, program) /\ DriverOK /\ GhostsOK
BY DEF SInv, STypeOK, DriverOK, GhostsOK, HInv, IInv

LEMMA SInvPartsNext == HInv' /\ RecordsIn(rwtrace_rec', program') /\ DriverOK' /\ GhostsOK' => SInv'
BY DEF SInv, STypeOK, DriverOK, GhostsOK, HInv, IInv

LEMMA SInitInv ==
  ASSUME SInit
  PROVE  SInv
<1>1. HInv
  BY StartedHistory DEF SInit
<1>2. RecordsIn(rwtrace_rec, program)
  <2>1. rwtrace_rec = <<>> /\ Len(<<>>) = 0
    BY EmptySeq DEF SInit, Started
  <2>2. QED
    BY <2>1 DEF RecordsIn
<1>3. DriverOK
  <2>1. IsFiniteSet({}) /\ Cardinality({}) = 0
    BY FS_EmptySet
  <2>2. 0 \in 0 .. RetryTime /\ 0 \in 0 .. 0
    BY RetryAssumption
  <2>3. QED
    BY <2>1, <2>2 DEF DriverOK, SInit
<1>4. GhostsOK
  BY DEF SInit, GhostsOK
<1>5. QED
  BY <1>1, <1>2, <1>3, <1>4, SInvParts

(* A step of the program: an instruction, a flush or the end of the run.   *)
LEMMA RunsStep ==
  ASSUME SInv, Runs, Property' = Property
  PROVE  SInv' /\ program' = program
<1>1. HInv /\ IInv /\ RecordsIn(rwtrace_rec, program) /\ DriverOK /\ GhostsOK
  BY SInvParts DEF HInv
<1>2. HInv'
  BY <1>1, HistoryStep DEF Runs, Next
<1>3. UNCHANGED driver
  BY DEF Runs
<1>4. CASE Finish /\ UNCHANGED ghosts
  <2>1. UNCHANGED <<rwtrace_rec, program>>
    BY <1>4 DEF Finish
  <2>2. DriverOK' /\ GhostsOK' /\ RecordsIn(rwtrace_rec', program')
    BY <1>1, <1>3, <1>4, <2>1 DEF DriverOK, GhostsOK, driver, ghosts, Found
  <2>3. QED
    BY <1>2, <2>1, <2>2, SInvPartsNext
<1>5. ASSUME NEW t \in Thread, Execute(t), Len(rwtrace_rec) < RecordLimit,
             delays' = delays \cup Delays(t), outlived' = (outlived \/ Outlives(t)),
             UNCHANGED aligned
      PROVE  SInv' /\ program' = program
  <2>1. program' = program
    BY <1>1, <1>5, OthersStay
  <2>2. RecordsIn(rwtrace_rec', program')
    BY <1>1, <1>5, ExecuteRecords
  <2>3. DriverOK'
    BY <1>1, <1>3, <2>1 DEF DriverOK, driver, Found
  <2>4. delays' \subseteq Literal
    BY <1>1, <1>5, DelaysType DEF GhostsOK
  <2>5. outlived' \in BOOLEAN /\ aligned' \in BOOLEAN
    BY <1>1, <1>5 DEF GhostsOK, Outlives
  <2>6. GhostsOK'
    BY <2>4, <2>5 DEF GhostsOK
  <2>7. QED
    BY <1>2, <2>1, <2>2, <2>3, <2>6, SInvPartsNext
<1>6. ASSUME NEW t \in Thread, RandomFlush(t), Len(rwtrace_rec) < RecordLimit,
             aligned' = (aligned /\ t = currThread), UNCHANGED <<delays, outlived>>
      PROVE  SInv' /\ program' = program
  <2>1. program' = program /\ RecordsIn(rwtrace_rec', program')
    BY <1>1, <1>6, FlushRecords, FlushKeepsRecords
  <2>2. DriverOK' /\ GhostsOK'
    BY <1>1, <1>3, <1>6, <2>1 DEF DriverOK, GhostsOK, driver, Found
  <2>3. QED
    BY <1>2, <2>1, <2>2, SInvPartsNext
<1>7. QED
  BY <1>4, <1>5, <1>6 DEF Runs

LEMMA CountedStep ==
  ASSUME SInv, AtEnd, NEW buggy \in {0, 1}, Counted(buggy), Property' = Property,
         NEW c, \A l \in c : Found(l, program), c \subseteq Literal,
         \/ UNCHANGED <<clauses, solver>>
         \/ buggy = 1 /\ c # {} /\ solver' = solver \cup {c} /\ clauses' = c
  PROVE  SInv' /\ program' = program /\ rwtrace_rec' = <<>>
<1>1. DriverOK /\ program \in DOMAIN Code
  BY SInvParts DEF HInv, IInv, TypeOK
<1>2. /\ HInv' /\ RecordsIn(rwtrace_rec', program') /\ program' = program /\ rwtrace_rec' = <<>>
      /\ delays' = {} /\ aligned' = TRUE /\ outlived' = FALSE
  BY <1>1, RestartType DEF Counted
<1>3. GhostsOK'
  BY <1>2 DEF GhostsOK
<1>4. IsFiniteSet(solver) /\ Cardinality(solver) \in Nat /\ Cardinality(solver) <= buggy_traces
  BY <1>1, FS_CardinalityType DEF DriverOK
<1>5. total_traces' \in 0 .. RetryTime /\ buggy_traces' \in 0 .. total_traces'
  BY <1>1, RetryAssumption DEF DriverOK, Counted, AtEnd
<1>6. IsFiniteSet(solver') /\ Cardinality(solver') <= buggy_traces'
  <2>1. CASE UNCHANGED <<clauses, solver>>
    BY <1>1, <1>4, <2>1 DEF Counted, DriverOK
  <2>2. CASE buggy = 1 /\ solver' = solver \cup {c}
    <3>1. /\ IsFiniteSet(solver \cup {c})
          /\ Cardinality(solver \cup {c}) = IF c \in solver THEN Cardinality(solver)
                                                           ELSE Cardinality(solver) + 1
      BY <1>4, FS_AddElement
    <3>2. QED
      BY <1>1, <1>4, <2>2, <3>1 DEF Counted, DriverOK
  <2>3. QED
    BY <2>1, <2>2
<1>7. solver' \subseteq (SUBSET Literal) \ {{}} /\ clauses' \subseteq Literal
  <2>1. solver \subseteq (SUBSET Literal) \ {{}} /\ clauses \subseteq Literal
    BY <1>1 DEF DriverOK
  <2>2. c # {} => c \in (SUBSET Literal) \ {{}}
    OBVIOUS
  <2>3. QED
    BY <2>1, <2>2
<1>8. \A d \in solver' \cup {clauses'} : \A l \in d : Found(l, program')
  BY <1>1, <1>2 DEF DriverOK
<1>9. outcome' = outcome
  BY DEF Counted
<1>10. DriverOK'
  BY <1>1, <1>5, <1>6, <1>7, <1>8, <1>9 DEF DriverOK
<1>11. QED
  BY <1>2, <1>3, <1>10, SInvPartsNext

LEMMA ExitsStep ==
  ASSUME SInv, NEW how \in {"converged", "asserted", "254", "255"}, Exits(how), Property' = Property
  PROVE  SInv'
<1>1. HInv /\ RecordsIn(rwtrace_rec, program) /\ DriverOK /\ GhostsOK
  BY SInvParts
<1>2. UNCHANGED vars /\ UNCHANGED ghosts /\ UNCHANGED <<rwtrace_rec, program>>
  BY DEF Exits, vars
<1>3. HInv'
  BY <1>1, <1>2, HistoryStep
<1>4. GhostsOK' /\ RecordsIn(rwtrace_rec', program')
  BY <1>1, <1>2 DEF GhostsOK, ghosts
<1>5. DriverOK'
  BY <1>1, <1>2 DEF DriverOK, Exits, Found
<1>6. QED
  BY <1>3, <1>4, <1>5, SInvPartsNext

LEMMA SolveStep ==
  ASSUME SInv, SolveAndInsert, Property' = Property
  PROVE  SInv' /\ rwtrace_rec' = <<>>
<1>1. DriverOK /\ program \in DOMAIN Code
  BY SInvParts DEF HInv, IInv, TypeOK
<1>2. PICK L \in Solutions(solver) : \E F \in Merge(L, solvedStores) : Restart(program \cup F)
  BY DEF SolveAndInsert
<1>3. PICK F \in Merge(L, solvedStores) : Restart(program \cup F)
  BY <1>2
<1>4. \A l \in L : Found(l, program)
  BY <1>1, SolutionsIn DEF DriverOK
<1>5. program \cup F \in DOMAIN Code
  BY <1>1, <1>4, InsertedProgram
<1>6. /\ HInv' /\ RecordsIn(rwtrace_rec', program') /\ rwtrace_rec' = <<>>
      /\ delays' = {} /\ aligned' = TRUE /\ outlived' = FALSE
  BY <1>3, <1>5, RestartType
<1>7. GhostsOK'
  BY <1>6 DEF GhostsOK
<1>8. DriverOK'
  <2>1. IsFiniteSet({}) /\ Cardinality({}) = 0
    BY FS_EmptySet
  <2>2. 0 \in 0 .. RetryTime /\ 0 \in 0 .. 0
    BY RetryAssumption
  <2>3. /\ clauses' = {} /\ solver' = {} /\ total_traces' = 0 /\ buggy_traces' = 0
        /\ outcome' = outcome
    BY DEF SolveAndInsert
  <2>4. QED
    BY <1>1, <2>1, <2>2, <2>3 DEF DriverOK
<1>9. QED
  BY <1>6, <1>7, <1>8, SInvPartsNext

LEMMA CalculateFound ==
  ASSUME SInv, NEW T
  PROVE  \A l \in Calculate(rwtrace_rec, T) : Found(l, program) /\ l \in Literal
<1>1. rwtrace_rec \in Seq(RWRecord) /\ RecordsIn(rwtrace_rec, program)
  BY SInvParts DEF HInv, IInv, TypeOK
<1>2. QED
  BY <1>1, CalculateIs, LiteralsFound DEF Found

LEMMA SInvStep ==
  ASSUME SInv, [SNext]_svars
  PROVE  SInv'
<1>1. CASE UNCHANGED svars
  <2>1. HInv /\ RecordsIn(rwtrace_rec, program) /\ DriverOK /\ GhostsOK
    BY SInvParts
  <2>2. UNCHANGED vars /\ UNCHANGED driver /\ UNCHANGED Property /\ UNCHANGED ghosts
    BY <1>1 DEF svars
  <2>3. HInv'
    BY <2>1, <2>2, HistoryStep
  <2>4. UNCHANGED <<rwtrace_rec, program>>
    BY <2>2 DEF vars
  <2>5. DriverOK' /\ GhostsOK' /\ RecordsIn(rwtrace_rec', program')
    BY <2>1, <2>2, <2>4 DEF DriverOK, GhostsOK, driver, ghosts, Found
  <2>6. QED
    BY <2>3, <2>5, SInvPartsNext
<1>2. CASE SNext
  <2>1. Property' = Property
    BY <1>2 DEF SNext
  <2>2. CASE Runs
    BY <2>1, <2>2, RunsStep
  <2>3. ASSUME NEW rejected, GoodTrace(rejected) PROVE SInv'
    <3>1. AtEnd /\ Counted(0) /\ UNCHANGED <<clauses, solver>>
      BY <2>3 DEF GoodTrace
    <3>2. PICK c : c = {}
      OBVIOUS
    <3>3. (\A l \in c : Found(l, program)) /\ c \subseteq Literal
      BY <3>2
    <3>4. QED
      BY <2>1, <3>1, <3>3, CountedStep
  <2>4. ASSUME NEW rejected, BuggyTrace(rejected) PROVE SInv'
    <3>1. /\ AtEnd /\ Counted(1) /\ clauses' # {} /\ solver' = solver \cup {clauses'}
          /\ clauses' = Calculate(rwtrace_rec, Made)
      BY <2>4 DEF BuggyTrace
    <3>2. PICK c : c = Calculate(rwtrace_rec, Made)
      OBVIOUS
    <3>3. (\A l \in c : Found(l, program)) /\ c \subseteq Literal
      BY <3>2, CalculateFound
    <3>4. c # {} /\ solver' = solver \cup {c} /\ clauses' = c
      BY <3>1, <3>2
    <3>5. QED
      BY <2>1, <3>1, <3>3, <3>4, CountedStep
  <2>5. CASE StaleTrace
    <3>1. /\ AtEnd /\ Counted(1) /\ clauses # {} /\ solver' = solver \cup {clauses}
          /\ clauses' = clauses
      BY <2>5 DEF StaleTrace
    <3>2. PICK c : c = clauses
      OBVIOUS
    <3>3. (\A l \in c : Found(l, program)) /\ c \subseteq Literal
      BY <3>2, SInvParts DEF DriverOK
    <3>4. c # {} /\ solver' = solver \cup {c} /\ clauses' = c
      BY <3>1, <3>2
    <3>5. QED
      BY <2>1, <3>1, <3>3, <3>4, CountedStep
  <2>6. ASSUME NEW rejected, AssertFails(rejected) \/ NoLiterals(rejected) PROVE SInv'
    <3>1. Exits("asserted") \/ Exits("254") \/ Exits("255")
      BY <2>6 DEF AssertFails, NoLiterals
    <3>2. QED
      BY <2>1, <3>1, ExitsStep
  <2>7. CASE Converged
    BY <2>1, <2>7, ExitsStep DEF Converged
  <2>8. CASE SolveAndInsert
    BY <2>1, <2>8, SolveStep
  <2>9. QED
    BY <1>2, <2>2, <2>3, <2>4, <2>5, <2>6, <2>7, <2>8 DEF SNext
<1>3. QED
  BY <1>1, <1>2

(***************************************************************************)
(* Whatever the program, the number of runs in a round and the fences put  *)
(* into it so far: the solver holds at most one clause for each buggy      *)
(* trace of the round, none of them empty, the literals are labels of      *)
(* instructions, and every module that the synthesis makes exists.         *)
(***************************************************************************)
THEOREM SynthesisTypeCorrect == SSpec => []STypeOK
<1>1. SInit => SInv
  BY SInitInv
<1>2. SInv /\ [SNext]_svars => SInv'
  BY SInvStep
<1>3. SInv => STypeOK
  BY DEF SInv
<1>4. QED
  BY <1>1, <1>2, <1>3, PTL DEF SSpec

-----------------------------------------------------------------------------
(* Fences, through the rounds.                                             *)

SFenced ==
  /\ FencedOK
  /\ \A c \in solver \cup {clauses} : \A l \in c : l.st \notin FencedLabels
  /\ solvedStores \subseteq FencedLabels \cup {NULL}

LEMMA OneRegionIs ==
  ASSUME rwtrace_rec \in Seq(RWRecord)
  PROVE  OneRegion <=> OneRegionIn(rwtrace_rec)
<1>1. DOMAIN rwtrace_rec = 1 .. Len(rwtrace_rec)
  BY LenProperties
<1>2. QED
  BY <1>1 DEF OneRegion, OneRegionIn

LEMMA OneRegionNext == (SInv /\ OneRegion)' => OneRegionIn(rwtrace_rec)'
<1>1. SInv /\ OneRegion => OneRegionIn(rwtrace_rec)
  BY SInvParts, OneRegionIs DEF HInv, IInv, TypeOK
<1>2. QED
  BY <1>1, PTL

LEMMA EmptyTraceFenced ==
  ASSUME NEW S, NEW F
  PROVE  DrainedIn(<<>>, S, F) /\ UnblamedIn(<<>>, F)
BY NothingRecorded DEF DrainedIn, UnblamedIn

LEMMA SInitFenced ==
  ASSUME SInit
  PROVE  SFenced
<1>1. FencedOK
  BY EmptyTraceFenced DEF SInit, Started, FencedOK
<1>2. QED
  BY <1>1 DEF SFenced, SInit

LEMMA SameTraceFenced ==
  ASSUME FencedOK, UNCHANGED <<program, rwtrace_rec, threadStacks>>
  PROVE  FencedOK' /\ FencedLabels' = FencedLabels
BY SameFencing DEF FencedOK

LEMMA NewTraceFenced ==
  ASSUME rwtrace_rec' = <<>>
  PROVE  FencedOK'
BY EmptyTraceFenced DEF FencedOK

(* The labels of fences grow with the program; with all else kept, so does *)
(* the invariant.                                                          *)
LEMMA SolveFenced ==
  ASSUME SInv, SFenced, SolveAndInsert, Property' = Property
  PROVE  /\ SFenced'
         /\ WMM = "TSO" /\ solver # {} => program' # program
<1>1. DriverOK
  BY SInvParts
<1>2. PICK L \in Solutions(solver) : \E F \in Merge(L, solvedStores) :
              Restart(program \cup F) /\ solvedStores' = SolvedStores(L, solvedStores)
  BY DEF SolveAndInsert
<1>3. PICK F \in Merge(L, solvedStores) :
              Restart(program \cup F) /\ solvedStores' = SolvedStores(L, solvedStores)
  BY <1>2
<1>4. program' = program \cup F
  BY <1>3 DEF Restart
<1>5. \A l \in L : Found(l, program) /\ l.st \notin FencedLabels
  BY <1>1, SolutionsIn DEF DriverOK, SFenced
<1>6. FencedLabels' = FencedLabels \cup {f.after : f \in F}
  BY <1>4 DEF FencedLabels
<1>7. FencedOK'
  BY SolveStep, NewTraceFenced
<1>8. solvedStores' \subseteq FencedLabels' \cup {NULL}
  <2>1. \A l \in L : l.kind = "sl" => l.st \in solvedStores \/ l.st \in {f.after : f \in F}
    BY MergeIs
  <2>2. \A x \in solvedStores' : x \in solvedStores \/ x = NULL \/ \E l \in L : l.kind = "sl" /\ x = l.st
    BY <1>3 DEF SolvedStores, OfKind
  <2>3. QED
    BY <1>6, <2>1, <2>2 DEF SFenced
<1>9. SFenced'
  <2>1. clauses' = {} /\ solver' = {}
    BY DEF SolveAndInsert
  <2>2. QED
    BY <1>7, <1>8, <2>1 DEF SFenced
<1>10. ASSUME WMM = "TSO", solver # {} PROVE program' # program
  <2>1. PICK c \in solver : TRUE
    BY <1>10
  <2>2. PICK l \in L : l \in c
    BY SolutionsIn
  <2>3. /\ l.kind \in {"sl", "ss"} /\ l.st \in StoreLabels(program) /\ l.kind # "ss"
        /\ l.st \notin FencedLabels
    BY <1>5, <1>10 DEF Found, Literal
  <2>4. l.st # NULL
    BY <2>3 DEF StoreLabels, Writes, NULL
  <2>5. l.st \notin solvedStores
    BY <2>3, <2>4 DEF SFenced
  <2>6. PICK f \in F : f.after = l.st
    BY <2>3, <2>5, MergeIs
  <2>7. f \notin program
    BY <2>3, <2>6 DEF FencedLabels
  <2>8. QED
    BY <1>4, <2>7
<1>11. QED
  BY <1>9, <1>10

LEMMA RunsFenced ==
  ASSUME SInv, SFenced, Runs, OneRegionIn(rwtrace_rec')
  PROVE  SFenced'
<1>1. HInv /\ IInv /\ FencedOK
  BY SInvParts DEF HInv, SFenced
<1>2. UNCHANGED <<clauses, solver, solvedStores>>
  BY DEF Runs, driver
<1>3. FencedOK' /\ program' = program
  <2>1. CASE Finish
    BY <1>1, <2>1, SameTraceFenced DEF Finish
  <2>2. ASSUME NEW t \in Thread, Execute(t), Len(rwtrace_rec) < RecordLimit
        PROVE  FencedOK' /\ program' = program
    BY <1>1, <2>2, ExecuteFenced, OthersStay
  <2>3. ASSUME NEW t \in Thread, RandomFlush(t), Len(rwtrace_rec) < RecordLimit
        PROVE  FencedOK' /\ program' = program
    BY <1>1, <2>3, FlushFenced, FlushRecords
  <2>4. QED
    BY <2>1, <2>2, <2>3 DEF Runs
<1>4. FencedLabels' = FencedLabels
  BY <1>3 DEF FencedLabels
<1>5. QED
  BY <1>2, <1>3, <1>4 DEF SFenced

(* A run was counted: its literals are those of no fenced store.           *)
LEMMA CountedFenced ==
  ASSUME SInv, SFenced, NEW buggy \in {0, 1}, Counted(buggy),
         NEW c, \A l \in c : l.st \notin FencedLabels,
         \/ UNCHANGED <<clauses, solver>>
         \/ solver' = solver \cup {c} /\ clauses' = c
  PROVE  SFenced'
<1>1. program' = program /\ rwtrace_rec' = <<>> /\ solvedStores' = solvedStores
  BY DEF Counted, Restart
<1>2. FencedLabels' = FencedLabels /\ FencedOK'
  BY <1>1, NewTraceFenced DEF FencedLabels
<1>3. \A d \in solver' \cup {clauses'} : \A l \in d : l.st \notin FencedLabels
  BY DEF SFenced
<1>4. QED
  BY <1>1, <1>2, <1>3 DEF SFenced

LEMMA CalculateUnblamed ==
  ASSUME SInv, SFenced, NEW T
  PROVE  \A l \in Calculate(rwtrace_rec, T) : l.st \notin FencedLabels
<1>1. rwtrace_rec \in Seq(RWRecord)
  BY SInvParts DEF HInv, IInv, TypeOK
<1>2. SUFFICES ASSUME NEW t, NEW l \in LitsAt(rwtrace_rec, t)
               PROVE  l.st \notin FencedLabels
  BY CalculateIs
<1>3. t \in Thread
  BY <1>1, LitsAtAre DEF RWRecord
<1>4. QED
  BY <1>3 DEF SFenced, FencedOK, UnblamedIn

LEMMA SFencedStep ==
  ASSUME SInv, SFenced, [SNext]_svars, OneRegionIn(rwtrace_rec')
  PROVE  SFenced'
<1>1. CASE UNCHANGED <<vars, clauses, solver, solvedStores>>
  <2>1. UNCHANGED <<program, rwtrace_rec, threadStacks>>
    BY <1>1 DEF vars
  <2>2. FencedOK' /\ FencedLabels' = FencedLabels
    BY <2>1, SameTraceFenced DEF SFenced
  <2>3. QED
    BY <1>1, <2>2 DEF SFenced
<1>2. CASE UNCHANGED svars
  BY <1>1, <1>2 DEF svars, driver
<1>3. CASE SNext
  <2>1. Property' = Property
    BY <1>3 DEF SNext
  <2>2. CASE Runs
    BY <2>2, RunsFenced
  <2>3. ASSUME NEW rejected, GoodTrace(rejected) PROVE SFenced'
    <3>1. Counted(0) /\ UNCHANGED <<clauses, solver>>
      BY <2>3 DEF GoodTrace
    <3>2. PICK c : c = {}
      OBVIOUS
    <3>3. \A l \in c : l.st \notin FencedLabels
      BY <3>2
    <3>4. QED
      BY <3>1, <3>3, CountedFenced
  <2>4. ASSUME NEW rejected, BuggyTrace(rejected) PROVE SFenced'
    <3>1. PICK c : c = Calculate(rwtrace_rec, Made)
      OBVIOUS
    <3>2. Counted(1) /\ solver' = solver \cup {c} /\ clauses' = c
      BY <2>4, <3>1 DEF BuggyTrace
    <3>3. \A l \in c : l.st \notin FencedLabels
      BY <3>1, CalculateUnblamed
    <3>4. QED
      BY <3>2, <3>3, CountedFenced
  <2>5. CASE StaleTrace
    <3>1. Counted(1) /\ solver' = solver \cup {clauses} /\ clauses' = clauses
      BY <2>5 DEF StaleTrace
    <3>2. \A l \in clauses : l.st \notin FencedLabels
      BY DEF SFenced
    <3>3. QED
      BY <3>1, <3>2, CountedFenced
  <2>6. ASSUME NEW rejected, AssertFails(rejected) \/ NoLiterals(rejected) PROVE SFenced'
    <3>1. \E how : Exits(how)
      BY <2>6 DEF AssertFails, NoLiterals
    <3>2. QED
      BY <1>1, <3>1 DEF Exits
  <2>7. CASE Converged
    BY <1>1, <2>7 DEF Converged, Exits
  <2>8. CASE SolveAndInsert
    BY <2>1, <2>8, SolveFenced
  <2>9. QED
    BY <1>3, <2>2, <2>3, <2>4, <2>5, <2>6, <2>7, <2>8 DEF SNext
<1>4. QED
  BY <1>2, <1>3

(***************************************************************************)
(* As long as no thread is started after a join, a store that got its      *)
(* fence is blamed no more, in this round and all later ones, whatever     *)
(* thread the flushes in the trace name: while it is in the reconstructed  *)
(* buffer its thread is right before the fence, and the fence's record     *)
(* empties that buffer. (After a second start the fence may lie between    *)
(* the regions of the trace, where FindSharedRW leaves it out.)            *)
(***************************************************************************)
THEOREM FencedStoresStayUnblamed == SSpec /\ []OneRegion => []FencedStoresAreNotBlamed
<1>1. SInit => SInv /\ SFenced
  BY SInitInv, SInitFenced
<1>2. SInv /\ [SNext]_svars => SInv'
  BY SInvStep
<1>3. (SInv /\ OneRegion)' => OneRegionIn(rwtrace_rec)'
  BY OneRegionNext
<1>4. SInv /\ SFenced /\ OneRegionIn(rwtrace_rec)' /\ [SNext]_svars => SFenced'
  BY SFencedStep
<1>5. SFenced => FencedStoresAreNotBlamed
  BY DEF SFenced, FencedStoresAreNotBlamed, FencedLabels
<1>6. QED
  BY <1>1, <1>2, <1>3, <1>4, <1>5, PTL DEF SSpec

(* Only Flush, before the fences go in, empties the solver.                *)
LEMMA FlushedBySolve ==
  ASSUME [SNext]_svars, solver # {}, solver' = {}
  PROVE  SolveAndInsert /\ Property' = Property
<1>1. \/ SolveAndInsert \/ solver' = solver \/ \E c : solver' = solver \cup {c}
  BY DEF SNext, svars, driver, Runs, GoodTrace, BuggyTrace, AssertFails, NoLiterals, StaleTrace,
     Converged, Counted, Exits
<1>2. SolveAndInsert
  BY <1>1
<1>3. SNext
  BY DEF svars, driver
<1>4. QED
  BY <1>2, <1>3 DEF SNext

(***************************************************************************)
(* Under TSO a round that found a buggy trace puts into the module a fence *)
(* that was not there: a clause is hit by a literal, and its store is not  *)
(* one that Merge drops, as the stores Merge has solved have fences. So    *)
(* there are no more rounds than there are stores, and one (Merge,         *)
(* InsertFences, Flush).                                                   *)
(***************************************************************************)
THEOREM RoundsAddFences ==
  WMM = "TSO" => (SSpec /\ []OneRegion => EveryRoundAddsAFence)
<1>1. SUFFICES ASSUME WMM = "TSO" PROVE SSpec /\ []OneRegion => EveryRoundAddsAFence
  OBVIOUS
<1>2. SInit => SInv /\ SFenced
  BY SInitInv, SInitFenced
<1>3. SInv /\ [SNext]_svars => SInv'
  BY SInvStep
<1>4. (SInv /\ OneRegion)' => OneRegionIn(rwtrace_rec)'
  BY OneRegionNext
<1>5. SInv /\ SFenced /\ OneRegionIn(rwtrace_rec)' /\ [SNext]_svars => SFenced'
  BY SFencedStep
<1>6. SInv /\ SFenced /\ [SNext]_svars
        => [solver # {} /\ solver' = {} => program' # program]_svars
  BY <1>1, FlushedBySolve, SolveFenced
<1>7. QED
  BY <1>2, <1>3, <1>4, <1>5, <1>6, PTL DEF SSpec, EveryRoundAddsAFence

-----------------------------------------------------------------------------
(* Programs that start all their threads before they join them.            *)

MainOnce ==
  \A u \in Thread : \A k \in 1 .. Len(threadStacks[u]) :
     threadStacks[u][k].fn = Main => u = 1 /\ k = 1
Joining(m) ==
  /\ JoinsFrom(Code[program][Main], m)
  /\ \A u \in Thread : \A k \in 1 .. Len(threadStacks[u]) :
        threadStacks[u][k].fn = Main => m <= threadStacks[u][k].pc

JInv ==
  /\ MainOnce
  /\ OneRegionIn(rwtrace_rec)
  /\ JoinIn(rwtrace_rec) => \E m \in Nat : Joining(m)

LEMMA RegionGrows ==
  ASSUME NEW trace \in Seq(RWRecord), NEW e \in RWRecord, OneRegionIn(trace),
         e.type = "SPAWN" => ~ JoinIn(trace)
  PROVE  /\ OneRegionIn(Append(trace, e))
         /\ JoinIn(Append(trace, e)) => JoinIn(trace) \/ e.type = "JOIN"
<1>1. PICK more, n : more = Append(trace, e) /\ n = Len(trace)
  OBVIOUS
<1>2. /\ n \in Nat /\ Len(more) = n + 1 /\ more[n + 1] = e
      /\ \A k \in 1 .. n : more[k] = trace[k]
  BY <1>1, AppendIs
<1>3. \A k \in 1 .. n + 1 : k \in 1 .. n \/ k = n + 1
  BY <1>2
<1>4. \A j, k \in 1 .. n + 1 : j < k => j \in 1 .. n
  BY <1>2
<1>5. ASSUME NEW j \in 1 .. n + 1, NEW k \in 1 .. n + 1, j < k, more[j].type = "JOIN"
      PROVE  more[k].type # "SPAWN"
  <2>1. j \in 1 .. n /\ trace[j].type = "JOIN"
    BY <1>2, <1>4, <1>5
  <2>2. CASE k = n + 1
    BY <1>1, <1>2, <2>1, <2>2 DEF JoinIn
  <2>3. CASE k \in 1 .. n
    BY <1>1, <1>2, <1>5, <2>1, <2>3 DEF OneRegionIn
  <2>4. QED
    BY <1>3, <2>2, <2>3
<1>6. OneRegionIn(more)
  BY <1>2, <1>5 DEF OneRegionIn
<1>7. JoinIn(more) => JoinIn(trace) \/ e.type = "JOIN"
  BY <1>1, <1>2, <1>3 DEF JoinIn
<1>8. QED
  BY <1>1, <1>6, <1>7

(* The instruction of t stands in main's body only if t has main's frame   *)
(* on top of its stack.                                                    *)
LEMMA TopInMain ==
  ASSUME ForkJoin, IInv, NEW t \in Active
  PROVE  /\ Top(t).fn = Main => Instr(t) = Code[program][Main][Top(t).pc]
         /\ Top(t).fn = Main => Top(t).pc \in 1 .. Len(Code[program][Main])
         /\ Instr(t).op \in {"spawn", "join"} => Top(t).fn = Main
         /\ Instr(t).op \in {"spawn", "call"} => Instr(t).fn # Main
         /\ \E m \in Nat : JoinsFrom(Code[program][Main], m)
<1>1. /\ t \in Thread /\ Top(t) \in Frame
      /\ Top(t).pc \in 1 .. Len(Code[program][Top(t).fn])
      /\ program \in DOMAIN Code
  BY TopType DEF IInv, TypeOK
<1>2. Top(t).fn \in Fn
  BY <1>1 DEF Frame
<1>3. \E m \in Nat : JoinsFrom(Code[program][Main], m)
  <2>1. PICK m \in 1 .. Len(Code[program][Main]) : JoinsFrom(Code[program][Main], m)
    BY <1>1 DEF ForkJoin
  <2>2. m \in Nat
    OBVIOUS
  <2>3. QED
    BY <2>1, <2>2
<1>4. QED
  BY <1>1, <1>2, <1>3 DEF ForkJoin, Instr

LEMMA MainSteps ==
  ASSUME ForkJoin, HInv, MainOnce, NEW t \in Thread, Execute(t)
  PROVE  MainOnce' /\ \A m \in Nat : Joining(m) => Joining(m)'
<1>1. /\ IInv /\ t \in Active /\ program' = program
      /\ Len(threadStacks[t]) \in 1 .. Len(threadStacks[t])
      /\ Top(t) = threadStacks[t][Len(threadStacks[t])]
      /\ Top(t).pc \in Nat
  <2>1. IInv /\ t \in Active /\ program' = program
    BY ExecutesActive, OthersStay DEF HInv
  <2>2. Len(threadStacks[t]) \in Nat \ {0} /\ Top(t) \in Frame
    BY <2>1, TopType
  <2>3. QED
    BY <2>1, <2>2 DEF Top, Frame
<1>2. ASSUME NEW u \in Thread, NEW k \in 1 .. Len(threadStacks'[u])
      PROVE  FrameFrom(t, u, k, threadStacks'[u][k])
  BY <1>1, FramesAfter DEF FramesFrom
<1>3. ASSUME NEW u, NEW k, NEW g, Entered(t, g) PROVE g.fn # Main
  BY <1>1, <1>3, TopInMain DEF Entered
<1>4. ASSUME NEW u \in Thread, NEW k \in 1 .. Len(threadStacks'[u]), threadStacks'[u][k].fn = Main
      PROVE  u = 1 /\ k = 1
  <2>1. CASE Untouched(u, k, threadStacks'[u][k])
    BY <1>4, <2>1 DEF Untouched, MainOnce
  <2>2. CASE u = t /\ k = Len(threadStacks[t]) /\ Moves(t, threadStacks'[u][k])
    BY <1>1, <1>4, <2>2 DEF Moves, MainOnce
  <2>3. QED
    BY <1>2, <1>3, <1>4, <2>1, <2>2 DEF FrameFrom
<1>5. ASSUME NEW m \in Nat, Joining(m),
             NEW u \in Thread, NEW k \in 1 .. Len(threadStacks'[u]), threadStacks'[u][k].fn = Main
      PROVE  m <= threadStacks'[u][k].pc
  <2>1. CASE Untouched(u, k, threadStacks'[u][k])
    BY <1>5, <2>1 DEF Untouched, Joining
  <2>2. CASE u = t /\ k = Len(threadStacks[t]) /\ Moves(t, threadStacks'[u][k])
    <3>1. Top(t).fn = Main /\ m <= Top(t).pc
      BY <1>1, <1>5, <2>2 DEF Moves, Joining
    <3>2. Instr(t).op = "br" => m <= Instr(t).to
      BY <1>1, <1>5, <3>1, TopInMain DEF Joining, JoinsFrom
    <3>3. m <= Top(t).pc + 1
      BY <1>1, <3>1
    <3>4. QED
      BY <2>2, <3>2, <3>3 DEF Moves
  <2>3. QED
    BY <1>2, <1>3, <1>5, <2>1, <2>2 DEF FrameFrom
<1>6. MainOnce'
  BY <1>4 DEF MainOnce
<1>7. ASSUME NEW m \in Nat, Joining(m) PROVE Joining(m)'
  <2>1. JoinsFrom(Code[program'][Main], m)
    BY <1>1, <1>7 DEF Joining
  <2>2. QED
    BY <1>5, <1>7, <2>1 DEF Joining, Code, JoinsFrom
<1>8. QED
  BY <1>6, <1>7

LEMMA ExecuteJoining ==
  ASSUME ForkJoin, HInv, JInv, NEW t \in Thread, Execute(t), Len(rwtrace_rec) < RecordLimit
  PROVE  JInv'
<1>1. /\ IInv /\ t \in Active /\ rwtrace_rec \in Seq(RWRecord)
      /\ Len(threadStacks[t]) \in 1 .. Len(threadStacks[t])
      /\ Top(t) = threadStacks[t][Len(threadStacks[t])] /\ Top(t).pc \in Nat
  <2>1. IInv /\ t \in Active
    BY ExecutesActive DEF HInv
  <2>2. Len(threadStacks[t]) \in Nat \ {0} /\ Top(t) \in Frame
    BY <2>1, TopType
  <2>3. rwtrace_rec \in Seq(RWRecord)
    BY <2>1 DEF IInv, TypeOK
  <2>4. QED
    BY <2>1, <2>2, <2>3 DEF Top, Frame
<1>2. MainOnce' /\ \A m \in Nat : Joining(m) => Joining(m)'
  BY MainSteps DEF JInv
<1>3. Instr(t).op = "spawn" => ~ JoinIn(rwtrace_rec)
  <2>1. SUFFICES ASSUME Instr(t).op = "spawn", JoinIn(rwtrace_rec) PROVE FALSE
    OBVIOUS
  <2>2. PICK m \in Nat : Joining(m)
    BY <2>1 DEF JInv
  <2>3. Top(t).fn = Main /\ Top(t).pc \in 1 .. Len(Code[program][Main])
    BY <1>1, <2>1, TopInMain
  <2>4. m <= Top(t).pc
    BY <1>1, <2>2, <2>3 DEF Joining
  <2>5. Top(t).pc < m
    BY <1>1, <2>1, <2>2, <2>3, TopInMain DEF Joining, JoinsFrom
  <2>6. QED
    BY <1>1, <2>4, <2>5
<1>4. Instr(t).op = "join" => \E m \in Nat : Joining(m)
  <2>1. SUFFICES ASSUME Instr(t).op = "join" PROVE \E m \in Nat : Joining(m)
    OBVIOUS
  <2>2. Top(t).fn = Main /\ Top(t).pc \in 1 .. Len(Code[program][Main])
    BY <1>1, <2>1, TopInMain
  <2>3. PICK m \in Nat : JoinsFrom(Code[program][Main], m)
    BY <1>1, TopInMain
  <2>4. m <= Top(t).pc
    BY <1>1, <2>1, <2>2, <2>3, TopInMain DEF JoinsFrom
  <2>5. t = 1 /\ Len(threadStacks[t]) = 1
    BY <1>1, <2>2 DEF JInv, MainOnce
  <2>6. ASSUME NEW u \in Thread, NEW k \in 1 .. Len(threadStacks[u]), threadStacks[u][k].fn = Main
        PROVE  m <= threadStacks[u][k].pc
    <3>1. u = t /\ k = Len(threadStacks[t])
      BY <2>5, <2>6 DEF JInv, MainOnce
    <3>2. QED
      BY <1>1, <2>4, <3>1
  <2>7. QED
    BY <2>3, <2>6 DEF Joining
<1>5. ASSUME NEW trace, trace = rwtrace_rec', OneRegionIn(trace),
             JoinIn(trace) => JoinIn(rwtrace_rec) \/ Instr(t).op = "join"
      PROVE  JInv'
  <2>1. OneRegionIn(rwtrace_rec)' /\ (JoinIn(rwtrace_rec)' <=> JoinIn(trace))
    BY <1>5 DEF OneRegionIn, JoinIn
  <2>2. JoinIn(trace) => \E m \in Nat : Joining(m)
    BY <1>4, <1>5 DEF JInv
  <2>3. JoinIn(trace) => \E m \in Nat : Joining(m)'
    BY <1>2, <2>2
  <2>4. QED
    BY <1>2, <2>1, <2>3 DEF JInv
<1>6. CASE Recorded0(t)
  BY <1>5, <1>6 DEF Recorded0, JInv
<1>7. CASE Recorded1(t)
  <2>1. PICK e \in RWRecord : Leaves(t, e) /\ rwtrace_rec' = Append(rwtrace_rec, e)
    BY <1>7 DEF Recorded1
  <2>2. /\ e.type = "SPAWN" => ~ JoinIn(rwtrace_rec)
        /\ e.type = "JOIN" => Instr(t).op = "join"
    BY <1>3, <2>1 DEF Leaves
  <2>3. PICK trace : trace = Append(rwtrace_rec, e)
    OBVIOUS
  <2>4. OneRegionIn(trace) /\ (JoinIn(trace) => JoinIn(rwtrace_rec) \/ Instr(t).op = "join")
    BY <1>1, <2>2, <2>3, RegionGrows DEF JInv
  <2>5. QED
    BY <1>5, <2>1, <2>3, <2>4
<1>8. CASE Recorded2(t)
  <2>1. PICK e, f \in RWRecord :
           /\ e.type = "WRITE" /\ f.type \notin {"READ", "WRITE", "SPAWN", "JOIN"}
           /\ rwtrace_rec' = Append(Append(rwtrace_rec, e), f)
    BY <1>8 DEF Recorded2
  <2>2. PICK one : one = Append(rwtrace_rec, e)
    OBVIOUS
  <2>3. one \in Seq(RWRecord)
    BY <1>1, <2>2, AppendIs
  <2>4. OneRegionIn(one) /\ (JoinIn(one) => JoinIn(rwtrace_rec))
    BY <1>1, <2>1, <2>2, RegionGrows DEF JInv
  <2>5. PICK trace : trace = Append(one, f)
    OBVIOUS
  <2>6. OneRegionIn(trace) /\ (JoinIn(trace) => JoinIn(one))
    BY <2>1, <2>3, <2>4, <2>5, RegionGrows
  <2>7. QED
    BY <1>5, <2>1, <2>2, <2>4, <2>5, <2>6
<1>9. QED
  BY <1>1, <1>6, <1>7, <1>8, InstructionRecords

LEMMA SameJoining ==
  ASSUME JInv, NEW trace, rwtrace_rec' = trace, OneRegionIn(trace),
         JoinIn(trace) => JoinIn(rwtrace_rec), UNCHANGED <<program, threadStacks>>
  PROVE  JInv'
<1>1. OneRegionIn(rwtrace_rec)' /\ (JoinIn(rwtrace_rec)' <=> JoinIn(trace))
  BY DEF OneRegionIn, JoinIn
<1>2. MainOnce' /\ \A m : Joining(m)' <=> Joining(m)
  BY DEF JInv, MainOnce, Joining, Code, JoinsFrom
<1>3. QED
  BY <1>1, <1>2 DEF JInv

LEMMA FlushJoining ==
  ASSUME IInv, JInv, NEW t \in Thread, RandomFlush(t), Len(rwtrace_rec) < RecordLimit
  PROVE  JInv'
<1>1. PICK e \in RWRecord : /\ e.type \in {"FLUSH_RANDOM_TSO", "FLUSH_RANDOM_PSO"}
                            /\ rwtrace_rec' = Append(rwtrace_rec, e)
  BY FlushRecords
<1>2. UNCHANGED <<program, threadStacks>> /\ rwtrace_rec \in Seq(RWRecord)
  BY FlushRecords DEF IInv, TypeOK
<1>3. PICK trace : trace = Append(rwtrace_rec, e)
  OBVIOUS
<1>4. OneRegionIn(trace) /\ (JoinIn(trace) => JoinIn(rwtrace_rec))
  BY <1>1, <1>2, <1>3, RegionGrows DEF JInv
<1>5. QED
  BY <1>1, <1>2, <1>3, <1>4, SameJoining

LEMMA NewStacks ==
  ASSUME NEW stacks, stacks = [t \in Thread |-> IF t = 1 THEN <<NewFrame(Main, 0)>> ELSE <<>>],
         NEW u \in Thread, NEW k \in 1 .. Len(stacks[u])
  PROVE  u = 1 /\ k = 1
<1>1. PICK frame : frame = NewFrame(Main, 0)
  OBVIOUS
<1>2. CASE u = 1
  <2>1. stacks[u] = <<frame>> /\ Len(<<frame>>) = 1
    BY <1>1, <1>2
  <2>2. QED
    BY <1>2, <2>1
<1>3. CASE u # 1
  <2>1. stacks[u] = <<>> /\ Len(<<>>) = 0
    BY <1>3
  <2>2. QED
    BY <2>1
<1>4. QED
  BY <1>2, <1>3

LEMMA EmptyRegion == OneRegionIn(<<>>) /\ ~ JoinIn(<<>>)
<1>1. Len(<<>>) = 0
  BY EmptySeq
<1>2. QED
  BY <1>1 DEF OneRegionIn, JoinIn

LEMMA StartedJoining ==
  ASSUME threadStacks = [t \in Thread |-> IF t = 1 THEN <<NewFrame(Main, 0)>> ELSE <<>>],
         rwtrace_rec = <<>>
  PROVE  JInv
<1>1. MainOnce
  BY NewStacks DEF MainOnce
<1>2. QED
  BY <1>1, EmptyRegion DEF JInv

LEMMA StartedJoiningNext ==
  ( /\ threadStacks = [t \in Thread |-> IF t = 1 THEN <<NewFrame(Main, 0)>> ELSE <<>>]
    /\ rwtrace_rec = <<>> )' => JInv'
<1>1. /\ threadStacks = [t \in Thread |-> IF t = 1 THEN <<NewFrame(Main, 0)>> ELSE <<>>]
      /\ rwtrace_rec = <<>>
      => JInv
  BY StartedJoining
<1>2. QED
  BY <1>1, PTL

LEMMA RestartJoining ==
  ASSUME NEW p, Restart(p)
  PROVE  JInv'
BY StartedJoiningNext DEF Restart, NewFrame

LEMMA JInvStep ==
  ASSUME ForkJoin, SInv, JInv, [SNext]_svars
  PROVE  JInv'
<1>1. HInv /\ IInv
  BY SInvParts DEF HInv
<1>2. CASE UNCHANGED <<program, threadStacks, rwtrace_rec>>
  BY <1>2, SameJoining DEF JInv
<1>3. CASE UNCHANGED svars
  BY <1>2, <1>3 DEF svars, vars
<1>4. CASE SNext
  <2>1. CASE Runs
    <3>1. CASE Finish
      BY <1>2, <3>1 DEF Finish
    <3>2. ASSUME NEW t \in Thread, Execute(t), Len(rwtrace_rec) < RecordLimit PROVE JInv'
      BY <1>1, <3>2, ExecuteJoining
    <3>3. ASSUME NEW t \in Thread, RandomFlush(t), Len(rwtrace_rec) < RecordLimit PROVE JInv'
      BY <1>1, <3>3, FlushJoining
    <3>4. QED
      BY <2>1, <3>1, <3>2, <3>3 DEF Runs
  <2>2. CASE \E p : Restart(p)
    BY <2>2, RestartJoining
  <2>3. CASE UNCHANGED vars
    BY <1>2, <2>3 DEF vars
  <2>4. ASSUME NEW rejected,
               \/ GoodTrace(rejected) \/ BuggyTrace(rejected)
               \/ AssertFails(rejected) \/ NoLiterals(rejected)
        PROVE  JInv'
    <3>1. Restart(program) \/ UNCHANGED vars
      BY <2>4 DEF GoodTrace, BuggyTrace, AssertFails, NoLiterals, Counted, Exits
    <3>2. QED
      BY <2>2, <2>3, <3>1
  <2>5. CASE StaleTrace \/ Converged \/ SolveAndInsert
    <3>1. (\E p : Restart(p)) \/ UNCHANGED vars
      BY <2>5 DEF StaleTrace, Converged, SolveAndInsert, Counted, Exits
    <3>2. QED
      BY <2>2, <2>3, <3>1
  <2>6. QED
    BY <1>4, <2>1, <2>4, <2>5 DEF SNext
<1>5. QED
  BY <1>3, <1>4

(***************************************************************************)
(* In a program whose main starts all its threads before it joins them,    *)
(* no run records a start after a join, whatever fences were put in: the   *)
(* accesses FindSharedRW takes for shared are one region of the trace.     *)
(***************************************************************************)
THEOREM ForkJoinHasOneRegion == ForkJoin => (SSpec => []OneRegion)
<1>1. SUFFICES ASSUME ForkJoin PROVE SSpec => []OneRegion
  OBVIOUS
<1>2. SInit => SInv /\ JInv
  BY SInitInv, StartedJoining DEF SInit, Started
<1>3. SInv /\ JInv /\ [SNext]_svars => SInv' /\ JInv'
  BY <1>1, SInvStep, JInvStep
<1>4. SInv /\ JInv => OneRegion
  BY SInvParts, OneRegionIs DEF HInv, IInv, TypeOK, JInv
<1>5. QED
  BY <1>2, <1>3, <1>4, PTL DEF SSpec

-----------------------------------------------------------------------------
(* Buffers and reconstructed buffers. A set of positions is listed in      *)
(* ascending order.                                                        *)

Listing(pos, S) ==
  /\ pos \in Seq(Nat)
  /\ \A i, j \in 1 .. Len(pos) : i < j => pos[i] < pos[j]
  /\ \A k : k \in S <=> \E i \in 1 .. Len(pos) : pos[i] = k

LEMMA ListingNone ==
  ASSUME NEW S
  PROVE  /\ Listing(<<>>, {})
         /\ S = {} => \A pos : Listing(pos, S) => Len(pos) = 0
         /\ \A pos : Listing(pos, S) /\ Len(pos) = 0 => S = {}
<1>1. Listing(<<>>, {})
  <2>1. <<>> \in Seq(Nat) /\ Len(<<>>) = 0
    BY EmptySeq
  <2>2. QED
    BY <2>1 DEF Listing
<1>2. ASSUME S = {}, NEW pos, Listing(pos, S) PROVE Len(pos) = 0
  <2>1. pos \in Seq(Nat) /\ Len(pos) \in Nat
    BY <1>2, LenProperties DEF Listing
  <2>2. Len(pos) # 0 => 1 \in 1 .. Len(pos)
    BY <2>1
  <2>3. QED
    BY <1>2, <2>2 DEF Listing
<1>3. ASSUME NEW pos, Listing(pos, S), Len(pos) = 0 PROVE S = {}
  BY <1>3 DEF Listing
<1>4. QED
  BY <1>1, <1>2, <1>3

LEMMA ListingAppend ==
  ASSUME NEW pos, NEW S, Listing(pos, S), NEW n \in Nat, \A k \in S : k < n
  PROVE  Listing(Append(pos, n), S \cup {n})
<1> DEFINE more == Append(pos, n)
<1>1. /\ pos \in Seq(Nat) /\ Len(pos) \in Nat /\ more \in Seq(Nat) /\ Len(more) = Len(pos) + 1
      /\ \A i \in 1 .. Len(pos) : more[i] = pos[i]
      /\ more[Len(pos) + 1] = n
  BY AppendProperties, LenProperties DEF Listing
<1> HIDE DEF more
<1>2. \A i \in 1 .. Len(more) : i \in 1 .. Len(pos) \/ i = Len(pos) + 1
  BY <1>1
<1>3. \A i \in 1 .. Len(pos) : pos[i] \in S /\ i \in 1 .. Len(more)
  BY <1>1 DEF Listing
<1>4. Len(pos) + 1 \in 1 .. Len(more)
  BY <1>1
<1>5. \A i, j \in 1 .. Len(more) : i < j => more[i] < more[j]
  <2>1. ASSUME NEW i \in 1 .. Len(more), NEW j \in 1 .. Len(more), i < j
        PROVE  more[i] < more[j]
    <3>1. i \in 1 .. Len(pos)
      BY <1>1, <2>1
    <3>2. CASE j \in 1 .. Len(pos)
      BY <1>1, <2>1, <3>1, <3>2 DEF Listing
    <3>3. CASE j = Len(pos) + 1
      BY <1>1, <1>3, <3>1, <3>3
    <3>4. QED
      BY <1>2, <3>2, <3>3
  <2>2. QED
    BY <2>1
<1>6. \A k : k \in S \cup {n} <=> \E i \in 1 .. Len(more) : more[i] = k
  <2>1. ASSUME NEW k, k \in S \cup {n} PROVE \E i \in 1 .. Len(more) : more[i] = k
    <3>1. CASE k = n
      BY <1>1, <1>4, <3>1
    <3>2. CASE k \in S
      <4>1. PICK i \in 1 .. Len(pos) : pos[i] = k
        BY <3>2 DEF Listing
      <4>2. QED
        BY <1>1, <1>3, <4>1
    <3>3. QED
      BY <2>1, <3>1, <3>2
  <2>2. ASSUME NEW i \in 1 .. Len(more) PROVE more[i] \in S \cup {n}
    BY <1>1, <1>2, <1>3
  <2>3. QED
    BY <2>1, <2>2
<1>7. Listing(more, S \cup {n})
  BY <1>1, <1>5, <1>6 DEF Listing
<1>8. QED
  BY <1>7 DEF more

LEMMA ListingTail ==
  ASSUME NEW pos, NEW S, Listing(pos, S), Len(pos) # 0
  PROVE  Listing(Tail(pos), S \ Earliest(S))
<1> DEFINE rest == Tail(pos)
           n == Len(pos)
<1>1. pos \in Seq(Nat) /\ n \in Nat /\ n # 0 /\ pos # <<>>
  BY LenProperties, EmptySeq DEF Listing
<1>2. /\ rest \in Seq(Nat) /\ Len(rest) = n - 1
      /\ \A i \in 1 .. n - 1 : rest[i] = pos[i + 1]
  BY <1>1, HeadTailProperties
<1>3. \A i \in 1 .. n : pos[i] \in Nat
  BY <1>1, ElementOfSeq
<1> HIDE DEF rest
<1>4. \A k : k \in Earliest(S) <=> k = pos[1]
  <2>1. 1 \in 1 .. n
    BY <1>1
  <2>2. \A i \in 1 .. n : i = 1 \/ 1 < i
    BY <1>1
  <2>3. \A i \in 1 .. n : pos[1] <= pos[i]
    BY <1>3, <2>1, <2>2 DEF Listing
  <2>4. \A i \in 1 .. n : pos[i] <= pos[1] => pos[i] = pos[1]
    BY <1>3, <2>1, <2>3
  <2>5. pos[1] \in S /\ \A k \in S : \E i \in 1 .. n : k = pos[i]
    BY <2>1 DEF Listing
  <2>6. pos[1] \in Earliest(S)
    BY <2>3, <2>5 DEF Earliest
  <2>7. ASSUME NEW k \in Earliest(S) PROVE k = pos[1]
    <3>1. k \in S /\ k <= pos[1]
      BY <2>5 DEF Earliest
    <3>2. QED
      BY <2>4, <2>5, <3>1
  <2>8. QED
    BY <2>6, <2>7
<1>5. \A i \in 1 .. n - 1 : i + 1 \in 1 .. n
  BY <1>1
<1>6. \A i, j \in 1 .. Len(rest) : i < j => rest[i] < rest[j]
  <2>1. ASSUME NEW i \in 1 .. n - 1, NEW j \in 1 .. n - 1, i < j PROVE rest[i] < rest[j]
    <3>1. i + 1 \in 1 .. n /\ j + 1 \in 1 .. n /\ i + 1 < j + 1
      BY <1>1, <2>1
    <3>2. QED
      BY <1>2, <3>1 DEF Listing
  <2>2. QED
    BY <1>2, <2>1
<1>7. \A k : k \in S \ Earliest(S) <=> \E i \in 1 .. Len(rest) : rest[i] = k
  <2>1. ASSUME NEW k, k \in S, k # pos[1] PROVE \E i \in 1 .. n - 1 : rest[i] = k
    <3>1. PICK j \in 1 .. n : pos[j] = k
      BY <2>1 DEF Listing
    <3>2. j # 1 /\ j - 1 \in 1 .. n - 1 /\ (j - 1) + 1 = j
      BY <1>1, <2>1, <3>1
    <3>3. rest[j - 1] = k
      BY <1>2, <3>1, <3>2
    <3>4. QED
      BY <3>2, <3>3
  <2>2. ASSUME NEW i \in 1 .. n - 1 PROVE rest[i] \in S /\ rest[i] # pos[1]
    <3>1. 1 \in 1 .. n /\ i + 1 \in 1 .. n /\ 1 < i + 1
      BY <1>1
    <3>2. pos[1] < pos[i + 1] /\ pos[i + 1] \in S
      BY <3>1 DEF Listing
    <3>3. QED
      BY <1>2, <1>3, <3>1, <3>2
  <2>3. QED
    BY <1>2, <1>4, <2>1, <2>2
<1>8. Listing(rest, S \ Earliest(S))
  BY <1>2, <1>6, <1>7 DEF Listing
<1>9. QED
  BY <1>8 DEF rest

(* Queue b holds the stores at the positions S of the trace.               *)
HoldsAt(trace, pos, b) ==
  /\ Len(pos) = Len(b)
  /\ \A i \in 1 .. Len(b) : trace[pos[i]].loc = b[i].addr /\ trace[pos[i]].label = b[i].label
Holds(trace, S, b) == \E pos : Listing(pos, S) /\ HoldsAt(trace, pos, b)

LEMMA HoldsNone ==
  ASSUME NEW trace
  PROVE  /\ Holds(trace, {}, <<>>)
         /\ \A b \in Seq(Elem) : Holds(trace, {}, b) => b = <<>>
         /\ \A S : Holds(trace, S, <<>>) => S = {}
<1>1. Len(<<>>) = 0
  BY EmptySeq
<1>2. Holds(trace, {}, <<>>)
  BY <1>1, ListingNone DEF Holds, HoldsAt
<1>3. ASSUME NEW b \in Seq(Elem), Holds(trace, {}, b) PROVE b = <<>>
  <2>1. Len(b) = 0
    BY <1>3, ListingNone DEF Holds, HoldsAt
  <2>2. QED
    BY <2>1, EmptySeq
<1>4. ASSUME NEW S, Holds(trace, S, <<>>) PROVE S = {}
  BY <1>1, <1>4, ListingNone DEF Holds, HoldsAt
<1>5. QED
  BY <1>2, <1>3, <1>4

LEMMA HoldsSame ==
  ASSUME NEW trace, NEW more, NEW S, NEW b, Holds(trace, S, b), \A k \in S : more[k] = trace[k]
  PROVE  Holds(more, S, b)
<1>1. PICK pos : Listing(pos, S) /\ HoldsAt(trace, pos, b)
  BY DEF Holds
<1>2. \A i \in 1 .. Len(b) : pos[i] \in S
  BY <1>1 DEF Listing, HoldsAt
<1>3. HoldsAt(more, pos, b)
  BY <1>1, <1>2 DEF HoldsAt
<1>4. QED
  BY <1>1, <1>3 DEF Holds

LEMMA HoldsAppend ==
  ASSUME NEW trace, NEW S, NEW b \in Seq(Elem), Holds(trace, S, b), NEW n \in Nat, \A k \in S : k < n,
         NEW e \in Elem, trace[n].loc = e.addr, trace[n].label = e.label
  PROVE  Holds(trace, S \cup {n}, Append(b, e))
<1>1. PICK pos : Listing(pos, S) /\ HoldsAt(trace, pos, b)
  BY DEF Holds
<1>2. Listing(Append(pos, n), S \cup {n})
  BY <1>1, ListingAppend
<1>3. HoldsAt(trace, Append(pos, n), Append(b, e))
  <2>1. pos \in Seq(Nat) /\ Len(pos) = Len(b) /\ Len(b) \in Nat
    BY <1>1, LenProperties DEF Listing, HoldsAt
  <2>2. /\ Len(Append(b, e)) = Len(b) + 1
        /\ \A i \in 1 .. Len(b) : Append(b, e)[i] = b[i]
        /\ Append(b, e)[Len(b) + 1] = e
    BY AppendProperties
  <2>3. /\ Len(Append(pos, n)) = Len(b) + 1
        /\ \A i \in 1 .. Len(b) : Append(pos, n)[i] = pos[i]
        /\ Append(pos, n)[Len(b) + 1] = n
    BY <2>1, AppendProperties
  <2>4. \A i \in 1 .. Len(b) + 1 : i \in 1 .. Len(b) \/ i = Len(b) + 1
    BY <2>1
  <2>5. QED
    BY <1>1, <2>2, <2>3, <2>4 DEF HoldsAt
<1>4. QED
  BY <1>2, <1>3 DEF Holds

LEMMA HoldsTail ==
  ASSUME NEW trace, NEW S, NEW b \in Seq(Elem), Holds(trace, S, b), b # <<>>
  PROVE  Holds(trace, S \ Earliest(S), Tail(b))
<1>1. PICK pos : Listing(pos, S) /\ HoldsAt(trace, pos, b)
  BY DEF Holds
<1>2. pos \in Seq(Nat) /\ Len(pos) = Len(b) /\ Len(b) \in Nat /\ Len(b) # 0 /\ pos # <<>>
  BY <1>1, LenProperties, EmptySeq DEF Listing, HoldsAt
<1>3. Listing(Tail(pos), S \ Earliest(S))
  BY <1>1, <1>2, ListingTail
<1>4. HoldsAt(trace, Tail(pos), Tail(b))
  <2>1. Len(Tail(b)) = Len(b) - 1 /\ \A i \in 1 .. Len(b) - 1 : Tail(b)[i] = b[i + 1]
    BY HeadTailProperties
  <2>2. Len(Tail(pos)) = Len(b) - 1 /\ \A i \in 1 .. Len(b) - 1 : Tail(pos)[i] = pos[i + 1]
    BY <1>2, HeadTailProperties
  <2>3. \A i \in 1 .. Len(b) - 1 : i + 1 \in 1 .. Len(b)
    BY <1>2
  <2>4. QED
    BY <1>1, <2>1, <2>2, <2>3 DEF HoldsAt
<1>5. QED
  BY <1>3, <1>4 DEF Holds

(* The stores of a queue are those at the positions.                       *)
LEMMA HeldStores ==
  ASSUME NEW trace, NEW S, NEW b \in Seq(Elem), Holds(trace, S, b), NEW loc, NEW label
  PROVE  (\E k \in S : trace[k].loc = loc /\ trace[k].label = label)
           <=> (\E e \in Range(b) : e.addr = loc /\ e.label = label)
<1>1. PICK pos : Listing(pos, S) /\ HoldsAt(trace, pos, b)
  BY DEF Holds
<1>2. Range(b) = {b[i] : i \in 1 .. Len(b)}
  BY LenProperties DEF Range
<1>3. \A i \in 1 .. Len(b) : pos[i] \in S
  BY <1>1 DEF Listing, HoldsAt
<1>4. \A k \in S : \E i \in 1 .. Len(b) : pos[i] = k
  BY <1>1 DEF Listing, HoldsAt
<1>5. QED
  BY <1>1, <1>2, <1>3, <1>4 DEF HoldsAt

InQueue(trace, t, q) == {k \in BufferAt(trace, t) : QueueOf(trace[k].loc) = q}
MirrorsOf(trace, buffer, t) == \A q \in Queue : Holds(trace, InQueue(trace, t, q), buffer[t][q])
Mirrors(trace, buffer) == \A t \in Thread : MirrorsOf(trace, buffer, t)

AccessesIn(trace, n) ==
  \A k \in 1 .. Len(trace) :
     trace[k].type \in {"READ", "WRITE"} => trace[k].loc \in Addr /\ trace[k].thr < n
Buffers == [Thread -> [Queue -> Seq(Elem)]]

LEMMA SameRecords ==
  ASSUME NEW trace \in Seq(RWRecord), NEW e \in RWRecord, NEW t
  PROVE  \A k \in BufferAt(trace, t) : Append(trace, e)[k] = trace[k]
BY AppendIs, BufferAtWrites

LEMMA MirrorsSame ==
  ASSUME NEW trace \in Seq(RWRecord), NEW e \in RWRecord, NEW t \in Thread,
         NEW buffer, NEW buffer2, MirrorsOf(trace, buffer, t), buffer2[t] = buffer[t],
         BufferAt(Append(trace, e), t) = BufferAt(trace, t)
  PROVE  MirrorsOf(Append(trace, e), buffer2, t)
<1>1. PICK more : more = Append(trace, e)
  OBVIOUS
<1>2. /\ \A k \in BufferAt(trace, t) : more[k] = trace[k]
      /\ \A q : InQueue(more, t, q) = InQueue(trace, t, q)
  <2>1. \A k \in BufferAt(trace, t) : more[k] = trace[k]
    BY <1>1, SameRecords
  <2>2. QED
    BY <1>1, <2>1 DEF InQueue
<1>3. ASSUME NEW q \in Queue PROVE Holds(more, InQueue(more, t, q), buffer2[t][q])
  <2>1. \A k \in InQueue(trace, t, q) : more[k] = trace[k]
    BY <1>2 DEF InQueue
  <2>2. Holds(trace, InQueue(trace, t, q), buffer[t][q])
    BY DEF MirrorsOf
  <2>3. QED
    BY <1>2, <2>1, <2>2, HoldsSame
<1>4. QED
  BY <1>1, <1>3 DEF MirrorsOf

(* Another thread's record, and one that does not count.                   *)
LEMMA MirrorsOthers ==
  ASSUME NEW trace \in Seq(RWRecord), NEW e \in RWRecord, NEW t \in Thread,
         NEW buffer, NEW buffer2, MirrorsOf(trace, buffer, t), buffer2[t] = buffer[t],
         ~ Counts(trace, e, t)
  PROVE  MirrorsOf(Append(trace, e), buffer2, t)
<1>1. BufferAt(Append(trace, e), t) = BufferAt(trace, t)
  BY OneMore
<1>2. QED
  BY <1>1, MirrorsSame

LEMMA MirrorsEmpty ==
  ASSUME NEW trace, NEW t \in Thread, NEW buffer,
         BufferAt(trace, t) = {}, \A q \in Queue : buffer[t][q] = <<>>
  PROVE  MirrorsOf(trace, buffer, t)
<1>1. \A q : InQueue(trace, t, q) = {}
  BY DEF InQueue
<1>2. QED
  BY <1>1, HoldsNone DEF MirrorsOf

LEMMA EmptyMirror ==
  ASSUME NEW trace, NEW t \in Thread, NEW buffer \in Buffers, MirrorsOf(trace, buffer, t),
         BufferAt(trace, t) = {}
  PROVE  \A q \in Queue : buffer[t][q] = <<>>
<1>1. ASSUME NEW q \in Queue PROVE buffer[t][q] = <<>>
  <2>1. InQueue(trace, t, q) = {} /\ buffer[t][q] \in Seq(Elem)
    BY DEF InQueue, Buffers
  <2>2. Holds(trace, {}, buffer[t][q])
    BY <2>1 DEF MirrorsOf
  <2>3. QED
    BY <2>1, <2>2, HoldsNone
<1>2. QED
  BY <1>1

(* Before the first thread is started nothing counts.                      *)
LEMMA NothingYet ==
  ASSUME NEW trace \in Seq(RWRecord), NEW e \in RWRecord, e.type # "SPAWN",
         ~ Between(Append(trace, e), Len(trace) + 1), ~ JoinIn(Append(trace, e))
  PROVE  \A t : BufferAt(trace, t) = {}
BY BufferAtWrites, Outside

LEMMA MirrorsFence ==
  ASSUME NEW trace \in Seq(RWRecord), NEW e \in RWRecord, NEW t \in Thread,
         NEW buffer, \A q \in Queue : buffer[t][q] = <<>>,
         e.thr = t, e.label = 0, e.type # "SPAWN", ~ JoinIn(Append(trace, e))
  PROVE  MirrorsOf(Append(trace, e), buffer, t)
<1> DEFINE more == Append(trace, e)
           n == Len(trace) + 1
<1>1. more[n] = e
  BY AppendIs
<1>2. CASE Counts(trace, e, t)
  <2>1. BufferAt(more, t) = StoreBuffer(more, BufferAt(trace, t), n)
    BY <1>2, OneMore
  <2>2. BufferAt(more, t) = {}
    BY <1>1, <2>1 DEF StoreBuffer
  <2>3. QED
    BY <2>2, MirrorsEmpty
<1>3. CASE ~ Counts(trace, e, t)
  <2>1. BufferAt(more, t) = BufferAt(trace, t)
    BY <1>3, OneMore
  <2>2. BufferAt(trace, t) = {}
    BY <1>3, NothingYet DEF Counts
  <2>3. QED
    BY <2>1, <2>2, MirrorsEmpty
<1>4. QED
  BY <1>2, <1>3

LEMMA MirrorsStore ==
  ASSUME NEW trace \in Seq(RWRecord), NEW e \in RWRecord, NEW t \in Thread,
         NEW buffer \in Buffers, NEW buffer2, MirrorsOf(trace, buffer, t),
         NEW q \in Queue, NEW s \in Elem, s.addr = e.loc, s.label = e.label, q = QueueOf(e.loc),
         buffer2[t][q] = Append(buffer[t][q], s),
         \A p \in Queue : p # q => buffer2[t][p] = buffer[t][p],
         Counts(trace, e, t), e.type = "WRITE", e.label # 0
  PROVE  MirrorsOf(Append(trace, e), buffer2, t)
<1>1. PICK more : more = Append(trace, e)
  OBVIOUS
<1>2. PICK n : n = Len(trace) + 1
  OBVIOUS
<1>3. more[n] = e /\ n \in Nat /\ Len(trace) \in Nat
  BY <1>1, <1>2, AppendIs
<1>4. BufferAt(more, t) = BufferAt(trace, t) \cup {n}
  <2>1. BufferAt(more, t) = StoreBuffer(more, BufferAt(trace, t), n)
    BY <1>1, <1>2, OneMore
  <2>2. QED
    BY <1>3, <2>1 DEF StoreBuffer
<1>5. \A k \in BufferAt(trace, t) : more[k] = trace[k]
  BY <1>1, SameRecords
<1>6. \A p : InQueue(more, t, p) = InQueue(trace, t, p) \cup (IF p = q THEN {n} ELSE {})
  <2>1. \A p, k : k \in InQueue(more, t, p)
                    <=> k \in InQueue(trace, t, p) \/ (k = n /\ p = q)
    BY <1>3, <1>4, <1>5 DEF InQueue
  <2>2. QED
    BY <2>1
<1>7. \A k \in BufferAt(trace, t) : k < n
  BY <1>2, <1>3, BufferAtWrites
<1>8. ASSUME NEW p \in Queue PROVE Holds(more, InQueue(more, t, p), buffer2[t][p])
  <2>1. Holds(trace, InQueue(trace, t, p), buffer[t][p]) /\ buffer[t][p] \in Seq(Elem)
    BY DEF MirrorsOf, Buffers
  <2>2. \A k \in InQueue(trace, t, p) : more[k] = trace[k] /\ k < n
    BY <1>5, <1>7 DEF InQueue
  <2>3. Holds(more, InQueue(trace, t, p), buffer[t][p])
    BY <2>1, <2>2, HoldsSame
  <2>4. CASE p = q
    <3>1. Holds(more, InQueue(trace, t, p) \cup {n}, Append(buffer[t][p], s))
      BY <1>3, <2>1, <2>2, <2>3, HoldsAppend
    <3>2. QED
      BY <1>6, <2>4, <3>1
  <2>5. CASE p # q
    <3>1. InQueue(more, t, p) = InQueue(trace, t, p)
      BY <1>6, <2>5
    <3>2. QED
      BY <2>3, <2>5, <3>1
  <2>6. QED
    BY <2>4, <2>5
<1>9. QED
  BY <1>1, <1>8 DEF MirrorsOf

LEMMA MirrorsFlush ==
  ASSUME NEW trace \in Seq(RWRecord), NEW e \in RWRecord, NEW t \in Thread,
         NEW buffer \in Buffers, NEW buffer2, MirrorsOf(trace, buffer, t),
         NEW q \in Queue,
         buffer2[t][q] = IF buffer[t][q] = <<>> THEN <<>> ELSE Tail(buffer[t][q]),
         \A p \in Queue : p # q => buffer2[t][p] = buffer[t][p],
         BufferAt(Append(trace, e), t) = BufferAt(trace, t) \ Earliest(InQueue(trace, t, q))
  PROVE  MirrorsOf(Append(trace, e), buffer2, t)
<1>1. PICK more : more = Append(trace, e)
  OBVIOUS
<1>2. Earliest(InQueue(trace, t, q)) \subseteq InQueue(trace, t, q)
  BY DEF Earliest
<1>3. \A k \in BufferAt(trace, t) : more[k] = trace[k]
  BY <1>1, SameRecords
<1>4. \A p : InQueue(more, t, p) = InQueue(trace, t, p) \ Earliest(InQueue(trace, t, q))
  <2>1. \A p, k : k \in InQueue(more, t, p)
                    <=> k \in InQueue(trace, t, p) /\ k \notin Earliest(InQueue(trace, t, q))
    BY <1>1, <1>3 DEF InQueue
  <2>2. QED
    BY <2>1
<1>5. ASSUME NEW p \in Queue PROVE Holds(more, InQueue(more, t, p), buffer2[t][p])
  <2>1. Holds(trace, InQueue(trace, t, p), buffer[t][p]) /\ buffer[t][p] \in Seq(Elem)
    BY DEF MirrorsOf, Buffers
  <2>2. \A k \in InQueue(trace, t, p) : more[k] = trace[k]
    BY <1>3 DEF InQueue
  <2>3. Holds(more, InQueue(trace, t, p), buffer[t][p])
    BY <2>1, <2>2, HoldsSame
  <2>4. CASE p = q /\ buffer[t][p] # <<>>
    BY <1>4, <2>1, <2>3, <2>4, HoldsTail
  <2>5. CASE p = q /\ buffer[t][p] = <<>>
    <3>1. InQueue(trace, t, p) = {}
      BY <2>1, <2>5, HoldsNone
    <3>2. InQueue(more, t, p) = {}
      BY <1>4, <3>1
    <3>3. QED
      BY <2>5, <3>2, HoldsNone
  <2>6. CASE p # q
    <3>1. InQueue(more, t, p) = InQueue(trace, t, p)
      BY <1>2, <1>4, <2>6 DEF InQueue
    <3>2. QED
      BY <2>3, <2>6, <3>1
  <2>7. QED
    BY <2>4, <2>5, <2>6
<1>6. QED
  BY <1>1, <1>5 DEF MirrorsOf

-----------------------------------------------------------------------------
(* Plain programs: nothing lies on the stack, and the globals have a base  *)
(* address.                                                                *)

PlainState ==
  /\ Globals \subseteq heap
  /\ \A u \in Thread : \A k \in 1 .. Len(threadStacks[u]) : threadStacks[u][k].allocas = {}
  /\ \A f \in program : WMM = "TSO" => f.op = "membar_sl"

LEMMA PlainInstr ==
  ASSUME PlainPrograms, PlainState, IInv, NEW t \in Active
  PROVE  /\ t \in Thread /\ Instr(t) \in Instruction /\ Plain(Instr(t)) /\ Top(t).allocas = {}
         /\ \A a : ~ OnStack(t, a)
<1>1. /\ t \in Thread /\ Len(threadStacks[t]) \in Nat \ {0} /\ Top(t) \in Frame
      /\ Top(t).pc \in 1 .. Len(Code[program][Top(t).fn])
      /\ Instr(t) \in Instruction /\ program \in DOMAIN Code
  BY TopType DEF IInv, TypeOK
<1>2. Top(t).fn \in Fn
  BY <1>1 DEF Frame
<1>3. Plain(Instr(t))
  BY <1>1, <1>2 DEF PlainPrograms, PlainState, Instr
<1>4. Len(threadStacks[t]) \in 1 .. Len(threadStacks[t])
  BY <1>1
<1>5. Top(t).allocas = {}
  BY <1>1, <1>4 DEF PlainState, Top
<1>6. \A a : ~ OnStack(t, a)
  BY <1>1 DEF PlainState, OnStack
<1>7. QED
  BY <1>1, <1>3, <1>5, <1>6

LEMMA ExecutePlain ==
  ASSUME PlainPrograms, PlainState, HInv, NEW t \in Thread, Execute(t)
  PROVE  PlainState'
<1>1. IInv /\ t \in Active /\ threadStacks \in [Thread -> Seq(Frame)]
  BY ExecutesActive DEF HInv, IInv, TypeOK
<1>2. /\ Plain(Instr(t)) /\ Top(t).allocas = {}
      /\ Instr(t).op # "alloca" /\ Instr(t).op # "free"
  BY <1>1, PlainInstr DEF Plain
<1>3. program' = program
  BY OthersStay
<1>4. FramesFrom(t, threadStacks')
  BY <1>1, <1>2, FramesAfter
<1>5. ASSUME NEW u \in Thread, NEW k \in 1 .. Len(threadStacks'[u])
      PROVE  threadStacks'[u][k].allocas = {}
  <2>1. FrameFrom(t, u, k, threadStacks'[u][k])
    BY <1>4 DEF FramesFrom
  <2>2. QED
    BY <1>2, <2>1 DEF FrameFrom, Untouched, Moves, Entered, PlainState
<1>6. heap \subseteq heap'
  <2>1. ~ Free(t)
    BY <1>2 DEF Free, At
  <2>2. QED
    BY <2>1 DEF Execute, StoreToMemory, StoreToBuffer, LoadFromBuffer, LoadFromMemory, LoadFault,
       Membar_ss, Membar_sl, Cas32, Cas32Fault, CasPO, FasPO, Alloca, Malloc, FreeFault,
       SetValue, Branch, Call, Return, Spawn, JoinBlocked, Join, AssertExist
<1>7. QED
  BY <1>3, <1>5, <1>6 DEF PlainState

LEMMA NewRunPlain ==
  ASSUME NEW p, Restart(p), \A f \in p : WMM = "TSO" => f.op = "membar_sl"
  PROVE  PlainState'
<1>1. /\ program' = p /\ heap' = Globals
      /\ threadStacks' = [t \in Thread |-> IF t = 1 THEN <<NewFrame(Main, 0)>> ELSE <<>>]
  BY DEF Restart
<1>2. ASSUME NEW u \in Thread, NEW k \in 1 .. Len(threadStacks'[u])
      PROVE  threadStacks'[u][k].allocas = {}
  <2>1. PICK frame : frame = NewFrame(Main, 0)
    OBVIOUS
  <2>2. CASE u = 1
    <3>1. threadStacks'[u] = <<frame>> /\ Len(<<frame>>) = 1 /\ <<frame>>[1] = frame
      BY <1>1, <2>1, <2>2
    <3>2. k = 1
      BY <3>1
    <3>3. QED
      BY <2>1, <3>1, <3>2 DEF NewFrame
  <2>3. CASE u # 1
    <3>1. threadStacks'[u] = <<>> /\ Len(<<>>) = 0
      BY <1>1, <2>3
    <3>2. QED
      BY <3>1
  <2>4. QED
    BY <2>2, <2>3
<1>3. QED
  BY <1>1, <1>2 DEF PlainState

LEMMA StartedPlain ==
  ASSUME Started, program = {}
  PROVE  PlainState
<1>1. ASSUME NEW u \in Thread, NEW k \in 1 .. Len(threadStacks[u])
      PROVE  threadStacks[u][k].allocas = {}
  <2>1. PICK frame : frame = NewFrame(Main, 0)
    OBVIOUS
  <2>2. CASE u = 1
    <3>1. threadStacks[u] = <<frame>> /\ Len(<<frame>>) = 1 /\ <<frame>>[1] = frame
      BY <2>1, <2>2 DEF Started
    <3>2. k = 1
      BY <3>1
    <3>3. QED
      BY <2>1, <3>1, <3>2 DEF NewFrame
  <2>3. CASE u # 1
    <3>1. threadStacks[u] = <<>> /\ Len(<<>>) = 0
      BY <2>3 DEF Started
    <3>2. QED
      BY <3>1
  <2>4. QED
    BY <2>2, <2>3
<1>2. QED
  BY <1>1 DEF PlainState, Started

LEMMA SolvePlain ==
  ASSUME SInv, PlainState, SolveAndInsert
  PROVE  PlainState'
<1>1. DriverOK
  BY SInvParts
<1>2. PICK L \in Solutions(solver) : \E F \in Merge(L, solvedStores) : Restart(program \cup F)
  BY DEF SolveAndInsert
<1>3. PICK F \in Merge(L, solvedStores) : Restart(program \cup F)
  BY <1>2
<1>4. \A l \in L : Found(l, program)
  BY <1>1, SolutionsIn DEF DriverOK
<1>5. \A f \in F : WMM = "TSO" => f.op = "membar_sl"
  <2>1. ASSUME NEW f \in F, WMM = "TSO" PROVE f.op = "membar_sl"
    <3>1. PICK l \in L : f = [after |-> l.st, op |-> IF l.kind = "sl" THEN "membar_sl" ELSE "membar_ss"]
      BY MergeIs
    <3>2. l.kind = "sl"
      BY <1>4, <2>1 DEF Found, Literal
    <3>3. QED
      BY <3>1, <3>2
  <2>2. QED
    BY <2>1
<1>6. \A f \in program \cup F : WMM = "TSO" => f.op = "membar_sl"
  BY <1>5 DEF PlainState
<1>7. QED
  BY <1>3, <1>6, NewRunPlain

-----------------------------------------------------------------------------
(* What overtakes a store in the trace, and what does in the buffers.      *)

LEMMA UnflushedIs ==
  ASSUME NEW trace \in Seq(RWRecord), NEW n, AccessesIn(trace, n), NEW t \in Thread,
         thread_buffer \in Buffers, MirrorsOf(trace, thread_buffer, t), NEW loc, NEW label
  PROVE  (\E k \in BufferAt(trace, t) : trace[k].loc = loc /\ trace[k].label = label)
           <=> (\E e \in Unflushed(t) : e.addr = loc /\ e.label = label)
<1>1. ASSUME NEW k \in BufferAt(trace, t)
      PROVE  QueueOf(trace[k].loc) \in Queue
  <2>1. k \in 1 .. Len(trace) /\ trace[k].type = "WRITE"
    BY BufferAtWrites
  <2>2. trace[k].loc \in Addr
    BY <2>1 DEF AccessesIn
  <2>3. QED
    BY <2>2 DEF QueueOf, Queue
<1>2. ASSUME NEW q \in Queue
      PROVE  (\E k \in InQueue(trace, t, q) : trace[k].loc = loc /\ trace[k].label = label)
               <=> (\E e \in Range(thread_buffer[t][q]) : e.addr = loc /\ e.label = label)
  <2>1. Holds(trace, InQueue(trace, t, q), thread_buffer[t][q]) /\ thread_buffer[t][q] \in Seq(Elem)
    BY DEF MirrorsOf, Buffers
  <2>2. QED
    BY <2>1, HeldStores
<1>3. \A k \in BufferAt(trace, t) : \E q \in Queue : k \in InQueue(trace, t, q)
  BY <1>1 DEF InQueue
<1>4. \A q : \A k \in InQueue(trace, t, q) : k \in BufferAt(trace, t)
  BY DEF InQueue
<1>5. \A e : e \in Unflushed(t) <=> \E q \in Queue : e \in Range(thread_buffer[t][q])
  BY DEF Unflushed
<1>6. QED
  BY <1>2, <1>3, <1>4, <1>5

LEMMA LiteralsAreOvertakes ==
  ASSUME NEW trace \in Seq(RWRecord), NEW n, AccessesIn(trace, n), NEW t \in Thread,
         thread_buffer \in Buffers, MirrorsOf(trace, thread_buffer, t),
         NEW e \in RWRecord, e.loc = Instr(t).addr, e.label = Instr(t).label, e.label # 0,
         \/ e.type = "READ" /\ Instr(t).op = "load"
         \/ e.type = "WRITE" /\ Instr(t).op = "store",
         NEW l
  PROVE  l \in Literals(Append(trace, e), BufferAt(trace, t), Len(trace) + 1) <=> l \in Delays(t)
<1>1. PICK more, m, i : more = Append(trace, e) /\ m = Len(trace) + 1 /\ i = Instr(t)
  OBVIOUS
<1>2. PICK kind : kind = IF e.type = "READ" THEN "sl" ELSE "ss"
  OBVIOUS
<1>3. more[m] = e /\ \A k \in 1 .. Len(trace) : more[k] = trace[k]
  BY <1>1, AppendIs
<1>4. \A k \in BufferAt(trace, t) :
        /\ k \in 1 .. Len(trace) /\ more[k] = trace[k]
        /\ more[k].type = "WRITE" /\ more[k].label # 0
  BY <1>3, BufferAtWrites
<1>5. l \in Literals(more, BufferAt(trace, t), m)
        <=> \E k \in BufferAt(trace, t) : more[k].loc # more[m].loc /\ Finding(l, more[k], more[m])
  BY <1>4, LiteralsAre
<1>6. \A k \in BufferAt(trace, t) :
        Finding(l, more[k], e) <=> l = Lit(kind, trace[k], i) /\ (e.type = "WRITE" => WMM = "PSO")
  BY <1>1, <1>2, <1>4 DEF Finding, Lit
<1>7. l \in Literals(more, BufferAt(trace, t), m)
        <=> /\ e.type = "WRITE" => WMM = "PSO"
            /\ \E k \in BufferAt(trace, t) : trace[k].loc # i.addr /\ l = Lit(kind, trace[k], i)
  BY <1>1, <1>3, <1>4, <1>5, <1>6
<1>8. l \in Delays(t)
        <=> /\ e.type = "WRITE" => WMM = "PSO"
            /\ \E x \in Unflushed(t) : x.addr # i.addr /\ l = Lit(kind, x, i)
  <2>1. l \in Overtakes(t, i) <=> \E x \in Unflushed(t) : x.addr # i.addr /\ l = Lit(kind, x, i)
    BY <1>1, <1>2 DEF Overtakes
  <2>2. l \in Delays(t) <=> (e.type = "WRITE" => WMM = "PSO") /\ l \in Overtakes(t, i)
    BY <1>1 DEF Delays
  <2>3. QED
    BY <2>1, <2>2
<1>9. (\E k \in BufferAt(trace, t) : trace[k].loc # i.addr /\ l = Lit(kind, trace[k], i))
        <=> (\E x \in Unflushed(t) : x.addr # i.addr /\ l = Lit(kind, x, i))
  <2>1. ASSUME NEW k \in BufferAt(trace, t), trace[k].loc # i.addr, l = Lit(kind, trace[k], i)
        PROVE  \E x \in Unflushed(t) : x.addr # i.addr /\ l = Lit(kind, x, i)
    <3>1. PICK x \in Unflushed(t) : x.addr = trace[k].loc /\ x.label = trace[k].label
      BY UnflushedIs
    <3>2. QED
      BY <2>1, <3>1 DEF Lit
  <2>2. ASSUME NEW x \in Unflushed(t), x.addr # i.addr, l = Lit(kind, x, i)
        PROVE  \E k \in BufferAt(trace, t) : trace[k].loc # i.addr /\ l = Lit(kind, trace[k], i)
    <3>1. PICK k \in BufferAt(trace, t) : trace[k].loc = x.addr /\ trace[k].label = x.label
      BY UnflushedIs
    <3>2. QED
      BY <2>2, <3>1 DEF Lit
  <2>3. QED
    BY <2>1, <2>2
<1>10. QED
  BY <1>1, <1>7, <1>8, <1>9

-----------------------------------------------------------------------------
(* What an instruction of a plain program does to buffers and trace.       *)

Others(t) == \A u \in Thread : u # t => thread_buffer'[u] = thread_buffer[u]
Records(e) == e \in RWRecord /\ rwtrace_rec' = Append(rwtrace_rec, e)
Drained(t) == Others(t) /\ \A q \in Queue : thread_buffer'[t][q] = <<>>
Quiet(e) == e.label = 0 /\ e.type \notin {"READ", "WRITE", "SPAWN"}

Silent(t) ==
  thread_buffer' = thread_buffer /\ rwtrace_rec' = rwtrace_rec /\ Delays(t) = {}
Stores(t) ==
  \E e : /\ Records(e) /\ e.type = "WRITE" /\ e.thr = t /\ Instr(t).op = "store"
         /\ e.loc = Instr(t).addr /\ e.label = Instr(t).label /\ e.label # 0
         /\ Others(t)
         /\ \E s \in Elem : LET q == QueueOf(e.loc) IN
               /\ s.addr = e.loc /\ s.label = e.label
               /\ thread_buffer'[t][q] = Append(thread_buffer[t][q], s)
               /\ \A p \in Queue : p # q => thread_buffer'[t][p] = thread_buffer[t][p]
Loads(t) ==
  \E e : /\ Records(e) /\ e.type = "READ" /\ e.thr = t /\ Instr(t).op = "load"
         /\ e.loc = Instr(t).addr /\ e.label = Instr(t).label /\ e.label # 0
         /\ thread_buffer' = thread_buffer
Empties(t) == \E e : Records(e) /\ e.thr = t /\ Quiet(e) /\ Drained(t) /\ Delays(t) = {}
Swaps(t) ==
  \E e, f \in RWRecord :
     /\ rwtrace_rec' = Append(Append(rwtrace_rec, e), f)
     /\ e.thr = t /\ e.type = "WRITE" /\ e.label = 0 /\ e.loc \in Addr /\ f.thr = t /\ Quiet(f)
     /\ Drained(t) /\ Delays(t) = {}
Bounds(t) ==
  \E e : /\ Records(e) /\ e.thr = t /\ e.type \in {"SPAWN", "JOIN"}
         /\ thread_buffer' = thread_buffer /\ Delays(t) = {}

LEMMA EmptyIs ==
  ASSUME IInv, NEW t \in Thread, NEW Q, Empty(t, Q)
  PROVE  /\ Others(t)
         /\ \A q \in Queue : thread_buffer'[t][q] = IF q \in Q THEN <<>> ELSE thread_buffer[t][q]
         /\ Queue \subseteq Q => Drained(t)
         /\ Q = {} => thread_buffer' = thread_buffer
<1>1. thread_buffer \in [Thread -> [Queue -> Seq(Elem)]]
  BY DEF IInv, TypeOK
<1>2. thread_buffer' = [thread_buffer EXCEPT ![t] =
                         [q \in Queue |-> IF q \in Q THEN <<>> ELSE @[q]]]
  BY DEF Empty
<1>3. Others(t)
  BY <1>1, <1>2 DEF Others
<1>4. thread_buffer'[t] = [q \in Queue |-> IF q \in Q THEN <<>> ELSE thread_buffer[t][q]]
  BY <1>1, <1>2
<1>5. \A q \in Queue : thread_buffer'[t][q] = IF q \in Q THEN <<>> ELSE thread_buffer[t][q]
  BY <1>4
<1>6. Queue \subseteq Q => Drained(t)
  BY <1>3, <1>5 DEF Drained
<1>7. ASSUME Q = {} PROVE thread_buffer' = thread_buffer
  <2>1. thread_buffer'[t] = [q \in Queue |-> thread_buffer[t][q]]
    BY <1>4, <1>7
  <2>2. thread_buffer'[t] = thread_buffer[t]
    BY <1>1, <2>1
  <2>3. thread_buffer' = [thread_buffer EXCEPT ![t] = thread_buffer[t]]
    BY <1>1, <1>2, <2>2
  <2>4. QED
    BY <1>1, <2>3
<1>8. QED
  BY <1>3, <1>5, <1>6, <1>7

LEMMA RecordsOne ==
  ASSUME IInv, Len(rwtrace_rec) < RecordLimit, NEW t \in Thread, NEW type \in RWType,
         NEW loc \in Addr \cup {NoLoc}, NEW label \in Int,
         Record(<<RWEvent(type, t, loc, label)>>)
  PROVE  \E e : Records(e) /\ e.type = type /\ e.thr = t /\ e.loc = loc /\ e.label = label
<1>1. PICK e : e = RWEvent(type, t, loc, label)
  OBVIOUS
<1>2. e \in RWRecord
  BY <1>1, EventType
<1>3. rwtrace_rec' = Append(rwtrace_rec, e)
  BY <1>1, RecordIs
<1>4. QED
  BY <1>1, <1>2, <1>3 DEF Records, RWEvent

LEMMA StoreEffect ==
  ASSUME PlainPrograms, PlainState, IInv, NEW t \in Thread, StoreToBuffer(t),
         Len(rwtrace_rec) < RecordLimit
  PROVE  Stores(t)
<1> DEFINE i == Instr(t)
           s == [addr |-> i.addr, val |-> i.x, label |-> i.label]
           q == QueueOf(i.addr)
<1>1. t \in Active /\ i.op = "store"
  BY DEF StoreToBuffer, At
<1>2. i \in Instruction /\ i.label # 0
  BY <1>1, PlainInstr DEF Plain
<1>3. i.addr \in Addr /\ i.label \in Int /\ s \in Elem /\ q \in Queue
  BY <1>2 DEF Instruction, Elem, QueueOf, Queue
<1>4. thread_buffer \in [Thread -> [Queue -> Seq(Elem)]]
  BY DEF IInv, TypeOK
<1>5. thread_buffer' = [thread_buffer EXCEPT ![t][q] = Append(@, s)]
  BY DEF StoreToBuffer
<1>6. /\ Others(t)
      /\ thread_buffer'[t][q] = Append(thread_buffer[t][q], s)
      /\ \A p \in Queue : p # q => thread_buffer'[t][p] = thread_buffer[t][p]
  BY <1>3, <1>4, <1>5 DEF Others
<1>7. Record(<<RWEvent("WRITE", t, i.addr, i.label)>>)
  BY DEF StoreToBuffer
<1>8. "WRITE" \in RWType /\ i.addr \in Addr \cup {NoLoc}
  BY <1>3 DEF RWType
<1>9. s.addr = i.addr /\ s.label = i.label
  OBVIOUS
<1> HIDE DEF s, q
<1>10. PICK e : Records(e) /\ e.type = "WRITE" /\ e.thr = t /\ e.loc = i.addr /\ e.label = i.label
  BY <1>3, <1>7, <1>8, RecordsOne
<1>11. QED
  BY <1>1, <1>2, <1>3, <1>6, <1>9, <1>10 DEF Stores, q

LEMMA LoadEffect ==
  ASSUME PlainPrograms, PlainState, IInv, NEW t \in Thread, LoadFromBuffer(t) \/ LoadFromMemory(t),
         Len(rwtrace_rec) < RecordLimit
  PROVE  Loads(t)
<1> DEFINE i == Instr(t)
<1>1. t \in Active /\ i.op = "load"
  BY DEF LoadFromBuffer, LoadFromMemory, At
<1>2. i \in Instruction /\ i.label # 0 /\ ~ OnStack(t, i.addr)
  BY <1>1, PlainInstr DEF Plain
<1>3. i.addr \in Addr \cup {NoLoc} /\ i.label \in Int /\ "READ" \in RWType
  BY <1>2 DEF Instruction, RWType
<1>4. Record(<<RWEvent("READ", t, i.addr, i.label)>>)
  BY <1>2, SynthesisAssumption DEF LoadFromBuffer, LoadFromMemory
<1>5. thread_buffer' = thread_buffer
  BY DEF LoadFromBuffer, LoadFromMemory, buffers
<1>6. PICK e : Records(e) /\ e.type = "READ" /\ e.thr = t /\ e.loc = i.addr /\ e.label = i.label
  BY <1>3, <1>4, RecordsOne
<1>7. QED
  BY <1>1, <1>2, <1>5, <1>6 DEF Loads

LEMMA FenceEffect ==
  ASSUME PlainPrograms, PlainState, IInv, NEW t \in Thread,
         Membar_ss(t) \/ Membar_sl(t) \/ CasPO(t) \/ FasPO(t),
         Len(rwtrace_rec) < RecordLimit
  PROVE  Silent(t) \/ Empties(t)
<1>1. t \in Active /\ Instr(t).op \in {"membar_ss", "membar_sl", "caspo", "faspo"}
  BY DEF Membar_ss, Membar_sl, CasPO, FasPO, At
<1>2. Delays(t) = {}
  BY <1>1 DEF Delays
<1>3. Plain(Instr(t))
  BY <1>1, PlainInstr
<1>4. /\ SLQueues = Queue
      /\ WMM = "TSO" => FASQueues = Queue /\ ~ Membar_ss(t)
      /\ WMM # "TSO" => SSQueues = Queue /\ FASQueues = {}
  BY <1>3, SynthesisAssumption DEF SLQueues, SSQueues, FASQueues, Plain, Membar_ss, At
<1>5. CASE FasPO(t) /\ WMM # "TSO"
  <2>1. Record(<<>>) /\ Empty(t, {})
    BY <1>4, <1>5 DEF FasPO
  <2>2. QED
    BY <1>2, <2>1, RecordIs, EmptyIs DEF Silent
<1>6. CASE ~ (FasPO(t) /\ WMM # "TSO")
  <2>1. Empty(t, Queue)
    BY <1>4, <1>6 DEF Membar_ss, Membar_sl, CasPO, FasPO
  <2>2. Record(<<RWEvent("FLUSH_FENCE", t, NoLoc, 0)>>)
    BY <1>6 DEF Membar_ss, Membar_sl, CasPO, FasPO
  <2>3. "FLUSH_FENCE" \in RWType /\ NoLoc \in Addr \cup {NoLoc} /\ 0 \in Int
    BY DEF RWType
  <2>4. PICK e : Records(e) /\ e.type = "FLUSH_FENCE" /\ e.thr = t /\ e.label = 0
    BY <2>2, <2>3, RecordsOne
  <2>5. Drained(t)
    BY <2>1, EmptyIs
  <2>6. QED
    BY <1>2, <2>4, <2>5 DEF Empties, Quiet
<1>7. QED
  BY <1>5, <1>6

LEMMA CasEffect ==
  ASSUME PlainPrograms, PlainState, IInv, NEW t \in Thread, Cas32(t),
         Len(rwtrace_rec) < RecordLimit
  PROVE  Empties(t) \/ Swaps(t)
<1> DEFINE i == Instr(t)
<1>1. t \in Active /\ i.op = "cas32"
  BY DEF Cas32, At
<1>2. i \in Instruction /\ Plain(i)
  BY <1>1, PlainInstr
<1>3. WMM = "TSO" /\ Delays(t) = {}
  BY <1>1, <1>2, SynthesisAssumption DEF Plain, Delays
<1>4. CASQueues(i.addr) = Queue
  BY <1>3 DEF CASQueues, QueueOf, Queue
<1>5. Empty(t, Queue)
  BY <1>4 DEF Cas32
<1>6. Drained(t)
  BY <1>5, EmptyIs
<1>7. PICK success \in BOOLEAN : Record(CASRecords(t, i, success))
  BY DEF Cas32
<1>8. PICK w, f : w = RWEvent("WRITE", t, i.addr, 0) /\ f = RWEvent("FLUSH_CAS_TSO", t, NoLoc, 0)
  OBVIOUS
<1>9. w \in RWRecord /\ f \in RWRecord
  <2>1. i.addr \in Addr \cup {NoLoc} /\ NoLoc \in Addr \cup {NoLoc} /\ 0 \in Int
    BY <1>2 DEF Instruction
  <2>2. "WRITE" \in RWType /\ "FLUSH_CAS_TSO" \in RWType
    BY DEF RWType
  <2> HIDE DEF i
  <2>3. QED
    BY <1>8, <2>1, <2>2, EventType
<1>10. CASRecords(t, i, success) = IF success THEN <<w, f>> ELSE <<f>>
  <2>1. CASRecords(t, i, success) = (IF success THEN <<w>> ELSE <<>>) \o <<f>>
    BY <1>3, <1>8 DEF CASRecords
  <2>2. <<w>> \o <<f>> = <<w, f>> /\ <<>> \o <<f>> = <<f>>
    BY <1>9, PairIs
  <2>3. QED
    BY <2>1, <2>2
<1>11. /\ w.thr = t /\ w.type = "WRITE" /\ w.label = 0 /\ w.loc \in Addr
       /\ f.thr = t /\ Quiet(f)
  BY <1>2, <1>8 DEF RWEvent, Quiet, Instruction
<1> HIDE DEF i
<1>12. CASE success
  <2>1. rwtrace_rec' = Append(Append(rwtrace_rec, w), f)
    BY <1>7, <1>10, <1>12, RecordIs
  <2>2. QED
    BY <1>3, <1>6, <1>9, <1>11, <2>1 DEF Swaps
<1>13. CASE ~ success
  <2>1. rwtrace_rec' = Append(rwtrace_rec, f)
    BY <1>7, <1>10, <1>13, RecordIs
  <2>2. QED
    BY <1>3, <1>6, <1>9, <1>11, <2>1 DEF Empties, Records
<1>14. QED
  BY <1>12, <1>13

LEMMA BoundEffect ==
  ASSUME IInv, NEW t \in Thread, Spawn(t) \/ JoinBlocked(t) \/ Join(t),
         Len(rwtrace_rec) < RecordLimit
  PROVE  Bounds(t)
<1>1. Delays(t) = {} /\ thread_buffer' = thread_buffer
  BY DEF Spawn, JoinBlocked, Join, At, Delays, buffers
<1>2. \/ Record(<<RWEvent("SPAWN", t, NoLoc, 0)>>)
      \/ Record(<<RWEvent("JOIN", t, NoLoc, 0)>>)
  BY DEF Spawn, JoinBlocked, Join
<1>3. /\ "SPAWN" \in RWType /\ "JOIN" \in RWType
      /\ NoLoc \in Addr \cup {NoLoc} /\ 0 \in Int
  BY DEF RWType
<1>4. PICK e : Records(e) /\ e.thr = t /\ e.type \in {"SPAWN", "JOIN"}
  BY <1>2, <1>3, RecordsOne
<1>5. QED
  BY <1>1, <1>4 DEF Bounds

LEMMA ExecuteEffects ==
  ASSUME PlainPrograms, PlainState, IInv, NEW t \in Thread, Execute(t),
         Len(rwtrace_rec) < RecordLimit
  PROVE  Silent(t) \/ Stores(t) \/ Loads(t) \/ Empties(t) \/ Swaps(t) \/ Bounds(t)
<1>1. t \in Active
  BY ExecutesActive
<1>2. Plain(Instr(t)) /\ ~ OnStack(t, Instr(t).addr)
  BY <1>1, PlainInstr
<1>3. ~ StoreToMemory(t) /\ ~ Alloca(t) /\ ~ Free(t) /\ ~ FreeFault(t)
  BY <1>2, SynthesisAssumption DEF StoreToMemory, Alloca, Free, FreeFault, At, Plain
<1>4. ~ LoadFault(t) /\ ~ Cas32Fault(t)
  BY <1>2 DEF LoadFault, LoadFaults, Cas32Fault, At, Plain, PlainState
<1>5. CASE Malloc(t) \/ SetValue(t) \/ Branch(t) \/ Call(t) \/ Return(t) \/ AssertExist(t)
  <2>1. thread_buffer' = thread_buffer /\ rwtrace_rec' = rwtrace_rec
    BY <1>5 DEF Malloc, SetValue, Branch, Call, Return, AssertExist, buffers
  <2>2. Instr(t).op # "load" /\ Instr(t).op # "store"
    BY <1>5 DEF Malloc, SetValue, Branch, Call, Return, AssertExist, At
  <2>3. QED
    BY <2>1, <2>2 DEF Silent, Delays
<1>6. QED
  BY <1>3, <1>4, <1>5, StoreEffect, LoadEffect, FenceEffect, CasEffect, BoundEffect DEF Execute

-----------------------------------------------------------------------------
(* The literals of the trace are D, and up to the join the reconstructed   *)
(* buffers are the real ones.                                              *)

ToldIn(trace) ==
  /\ OneRegionIn(trace)
  /\ \A k \in 1 .. Len(trace) : trace[k].type \in {"READ", "WRITE"} => Between(trace, k)
Tells(trace, D) == \A l : l \in D <=> \E t \in Thread : l \in LitsAt(trace, t)
Matches(trace, buffer, D) == (~ JoinIn(trace) => Mirrors(trace, buffer)) /\ Tells(trace, D)

LEMMA ToldBefore ==
  ASSUME NEW trace \in Seq(RWRecord), NEW e \in RWRecord, ToldIn(Append(trace, e))
  PROVE  /\ ToldIn(trace)
         /\ e.type \in {"READ", "WRITE"} =>
              ~ JoinIn(trace) /\ \A t : e.thr = t => Counts(trace, e, t)
<1>1. PICK more, n : more = Append(trace, e) /\ n = Len(trace) + 1
  OBVIOUS
<1>2. /\ Len(trace) \in Nat /\ Len(more) = n /\ n \in Nat /\ more[n] = e
      /\ \A k \in 1 .. Len(trace) : more[k] = trace[k]
  BY <1>1, AppendIs
<1>3. OneRegionIn(trace) /\ OneRegionIn(more)
  BY <1>1, PrefixRegion DEF ToldIn
<1>4. ASSUME NEW k \in 1 .. Len(trace), trace[k].type \in {"READ", "WRITE"} PROVE Between(trace, k)
  <2>1. k \in 1 .. Len(more) /\ more[k] = trace[k]
    BY <1>1, <1>2
  <2>2. Between(more, k)
    BY <1>1, <1>4, <2>1 DEF ToldIn
  <2>3. QED
    BY <1>2, <2>2, SameBetween
<1>5. ASSUME e.type \in {"READ", "WRITE"}
      PROVE  ~ JoinIn(trace) /\ \A t : e.thr = t => Counts(trace, e, t)
  <2>1. n \in 1 .. Len(more)
    BY <1>1, <1>2
  <2>2. Between(more, n)
    BY <1>1, <1>2, <1>5, <2>1 DEF ToldIn
  <2>3. QED
    BY <1>1, <1>3, <2>2, NothingAfterJoin DEF Counts
<1>6. QED
  BY <1>3, <1>4, <1>5 DEF ToldIn

LEMMA SameTells ==
  ASSUME NEW trace \in Seq(RWRecord), NEW e \in RWRecord, NEW D, Tells(trace, D),
         e.type \notin {"READ", "WRITE"} \/ e.label = 0
  PROVE  Tells(Append(trace, e), D)
<1>1. Append(trace, e)[Len(trace) + 1] = e
  BY AppendIs
<1>2. ASSUME NEW t PROVE LitsAt(Append(trace, e), t) = LitsAt(trace, t)
  <2>1. Literals(Append(trace, e), BufferAt(trace, t), Len(trace) + 1) = {}
    BY <1>1, NoLiterals0
  <2>2. LitsAt(Append(trace, e), t) = LitsAt(trace, t) \cup
          (IF Counts(trace, e, t) THEN Literals(Append(trace, e), BufferAt(trace, t), Len(trace) + 1)
                                  ELSE {})
    BY OneMore
  <2>3. QED
    BY <2>1, <2>2
<1>3. QED
  BY <1>2 DEF Tells

(* An access tells what it overtakes.                                      *)
LEMMA AccessTells ==
  ASSUME NEW D, Tells(rwtrace_rec, D), NEW n, AccessesIn(rwtrace_rec, n), NEW t \in Thread,
         rwtrace_rec \in Seq(RWRecord), thread_buffer \in Buffers,
         MirrorsOf(rwtrace_rec, thread_buffer, t),
         NEW e \in RWRecord, e.loc = Instr(t).addr, e.label = Instr(t).label, e.label # 0,
         \/ e.type = "READ" /\ Instr(t).op = "load"
         \/ e.type = "WRITE" /\ Instr(t).op = "store",
         e.thr = t, Counts(rwtrace_rec, e, t)
  PROVE  Tells(Append(rwtrace_rec, e), D \cup Delays(t))
<1>1. PICK more, m : more = Append(rwtrace_rec, e) /\ m = Len(rwtrace_rec) + 1
  OBVIOUS
<1>2. \A l : l \in Literals(more, BufferAt(rwtrace_rec, t), m) <=> l \in Delays(t)
  BY <1>1, LiteralsAreOvertakes
<1>3. \A l : l \in LitsAt(more, t) <=> l \in LitsAt(rwtrace_rec, t) \/ l \in Delays(t)
  <2>1. LitsAt(more, t) = LitsAt(rwtrace_rec, t) \cup Literals(more, BufferAt(rwtrace_rec, t), m)
    BY <1>1, OneMore
  <2>2. QED
    BY <1>2, <2>1
<1>4. ASSUME NEW u, u # t PROVE LitsAt(more, u) = LitsAt(rwtrace_rec, u)
  <2>1. ~ Counts(rwtrace_rec, e, u)
    BY <1>4 DEF Counts
  <2>2. LitsAt(more, u) = LitsAt(rwtrace_rec, u) \cup
          (IF Counts(rwtrace_rec, e, u) THEN Literals(more, BufferAt(rwtrace_rec, u), m) ELSE {})
    BY <1>1, OneMore
  <2>3. QED
    BY <2>1, <2>2
<1>5. QED
  BY <1>1, <1>3, <1>4 DEF Tells

(* Threads whose records do not change: all but that of e.                 *)
LEMMA OthersMirror ==
  ASSUME NEW trace \in Seq(RWRecord), NEW e \in RWRecord, NEW t, e.thr = t,
         NEW buffer, NEW buffer2,
         \A u \in Thread : u # t => MirrorsOf(trace, buffer, u) /\ buffer2[u] = buffer[u]
  PROVE  \A u \in Thread : u # t => MirrorsOf(Append(trace, e), buffer2, u)
<1>1. ASSUME NEW u \in Thread, u # t PROVE MirrorsOf(Append(trace, e), buffer2, u)
  <2>1. ~ Counts(trace, e, u)
    BY <1>1 DEF Counts
  <2>2. QED
    BY <1>1, <2>1, MirrorsOthers
<1>2. QED
  BY <1>1

Telling(n) ==
  /\ rwtrace_rec \in Seq(RWRecord) /\ thread_buffer \in Buffers
  /\ AccessesIn(rwtrace_rec, n)

LEMMA StoresMatch ==
  ASSUME NEW n, Telling(n), NEW D, Matches(rwtrace_rec, thread_buffer, D), NEW t \in Thread,
         Stores(t), ToldIn(rwtrace_rec')
  PROVE  Matches(rwtrace_rec', thread_buffer', D \cup Delays(t))
<1>1. PICK e : /\ Records(e) /\ e.type = "WRITE" /\ e.thr = t /\ Instr(t).op = "store"
               /\ e.loc = Instr(t).addr /\ e.label = Instr(t).label /\ e.label # 0
               /\ Others(t)
               /\ \E s \in Elem : LET q == QueueOf(e.loc) IN
                     /\ s.addr = e.loc /\ s.label = e.label
                     /\ thread_buffer'[t][q] = Append(thread_buffer[t][q], s)
                     /\ \A p \in Queue : p # q => thread_buffer'[t][p] = thread_buffer[t][p]
  BY DEF Stores
<1>2. PICK q, s : /\ s \in Elem /\ s.addr = e.loc /\ s.label = e.label /\ q = QueueOf(e.loc)
                  /\ thread_buffer'[t][q] = Append(thread_buffer[t][q], s)
                  /\ \A p \in Queue : p # q => thread_buffer'[t][p] = thread_buffer[t][p]
  BY <1>1
<1>3. e \in RWRecord /\ rwtrace_rec' = Append(rwtrace_rec, e) /\ rwtrace_rec \in Seq(RWRecord)
  BY <1>1 DEF Records, Telling
<1>4. ~ JoinIn(rwtrace_rec) /\ Counts(rwtrace_rec, e, t)
  BY <1>1, <1>3, ToldBefore
<1>5. \A u \in Thread : MirrorsOf(rwtrace_rec, thread_buffer, u)
  BY <1>4 DEF Matches, Mirrors
<1>6. q \in Queue
  BY <1>2 DEF Elem, QueueOf, Queue
<1>7. MirrorsOf(rwtrace_rec', thread_buffer', t)
  BY <1>1, <1>2, <1>3, <1>4, <1>5, <1>6, MirrorsStore DEF Telling
<1>8. \A u \in Thread : u # t => MirrorsOf(rwtrace_rec', thread_buffer', u)
  BY <1>1, <1>3, <1>5, OthersMirror DEF Others
<1>9. Tells(rwtrace_rec', D \cup Delays(t))
  BY <1>1, <1>3, <1>4, <1>5, AccessTells DEF Telling, Matches
<1>10. QED
  BY <1>7, <1>8, <1>9 DEF Matches, Mirrors

LEMMA LoadsMatch ==
  ASSUME NEW n, Telling(n), NEW D, Matches(rwtrace_rec, thread_buffer, D), NEW t \in Thread,
         Loads(t), ToldIn(rwtrace_rec')
  PROVE  Matches(rwtrace_rec', thread_buffer', D \cup Delays(t))
<1>1. PICK e : /\ Records(e) /\ e.type = "READ" /\ e.thr = t /\ Instr(t).op = "load"
               /\ e.loc = Instr(t).addr /\ e.label = Instr(t).label /\ e.label # 0
               /\ thread_buffer' = thread_buffer
  BY DEF Loads
<1>2. e \in RWRecord /\ rwtrace_rec' = Append(rwtrace_rec, e) /\ rwtrace_rec \in Seq(RWRecord)
  BY <1>1 DEF Records, Telling
<1>3. ~ JoinIn(rwtrace_rec) /\ Counts(rwtrace_rec, e, t)
  BY <1>1, <1>2, ToldBefore
<1>4. \A u \in Thread : MirrorsOf(rwtrace_rec, thread_buffer, u)
  BY <1>3 DEF Matches, Mirrors
<1>5. MirrorsOf(rwtrace_rec', thread_buffer', t)
  <2>1. Append(rwtrace_rec, e)[Len(rwtrace_rec) + 1] = e
    BY <1>2, AppendIs
  <2>2. BufferAt(Append(rwtrace_rec, e), t)
          = StoreBuffer(Append(rwtrace_rec, e), BufferAt(rwtrace_rec, t), Len(rwtrace_rec) + 1)
    BY <1>2, <1>3, OneMore
  <2>3. BufferAt(Append(rwtrace_rec, e), t) = BufferAt(rwtrace_rec, t)
    BY <1>1, <2>1, <2>2 DEF StoreBuffer
  <2>4. QED
    BY <1>1, <1>2, <1>4, <2>3, MirrorsSame
<1>6. \A u \in Thread : u # t => MirrorsOf(rwtrace_rec', thread_buffer', u)
  <2>1. ASSUME NEW u \in Thread, u # t PROVE MirrorsOf(rwtrace_rec', thread_buffer', u)
    <3>1. ~ Counts(rwtrace_rec, e, u) /\ thread_buffer'[u] = thread_buffer[u]
      BY <1>1, <2>1 DEF Counts
    <3>2. MirrorsOf(Append(rwtrace_rec, e), thread_buffer', u)
      BY <1>2, <1>4, <3>1, MirrorsOthers
    <3>3. QED
      BY <1>2, <3>2
  <2>2. QED
    BY <2>1
<1>7. Tells(rwtrace_rec', D \cup Delays(t))
  BY <1>1, <1>2, <1>3, <1>4, AccessTells DEF Telling, Matches
<1>8. QED
  BY <1>5, <1>6, <1>7 DEF Matches, Mirrors

LEMMA DrainsMatch ==
  ASSUME NEW n, Telling(n), NEW D, Matches(rwtrace_rec, thread_buffer, D), NEW t \in Thread,
         Empties(t)
  PROVE  Matches(rwtrace_rec', thread_buffer', D)
<1>1. PICK e : Records(e) /\ e.thr = t /\ Quiet(e) /\ Drained(t)
  BY DEF Empties
<1>2. e \in RWRecord /\ rwtrace_rec' = Append(rwtrace_rec, e) /\ rwtrace_rec \in Seq(RWRecord)
  BY <1>1 DEF Records, Telling
<1>3. Tells(rwtrace_rec', D)
  BY <1>1, <1>2, SameTells DEF Quiet, Matches
<1>4. ASSUME ~ JoinIn(rwtrace_rec') PROVE Mirrors(rwtrace_rec', thread_buffer')
  <2>1. \A u \in Thread : MirrorsOf(rwtrace_rec, thread_buffer, u)
    BY <1>2, <1>4, PrefixRegion DEF Matches, Mirrors
  <2>2. \A u \in Thread : u # t => MirrorsOf(rwtrace_rec', thread_buffer', u)
    BY <1>1, <1>2, <2>1, OthersMirror DEF Drained, Others
  <2>3. MirrorsOf(rwtrace_rec', thread_buffer', t)
    BY <1>1, <1>2, <1>4, MirrorsFence DEF Drained, Quiet
  <2>4. QED
    BY <2>2, <2>3 DEF Mirrors
<1>5. QED
  BY <1>3, <1>4 DEF Matches

LEMMA SwapsMatch ==
  ASSUME NEW n, Telling(n), NEW D, Matches(rwtrace_rec, thread_buffer, D), NEW t \in Thread,
         Swaps(t)
  PROVE  Matches(rwtrace_rec', thread_buffer', D)
<1>1. PICK e, f \in RWRecord :
         /\ rwtrace_rec' = Append(Append(rwtrace_rec, e), f)
         /\ e.thr = t /\ e.label = 0 /\ f.thr = t /\ Quiet(f) /\ Drained(t)
  BY DEF Swaps
<1>2. PICK one : one = Append(rwtrace_rec, e)
  OBVIOUS
<1>3. rwtrace_rec \in Seq(RWRecord) /\ one \in Seq(RWRecord) /\ rwtrace_rec' = Append(one, f)
  BY <1>1, <1>2, AppendIs DEF Telling
<1>4. Tells(rwtrace_rec', D)
  <2>1. Tells(one, D)
    BY <1>1, <1>2, <1>3, SameTells DEF Matches
  <2>2. QED
    BY <1>1, <1>3, <2>1, SameTells DEF Quiet
<1>5. ASSUME ~ JoinIn(rwtrace_rec') PROVE Mirrors(rwtrace_rec', thread_buffer')
  <2>1. ~ JoinIn(one) /\ ~ JoinIn(rwtrace_rec)
    BY <1>2, <1>3, <1>5, PrefixRegion
  <2>2. \A u \in Thread : u # t => thread_buffer'[u] = thread_buffer[u]
    BY <1>1 DEF Drained, Others
  <2>3. \A u \in Thread : MirrorsOf(rwtrace_rec, thread_buffer, u)
    BY <2>1 DEF Matches, Mirrors
  <2>4. \A u \in Thread : u # t => MirrorsOf(one, thread_buffer', u)
    BY <1>1, <1>2, <1>3, <2>2, <2>3, OthersMirror
  <2>5. \A u \in Thread : u # t => MirrorsOf(rwtrace_rec', thread_buffer', u)
    BY <1>1, <1>3, <2>4, OthersMirror
  <2>6. MirrorsOf(rwtrace_rec', thread_buffer', t)
    BY <1>1, <1>3, <1>5, MirrorsFence DEF Drained, Quiet
  <2>7. QED
    BY <2>5, <2>6 DEF Mirrors
<1>6. QED
  BY <1>4, <1>5 DEF Matches

LEMMA BoundsMatch ==
  ASSUME NEW n, Telling(n), NEW D, Matches(rwtrace_rec, thread_buffer, D), NEW t \in Thread,
         Bounds(t)
  PROVE  Matches(rwtrace_rec', thread_buffer', D)
<1>1. PICK e : /\ Records(e) /\ e.thr = t /\ e.type \in {"SPAWN", "JOIN"}
               /\ thread_buffer' = thread_buffer
  BY DEF Bounds
<1>2. e \in RWRecord /\ rwtrace_rec' = Append(rwtrace_rec, e) /\ rwtrace_rec \in Seq(RWRecord)
  BY <1>1 DEF Records, Telling
<1>3. Tells(rwtrace_rec', D)
  BY <1>1, <1>2, SameTells DEF Matches
<1>4. ASSUME ~ JoinIn(rwtrace_rec') PROVE Mirrors(rwtrace_rec', thread_buffer')
  <2>1. \A u \in Thread : MirrorsOf(rwtrace_rec, thread_buffer, u)
    BY <1>2, <1>4, PrefixRegion DEF Matches, Mirrors
  <2>2. \A u : ~ Counts(rwtrace_rec, e, u)
    BY <1>1, <1>2, SpawnsDoNotCount DEF Counts
  <2>3. ASSUME NEW u \in Thread PROVE MirrorsOf(rwtrace_rec', thread_buffer', u)
    BY <1>1, <1>2, <2>1, <2>2, MirrorsOthers
  <2>4. QED
    BY <2>3 DEF Mirrors
<1>5. QED
  BY <1>3, <1>4 DEF Matches

-----------------------------------------------------------------------------
(* Flushes the scheduler draws.                                            *)

Flushes(t) ==
  \E e : \E q \in Queue :
     /\ Records(e) /\ e.thr = currThread /\ e.label = -1
     /\ \/ WMM = "TSO" /\ e.type = "FLUSH_RANDOM_TSO"
        \/ WMM = "PSO" /\ e.type = "FLUSH_RANDOM_PSO" /\ e.loc = q
     /\ Others(t)
     /\ thread_buffer'[t][q] = IF thread_buffer[t][q] = <<>> THEN <<>> ELSE Tail(thread_buffer[t][q])
     /\ \A p \in Queue : p # q => thread_buffer'[t][p] = thread_buffer[t][p]

LEMMA FlushedQueue ==
  ASSUME IInv, NEW t \in Thread, NEW q \in Queue, FlushOne(t, q)
  PROVE  /\ Others(t)
         /\ thread_buffer'[t][q] = Tail(thread_buffer[t][q])
         /\ \A p \in Queue : p # q => thread_buffer'[t][p] = thread_buffer[t][p]
<1>1. thread_buffer \in [Thread -> [Queue -> Seq(Elem)]]
  BY DEF IInv, TypeOK
<1>2. thread_buffer' = [thread_buffer EXCEPT ![t][q] = Tail(@)]
  BY DEF FlushOne
<1>3. QED
  BY <1>1, <1>2 DEF Others

LEMMA FlushEffect ==
  ASSUME IInv, NEW t \in Thread, RandomFlush(t), Len(rwtrace_rec) < RecordLimit
  PROVE  Flushes(t)
<1>1. currThread \in Thread /\ -1 \in Int /\ NoLoc \in Addr \cup {NoLoc}
  BY DEF IInv, TypeOK
<1>2. "FLUSH_RANDOM_TSO" \in RWType /\ "FLUSH_RANDOM_PSO" \in RWType
  BY DEF RWType
<1>3. CASE RandomFlushTSO(t)
  <2>1. WMM = "TSO" /\ Fifo \in Queue
    BY <1>3 DEF RandomFlushTSO, Queue
  <2>2. Record(<<RWEvent("FLUSH_RANDOM_TSO", currThread, NoLoc, -1)>>)
    BY <1>3 DEF RandomFlushTSO
  <2>3. PICK e : Records(e) /\ e.type = "FLUSH_RANDOM_TSO" /\ e.thr = currThread /\ e.label = -1
    BY <1>1, <1>2, <2>2, RecordsOne
  <2>4. /\ Others(t)
        /\ thread_buffer'[t][Fifo] = IF thread_buffer[t][Fifo] = <<>> THEN <<>>
                                     ELSE Tail(thread_buffer[t][Fifo])
        /\ \A p \in Queue : p # Fifo => thread_buffer'[t][p] = thread_buffer[t][p]
    <3>1. CASE thread_buffer[t][Fifo] = <<>>
      <4>1. thread_buffer' = thread_buffer
        BY <1>3, <3>1 DEF RandomFlushTSO
      <4>2. QED
        BY <3>1, <4>1 DEF Others
    <3>2. CASE thread_buffer[t][Fifo] # <<>>
      <4>1. FlushOne(t, Fifo)
        BY <1>3, <3>2 DEF RandomFlushTSO
      <4>2. QED
        BY <2>1, <3>2, <4>1, FlushedQueue
    <3>3. QED
      BY <3>1, <3>2
  <2>5. QED
    BY <2>1, <2>3, <2>4 DEF Flushes
<1>4. CASE \E q \in Queue : RandomFlushPSO(t, q)
  <2>1. PICK q \in Queue : RandomFlushPSO(t, q)
    BY <1>4
  <2>2. WMM = "PSO" /\ q \in Addr \cup {NoLoc} /\ thread_buffer[t][q] # <<>>
    BY <2>1 DEF RandomFlushPSO, Queue
  <2>3. Record(<<RWEvent("FLUSH_RANDOM_PSO", currThread, q, -1)>>)
    BY <2>1 DEF RandomFlushPSO
  <2>4. PICK e : /\ Records(e) /\ e.type = "FLUSH_RANDOM_PSO" /\ e.thr = currThread
                 /\ e.loc = q /\ e.label = -1
    <3>1. PICK type, label : type = "FLUSH_RANDOM_PSO" /\ label = -1
      OBVIOUS
    <3>2. type \in RWType /\ label \in Int /\ Record(<<RWEvent(type, currThread, q, label)>>)
      BY <1>1, <1>2, <2>3, <3>1
    <3>3. \E e : Records(e) /\ e.type = type /\ e.thr = currThread /\ e.loc = q /\ e.label = label
      BY <1>1, <2>2, <3>2, RecordsOne
    <3>4. QED
      BY <3>1, <3>3
  <2>5. FlushOne(t, q)
    BY <2>1 DEF RandomFlushPSO
  <2>6. /\ Others(t) /\ thread_buffer'[t][q] = Tail(thread_buffer[t][q])
        /\ \A p \in Queue : p # q => thread_buffer'[t][p] = thread_buffer[t][p]
    BY <2>5, FlushedQueue
  <2>7. QED
    BY <2>2, <2>4, <2>6 DEF Flushes
<1>5. QED
  BY <1>3, <1>4 DEF RandomFlush

(* A flush record that counts takes the earliest store of its queue.       *)
LEMMA FlushTakes ==
  ASSUME NEW trace \in Seq(RWRecord), NEW e \in RWRecord, NEW t, NEW q \in Queue,
         Counts(trace, e, t), e.label = -1,
         \/ WMM = "TSO" /\ e.type = "FLUSH_RANDOM_TSO"
         \/ WMM = "PSO" /\ e.type = "FLUSH_RANDOM_PSO" /\ e.loc = q
  PROVE  BufferAt(Append(trace, e), t) = BufferAt(trace, t) \ Earliest(InQueue(trace, t, q))
<1>1. PICK more, n, b : more = Append(trace, e) /\ n = Len(trace) + 1 /\ b = BufferAt(trace, t)
  OBVIOUS
<1>2. more[n] = e
  BY <1>1, AppendIs
<1>3. BufferAt(more, t) = StoreBuffer(more, b, n)
  BY <1>1, OneMore
<1>4. \A k \in b : more[k] = trace[k]
  BY <1>1, SameRecords
<1>5. CASE WMM = "TSO" /\ e.type = "FLUSH_RANDOM_TSO"
  <2>1. StoreBuffer(more, b, n) = b \ Earliest(b)
    BY <1>2, <1>5 DEF StoreBuffer
  <2>2. InQueue(trace, t, q) = b
    BY <1>1, <1>5 DEF InQueue, QueueOf, Queue
  <2>3. QED
    BY <1>1, <1>3, <2>1, <2>2
<1>6. CASE WMM = "PSO" /\ e.type = "FLUSH_RANDOM_PSO" /\ e.loc = q
  <2>1. StoreBuffer(more, b, n) = b \ Earliest(To(more, b, q))
    BY <1>2, <1>6 DEF StoreBuffer
  <2>2. \A k : k \in InQueue(trace, t, q) <=> k \in To(more, b, q)
    BY <1>1, <1>4, <1>6 DEF InQueue, To, QueueOf
  <2>3. InQueue(trace, t, q) = To(more, b, q)
    BY <2>2 DEF InQueue, To
  <2>4. QED
    BY <1>1, <1>3, <2>1, <2>3
<1>7. QED
  BY <1>5, <1>6

LEMMA FlushesMatch ==
  ASSUME NEW n, Telling(n), NEW D, Matches(rwtrace_rec, thread_buffer, D), NEW t \in Thread,
         Flushes(t), t = currThread
  PROVE  Matches(rwtrace_rec', thread_buffer', D)
<1>1. PICK e, q : /\ q \in Queue
                  /\ Records(e) /\ e.thr = t /\ e.label = -1
                  /\ \/ WMM = "TSO" /\ e.type = "FLUSH_RANDOM_TSO"
                     \/ WMM = "PSO" /\ e.type = "FLUSH_RANDOM_PSO" /\ e.loc = q
                  /\ Others(t)
                  /\ thread_buffer'[t][q] = IF thread_buffer[t][q] = <<>> THEN <<>>
                                            ELSE Tail(thread_buffer[t][q])
                  /\ \A p \in Queue : p # q => thread_buffer'[t][p] = thread_buffer[t][p]
  BY DEF Flushes
<1>2. /\ e \in RWRecord /\ rwtrace_rec' = Append(rwtrace_rec, e) /\ rwtrace_rec \in Seq(RWRecord)
      /\ thread_buffer \in Buffers
  BY <1>1 DEF Records, Telling
<1>3. e.type \notin {"READ", "WRITE", "SPAWN", "JOIN"}
  BY <1>1
<1>4. Tells(rwtrace_rec', D)
  BY <1>2, <1>3, SameTells DEF Matches
<1>5. ASSUME ~ JoinIn(rwtrace_rec') PROVE Mirrors(rwtrace_rec', thread_buffer')
  <2>1. \A u \in Thread : MirrorsOf(rwtrace_rec, thread_buffer, u)
    BY <1>2, <1>5, PrefixRegion DEF Matches, Mirrors
  <2>2. \A u \in Thread : u # t => MirrorsOf(rwtrace_rec', thread_buffer', u)
    BY <1>1, <1>2, <2>1, OthersMirror DEF Others
  <2>3. MirrorsOf(rwtrace_rec', thread_buffer', t)
    <3>1. CASE Counts(rwtrace_rec, e, t)
      <4>0. /\ q \in Queue /\ e.label = -1
            /\ \/ WMM = "TSO" /\ e.type = "FLUSH_RANDOM_TSO"
               \/ WMM = "PSO" /\ e.type = "FLUSH_RANDOM_PSO" /\ e.loc = q
        BY <1>1
      <4>1. BufferAt(Append(rwtrace_rec, e), t)
              = BufferAt(rwtrace_rec, t) \ Earliest(InQueue(rwtrace_rec, t, q))
        BY <1>2, <3>1, <4>0, FlushTakes
      <4>2. QED
        BY <1>1, <1>2, <2>1, <4>1, MirrorsFlush
    <3>2. CASE ~ Counts(rwtrace_rec, e, t)
      <4>1. ~ Between(Append(rwtrace_rec, e), Len(rwtrace_rec) + 1)
        BY <1>1, <3>2 DEF Counts
      <4>2. BufferAt(rwtrace_rec, t) = {}
        BY <1>2, <1>3, <1>5, <4>1, NothingYet
      <4>3. \A p \in Queue : thread_buffer[t][p] = <<>>
        BY <1>2, <2>1, <4>2, EmptyMirror
      <4>4. \A p \in Queue : thread_buffer'[t][p] = <<>>
        BY <1>1, <4>3
      <4>5. BufferAt(rwtrace_rec', t) = {}
        BY <1>2, <3>2, <4>2, OneMore
      <4>6. QED
        BY <4>4, <4>5, MirrorsEmpty
    <3>3. QED
      BY <3>1, <3>2
  <2>4. QED
    BY <2>2, <2>3 DEF Mirrors
<1>6. QED
  BY <1>4, <1>5 DEF Matches

-----------------------------------------------------------------------------
(* The locations and threads of accesses.                                  *)

LEMMA ThreadsBelow ==
  ASSUME NEW n \in Nat, NEW m \in Nat, n <= m
  PROVE  \A r \in RWRecord : r.thr < n => r.thr < m
<1>1. \A k \in Nat : k < n => k < m
  OBVIOUS
<1>2. \A r \in RWRecord : r.thr \in Thread
  BY DEF RWRecord
<1>3. Thread \subseteq Nat
  BY ThreadAssumption
<1>4. QED
  BY <1>1, <1>2, <1>3

LEMMA AccessesGrow ==
  ASSUME NEW trace \in Seq(RWRecord), NEW e \in RWRecord, NEW n \in Nat, NEW m \in Nat, n <= m,
         AccessesIn(trace, n),
         e.type \in {"READ", "WRITE"} => e.loc \in Addr /\ e.thr < n
  PROVE  AccessesIn(Append(trace, e), m)
<1>1. PICK more : more = Append(trace, e)
  OBVIOUS
<1>2. /\ Len(trace) \in Nat /\ Len(more) = Len(trace) + 1 /\ more[Len(trace) + 1] = e
      /\ \A k \in 1 .. Len(trace) : more[k] = trace[k]
  BY <1>1, AppendIs
<1>3. \A r \in RWRecord : r.thr < n => r.thr < m
  BY ThreadsBelow
<1>4. ASSUME NEW k \in 1 .. Len(more), more[k].type \in {"READ", "WRITE"}
      PROVE  more[k].loc \in Addr /\ more[k].thr < m
  <2>1. CASE k = Len(trace) + 1
    BY <1>2, <1>3, <1>4, <2>1
  <2>2. CASE k \in 1 .. Len(trace)
    <3>1. trace[k] \in RWRecord
      BY <2>2, ElementOfSeq
    <3>2. trace[k].loc \in Addr /\ trace[k].thr < n
      BY <1>2, <1>4, <2>2 DEF AccessesIn
    <3>3. QED
      BY <1>2, <1>3, <2>2, <3>1, <3>2
  <2>3. QED
    BY <1>2, <2>1, <2>2
<1>5. QED
  BY <1>1, <1>4 DEF AccessesIn

LEMMA SameAccesses ==
  ASSUME NEW trace \in Seq(RWRecord), NEW n \in Nat, NEW m \in Nat, n <= m, AccessesIn(trace, n)
  PROVE  AccessesIn(trace, m)
<1>1. \A r \in RWRecord : r.thr < n => r.thr < m
  BY ThreadsBelow
<1>2. \A k \in 1 .. Len(trace) : trace[k] \in RWRecord
  BY ElementOfSeq
<1>3. QED
  BY <1>1, <1>2 DEF AccessesIn

LEMMA NumbersGrow ==
  ASSUME IInv, NEW t \in Thread, Execute(t)
  PROVE  nextThreadNum \in Nat /\ nextThreadNum' \in Nat /\ nextThreadNum <= nextThreadNum'
<1>1. nextThreadNum \in Nat
  BY DEF IInv, TypeOK
<1>2. nextThreadNum' = nextThreadNum \/ nextThreadNum' = nextThreadNum + 1
  BY DEF Execute, StoreToMemory, StoreToBuffer, LoadFromBuffer, LoadFromMemory, LoadFault,
     Membar_ss, Membar_sl, Cas32, Cas32Fault, CasPO, FasPO, Alloca, Malloc, Free, FreeFault,
     SetValue, Branch, Call, Return, Spawn, JoinBlocked, Join, AssertExist
<1>3. QED
  BY <1>1, <1>2

LEMMA EffectAccesses ==
  ASSUME PlainPrograms, PlainState, HInv, AccessesIn(rwtrace_rec, nextThreadNum),
         NEW t \in Thread, Execute(t), Len(rwtrace_rec) < RecordLimit
  PROVE  AccessesIn(rwtrace_rec, nextThreadNum)'
<1>1. IInv /\ t \in Active /\ rwtrace_rec \in Seq(RWRecord)
  BY ExecutesActive DEF HInv, IInv, TypeOK
<1>2. t < nextThreadNum
  BY <1>1 DEF HInv, Numbers, Active
<1>3. nextThreadNum \in Nat /\ nextThreadNum' \in Nat /\ nextThreadNum <= nextThreadNum'
  BY <1>1, NumbersGrow
<1>4. Instr(t).addr \in Addr
  BY <1>1, PlainInstr DEF Instruction
<1>5. Silent(t) \/ Stores(t) \/ Loads(t) \/ Empties(t) \/ Swaps(t) \/ Bounds(t)
  BY <1>1, ExecuteEffects
<1>6. CASE Silent(t)
  <2>1. rwtrace_rec' = rwtrace_rec
    BY <1>6 DEF Silent
  <2>2. AccessesIn(rwtrace_rec, nextThreadNum')
    BY <1>1, <1>3, SameAccesses
  <2>3. QED
    BY <2>1, <2>2 DEF AccessesIn
<1>7. CASE Stores(t) \/ Loads(t) \/ Empties(t) \/ Bounds(t)
  <2>1. PICK e \in RWRecord :
           /\ rwtrace_rec' = Append(rwtrace_rec, e)
           /\ e.type \in {"READ", "WRITE"} => e.loc \in Addr /\ e.thr < nextThreadNum
    BY <1>2, <1>4, <1>7 DEF Stores, Loads, Empties, Bounds, Records, Quiet
  <2>2. AccessesIn(Append(rwtrace_rec, e), nextThreadNum')
    BY <1>1, <1>3, <2>1, AccessesGrow
  <2>3. QED
    BY <2>1, <2>2 DEF AccessesIn
<1>8. CASE Swaps(t)
  <2>1. PICK e, f \in RWRecord :
           /\ rwtrace_rec' = Append(Append(rwtrace_rec, e), f)
           /\ e.loc \in Addr /\ e.thr < nextThreadNum /\ f.type \notin {"READ", "WRITE"}
    BY <1>2, <1>8 DEF Swaps, Quiet
  <2>2. PICK one : one = Append(rwtrace_rec, e)
    OBVIOUS
  <2>3. one \in Seq(RWRecord) /\ nextThreadNum <= nextThreadNum
    BY <1>1, <1>3, <2>2, AppendIs
  <2>4. AccessesIn(one, nextThreadNum)
    BY <1>1, <1>3, <2>1, <2>2, <2>3, AccessesGrow
  <2>5. AccessesIn(Append(one, f), nextThreadNum')
    BY <1>3, <2>1, <2>3, <2>4, AccessesGrow
  <2>6. QED
    BY <2>1, <2>2, <2>5 DEF AccessesIn
<1>9. QED
  BY <1>5, <1>6, <1>7, <1>8

-----------------------------------------------------------------------------
(* The invariant: literals and delays agree as long as the trace tells the *)
(* whole story.                                                            *)

DInv ==
  /\ PlainState
  /\ AccessesIn(rwtrace_rec, nextThreadNum)
  /\ aligned /\ ToldIn(rwtrace_rec) => Matches(rwtrace_rec, thread_buffer, delays)

LEMMA ToldStep ==
  ASSUME IInv, NEW t \in Thread,
         Silent(t) \/ Stores(t) \/ Loads(t) \/ Empties(t) \/ Swaps(t) \/ Bounds(t) \/ Flushes(t),
         ToldIn(rwtrace_rec')
  PROVE  ToldIn(rwtrace_rec)
<1>1. rwtrace_rec \in Seq(RWRecord)
  BY DEF IInv, TypeOK
<1>2. CASE Silent(t)
  BY <1>2 DEF Silent
<1>3. CASE Swaps(t)
  <2>1. PICK e, f \in RWRecord : rwtrace_rec' = Append(Append(rwtrace_rec, e), f)
    BY <1>3 DEF Swaps
  <2>2. PICK one : one = Append(rwtrace_rec, e)
    OBVIOUS
  <2>3. one \in Seq(RWRecord) /\ ToldIn(Append(one, f))
    BY <1>1, <2>1, <2>2, AppendIs
  <2>4. ToldIn(one)
    BY <2>3, ToldBefore
  <2>5. QED
    BY <1>1, <2>2, <2>4, ToldBefore
<1>4. CASE Stores(t) \/ Loads(t) \/ Empties(t) \/ Bounds(t) \/ Flushes(t)
  <2>1. PICK e \in RWRecord : rwtrace_rec' = Append(rwtrace_rec, e)
    BY <1>4 DEF Stores, Loads, Empties, Bounds, Flushes, Records
  <2>2. QED
    BY <1>1, <2>1, ToldBefore
<1>5. QED
  BY <1>2, <1>3, <1>4

LEMMA ExecuteTold ==
  ASSUME PlainPrograms, HInv, DInv, NEW t \in Thread, Execute(t),
         Len(rwtrace_rec) < RecordLimit, delays' = delays \cup Delays(t), aligned' = aligned
  PROVE  DInv'
<1>1. /\ IInv /\ PlainState /\ Telling(nextThreadNum)
      /\ AccessesIn(rwtrace_rec, nextThreadNum)
  BY DEF HInv, DInv, IInv, TypeOK, Telling, Buffers
<1>2. PlainState' /\ AccessesIn(rwtrace_rec, nextThreadNum)'
  BY <1>1, ExecutePlain, EffectAccesses
<1>3. Silent(t) \/ Stores(t) \/ Loads(t) \/ Empties(t) \/ Swaps(t) \/ Bounds(t)
  BY <1>1, ExecuteEffects
<1>4. ASSUME aligned', ToldIn(rwtrace_rec')
      PROVE  Matches(rwtrace_rec', thread_buffer', delays')
  <2>1. Matches(rwtrace_rec, thread_buffer, delays)
    BY <1>1, <1>3, <1>4, ToldStep DEF DInv
  <2>2. CASE Stores(t)
    BY <1>1, <1>4, <2>1, <2>2, StoresMatch
  <2>3. CASE Loads(t)
    BY <1>1, <1>4, <2>1, <2>3, LoadsMatch
  <2>4. CASE Silent(t) \/ Empties(t) \/ Swaps(t) \/ Bounds(t)
    <3>1. delays' = delays
      BY <2>4 DEF Silent, Empties, Swaps, Bounds
    <3>2. CASE Silent(t)
      BY <2>1, <3>1, <3>2 DEF Silent
    <3>3. CASE Empties(t)
      BY <1>1, <2>1, <3>1, <3>3, DrainsMatch
    <3>4. CASE Swaps(t)
      BY <1>1, <2>1, <3>1, <3>4, SwapsMatch
    <3>5. CASE Bounds(t)
      BY <1>1, <2>1, <3>1, <3>5, BoundsMatch
    <3>6. QED
      BY <2>4, <3>2, <3>3, <3>4, <3>5
  <2>5. QED
    BY <1>3, <2>2, <2>3, <2>4
<1>5. (aligned /\ ToldIn(rwtrace_rec) => Matches(rwtrace_rec, thread_buffer, delays))'
  BY <1>4 DEF ToldIn, OneRegionIn, Between, Boundaries, Matches, Mirrors, MirrorsOf, JoinIn, Tells
<1>6. QED
  BY <1>2, <1>5 DEF DInv

LEMMA FlushTold ==
  ASSUME HInv, DInv, NEW t \in Thread, RandomFlush(t), Len(rwtrace_rec) < RecordLimit,
         aligned' = (aligned /\ t = currThread), delays' = delays
  PROVE  DInv'
<1>1. IInv /\ Telling(nextThreadNum) /\ nextThreadNum \in Nat /\ rwtrace_rec \in Seq(RWRecord)
  BY DEF HInv, DInv, IInv, TypeOK, Telling, Buffers
<1>2. Flushes(t)
  BY <1>1, FlushEffect
<1>3. UNCHANGED <<program, threadStacks, heap, nextThreadNum>>
  BY DEF RandomFlush, RandomFlushTSO, RandomFlushPSO
<1>4. PlainState'
  BY <1>3 DEF DInv, PlainState
<1>5. AccessesIn(rwtrace_rec, nextThreadNum)'
  <2>1. PICK e \in RWRecord : /\ rwtrace_rec' = Append(rwtrace_rec, e)
                              /\ e.type \notin {"READ", "WRITE"}
    BY <1>2 DEF Flushes, Records
  <2>2. nextThreadNum <= nextThreadNum
    BY <1>1
  <2>3. AccessesIn(Append(rwtrace_rec, e), nextThreadNum)
    BY <1>1, <2>1, <2>2, AccessesGrow DEF Telling
  <2>4. QED
    BY <1>3, <2>1, <2>3 DEF AccessesIn
<1>6. ASSUME aligned', ToldIn(rwtrace_rec')
      PROVE  Matches(rwtrace_rec', thread_buffer', delays')
  <2>1. aligned /\ t = currThread /\ ToldIn(rwtrace_rec)
    BY <1>1, <1>2, <1>6, ToldStep
  <2>2. Matches(rwtrace_rec, thread_buffer, delays)
    BY <2>1 DEF DInv
  <2>3. Matches(rwtrace_rec', thread_buffer', delays)
    BY <1>1, <1>2, <2>1, <2>2, FlushesMatch
  <2>4. QED
    BY <2>3
<1>7. (aligned /\ ToldIn(rwtrace_rec) => Matches(rwtrace_rec, thread_buffer, delays))'
  BY <1>6 DEF ToldIn, OneRegionIn, Between, Boundaries, Matches, Mirrors, MirrorsOf, JoinIn, Tells
<1>8. QED
  BY <1>4, <1>5, <1>7 DEF DInv

LEMMA EmptyTells ==
  ASSUME NEW buffer, \A t \in Thread : \A q \in Queue : buffer[t][q] = <<>>, NEW n
  PROVE  Matches(<<>>, buffer, {}) /\ AccessesIn(<<>>, n)
<1>1. Len(<<>>) = 0
  BY EmptySeq
<1>2. AccessesIn(<<>>, n)
  BY <1>1 DEF AccessesIn
<1>3. Mirrors(<<>>, buffer)
  BY NothingRecorded, MirrorsEmpty DEF Mirrors
<1>4. Tells(<<>>, {})
  BY NothingRecorded DEF Tells
<1>5. QED
  BY <1>2, <1>3, <1>4 DEF Matches

LEMMA SInitTold ==
  ASSUME SInit
  PROVE  DInv
<1>1. PlainState
  BY StartedPlain DEF SInit
<1>2. rwtrace_rec = <<>> /\ delays = {} /\ \A t \in Thread : \A q \in Queue : thread_buffer[t][q] = <<>>
  BY DEF SInit, Started
<1>3. QED
  BY <1>1, <1>2, EmptyTells DEF DInv

LEMMA RestartTold ==
  ASSUME NEW p, Restart(p), PlainState'
  PROVE  DInv'
<1>1. PICK trace, D : trace = rwtrace_rec' /\ D = delays'
  OBVIOUS
<1>2. /\ trace = <<>> /\ D = {}
      /\ thread_buffer' = [t \in Thread |-> [q \in Queue |-> <<>>]]
  BY <1>1 DEF Restart
<1>3. \A t \in Thread : \A q \in Queue : thread_buffer'[t][q] = <<>>
  BY <1>2
<1>4. Matches(rwtrace_rec', thread_buffer', delays') /\ AccessesIn(rwtrace_rec', nextThreadNum')
  BY <1>1, <1>2, <1>3, EmptyTells
<1>5. Matches(rwtrace_rec, thread_buffer, delays)' /\ AccessesIn(rwtrace_rec, nextThreadNum)'
  BY <1>4 DEF AccessesIn, Matches, Mirrors, MirrorsOf, JoinIn, Tells
<1>6. QED
  BY <1>5 DEF DInv

LEMMA SameTold ==
  ASSUME DInv, UNCHANGED <<program, threadStacks, heap, nextThreadNum, rwtrace_rec, thread_buffer,
                           delays, aligned>>
  PROVE  DInv'
<1>1. PlainState' <=> PlainState
  BY DEF PlainState
<1>2. QED
  BY <1>1 DEF DInv, ToldIn, OneRegionIn, Between, Boundaries, Matches, Mirrors, MirrorsOf, JoinIn,
     Tells, AccessesIn

LEMMA DInvStep ==
  ASSUME PlainPrograms, SInv, DInv, [SNext]_svars
  PROVE  DInv'
<1>1. HInv /\ PlainState
  BY SInvParts DEF DInv
<1>2. CASE UNCHANGED <<vars, ghosts>>
  <2>1. UNCHANGED <<program, threadStacks, heap, nextThreadNum, rwtrace_rec, thread_buffer,
                    delays, aligned>>
    BY <1>2 DEF vars, ghosts
  <2>2. QED
    BY <2>1, SameTold
<1>3. CASE Restart(program)
  <2>1. PlainState'
    BY <1>1, <1>3, NewRunPlain DEF PlainState
  <2>2. QED
    BY <1>3, <2>1, RestartTold
<1>4. CASE UNCHANGED svars
  BY <1>2, <1>4 DEF svars
<1>5. CASE SNext
  <2>1. Property' = Property
    BY <1>5 DEF SNext
  <2>2. CASE Runs
    <3>1. CASE Finish /\ UNCHANGED ghosts
      <4>1. UNCHANGED <<program, threadStacks, heap, nextThreadNum, rwtrace_rec, thread_buffer,
                        delays, aligned>>
        BY <3>1 DEF Finish, buffers, ghosts
      <4>2. QED
        BY <4>1, SameTold
    <3>2. ASSUME NEW t \in Thread, Execute(t), Len(rwtrace_rec) < RecordLimit,
                 delays' = delays \cup Delays(t), aligned' = aligned
          PROVE  DInv'
      BY <1>1, <3>2, ExecuteTold
    <3>3. ASSUME NEW t \in Thread, RandomFlush(t), Len(rwtrace_rec) < RecordLimit,
                 aligned' = (aligned /\ t = currThread), delays' = delays
          PROVE  DInv'
      BY <1>1, <3>3, FlushTold
    <3>4. QED
      BY <2>2, <3>1, <3>2, <3>3 DEF Runs
  <2>3. ASSUME NEW rejected,
               \/ GoodTrace(rejected) \/ BuggyTrace(rejected)
               \/ AssertFails(rejected) \/ NoLiterals(rejected)
        PROVE  DInv'
    <3>1. Restart(program) \/ UNCHANGED <<vars, ghosts>>
      BY <2>3 DEF GoodTrace, BuggyTrace, AssertFails, NoLiterals, Counted, Exits
    <3>2. QED
      BY <1>2, <1>3, <3>1
  <2>4. CASE StaleTrace \/ Converged
    <3>1. Restart(program) \/ UNCHANGED <<vars, ghosts>>
      BY <2>4 DEF StaleTrace, Converged, Counted, Exits
    <3>2. QED
      BY <1>2, <1>3, <3>1
  <2>5. CASE SolveAndInsert
    <3>1. PlainState'
      BY <1>1, <2>5, SolvePlain
    <3>2. PICK p : Restart(p)
      BY <2>5 DEF SolveAndInsert
    <3>3. QED
      BY <3>1, <3>2, RestartTold
  <2>6. QED
    BY <1>5, <2>2, <2>3, <2>4, <2>5 DEF SNext
<1>6. QED
  BY <1>4, <1>5

LEMMA DelaysTold ==
  ASSUME SInv, DInv
  PROVE  LiteralsAreDelays
<1>1. rwtrace_rec \in Seq(RWRecord) /\ nextThreadNum \in Nat
  BY SInvParts DEF HInv, IInv, TypeOK
<1>2. SUFFICES ASSUME Told PROVE Calculate(rwtrace_rec, Made) = delays
  BY DEF LiteralsAreDelays
<1>3. DOMAIN rwtrace_rec = 1 .. Len(rwtrace_rec)
  BY <1>1, LenProperties
<1>4. aligned /\ ToldIn(rwtrace_rec)
  BY <1>2, <1>3 DEF Told, ToldIn, OneRegion, OneRegionIn
<1>5. Tells(rwtrace_rec, delays) /\ AccessesIn(rwtrace_rec, nextThreadNum)
  BY <1>4 DEF DInv, Matches
<1>6. ASSUME NEW t, NEW l \in LitsAt(rwtrace_rec, t)
      PROVE  t \in Thread /\ t \in Made
  <2>1. PICK k, n \in 1 .. Len(rwtrace_rec) :
           /\ rwtrace_rec[k].thr = t /\ rwtrace_rec[k] \in RWRecord
           /\ Finding(l, rwtrace_rec[k], rwtrace_rec[n])
    BY <1>1, LitsAtAre
  <2>2. t \in Thread
    BY <2>1 DEF RWRecord
  <2>3. t < nextThreadNum
    BY <1>5, <2>1 DEF AccessesIn, Finding
  <2>4. t \in Nat \ {0}
    BY <2>2, ThreadAssumption
  <2>5. QED
    BY <1>1, <2>2, <2>3, <2>4 DEF Made
<1>7. \A l : l \in Calculate(rwtrace_rec, Made) <=> l \in delays
  BY <1>5, <1>6, CalculateIs DEF Tells
<1>8. QED
  BY <1>7 DEF Calculate

(***************************************************************************)
(* Whatever the plain program, the schedule and the fences put in so far:  *)
(* when the trace of a run tells the whole story, the literals that        *)
(* Calculate finds in it are the delays of the run, no fewer and no more.  *)
(* Up to the join, each queue of a thread holds the stores at the          *)
(* positions GenerateClauses keeps for it, in their order.                 *)
(***************************************************************************)
THEOREM TracesTellDelays == PlainPrograms => (SSpec => []LiteralsAreDelays)
<1>1. SUFFICES ASSUME PlainPrograms PROVE SSpec => []LiteralsAreDelays
  OBVIOUS
<1>2. SInit => SInv /\ DInv
  BY SInitInv, SInitTold
<1>3. SInv /\ DInv /\ [SNext]_svars => SInv' /\ DInv'
  BY <1>1, SInvStep, DInvStep
<1>4. SInv /\ DInv => LiteralsAreDelays
  BY DelaysTold
<1>5. QED
  BY <1>2, <1>3, <1>4, PTL DEF SSpec

-----------------------------------------------------------------------------
(* What the buffers really hold of stores that have their fence: such a    *)
(* store is buffered only while its thread is at the fence.                *)

Draining(t) == AtFence(t) /\ \E f \in program : Instr(t).op = f.op
FencesOK == \A f \in program : f.after # 0 /\ (WMM = "TSO" => f.op = "membar_sl")
HeldBack ==
  \A t \in Thread, q \in Queue : \A k \in 1 .. Len(thread_buffer[t][q]) :
     thread_buffer[t][q][k].label \in FencedLabels => Draining(t)
BInv == FencesOK /\ HeldBack /\ FencedStoresAreNotOvertaken

(* The fence of a store drains every queue.                                *)
LEMMA FenceDrains ==
  ASSUME IInv, FencesOK, NEW t \in Thread, Draining(t), Execute(t)
  PROVE  \A q \in Queue : thread_buffer'[t][q] = <<>>
<1>1. Membar_ss(t) \/ Membar_sl(t)
  <2>1. Instr(t).op \in FenceOps /\ \A op : At(t, op) => Instr(t).op = op
    BY DEF Draining, AtFence, At
  <2>2. ~ (\/ StoreToMemory(t) \/ StoreToBuffer(t) \/ LoadFromBuffer(t) \/ LoadFromMemory(t)
           \/ LoadFault(t) \/ Cas32(t) \/ Cas32Fault(t) \/ CasPO(t) \/ FasPO(t))
    BY <2>1 DEF FenceOps, StoreToMemory, StoreToBuffer, LoadFromBuffer, LoadFromMemory, LoadFault,
       Cas32, Cas32Fault, CasPO, FasPO
  <2>3. ~ (\/ Alloca(t) \/ Malloc(t) \/ Free(t) \/ FreeFault(t) \/ SetValue(t) \/ Branch(t)
           \/ Call(t) \/ Return(t) \/ Spawn(t) \/ JoinBlocked(t) \/ Join(t) \/ AssertExist(t))
    BY <2>1 DEF FenceOps, Alloca, Malloc, Free, FreeFault, SetValue, Branch, Call, Return, Spawn,
       JoinBlocked, Join, AssertExist
  <2>4. QED
    BY <2>2, <2>3 DEF Execute
<1>2. Membar_ss(t) => WMM # "TSO"
  BY DEF Draining, FencesOK, Membar_ss, At
<1>3. SLQueues = Queue /\ (WMM # "TSO" => SSQueues = Queue)
  BY SynthesisAssumption DEF SLQueues, SSQueues
<1>4. Empty(t, Queue)
  BY <1>1, <1>2, <1>3 DEF Membar_ss, Membar_sl
<1>5. QED
  BY <1>4, EmptyIs DEF Drained

(* What is buffered of fenced stores, when program and stacks stay.        *)
LEMMA SameDraining ==
  ASSUME UNCHANGED program, NEW t \in Thread, threadStacks'[t] = threadStacks[t], Draining(t)
  PROVE  Draining(t)'
<1>1. threadStacks'[t] # <<>>
  BY DEF Draining, AtFence, Active
<1>2. Instr(t)' = Instr(t)
  BY DEF Instr, Top, Code
<1>3. (t \in Active)'
  BY <1>1 DEF Active
<1>4. QED
  BY <1>2, <1>3 DEF Draining, AtFence, FenceOps

LEMMA ExecuteHeld ==
  ASSUME HInv, FencesOK, HeldBack, NEW t \in Thread, Execute(t)
  PROVE  HeldBack'
<1>1. IInv /\ t \in Active /\ Buffering(t)
  BY ExecutesActive, BuffersFrom DEF HInv
<1>2. program' = program /\ FencedLabels' = FencedLabels
  BY OthersStay DEF FencedLabels
<1>3. ASSUME NEW u \in Thread, u # t, NEW q \in Queue, NEW k \in 1 .. Len(thread_buffer'[u][q]),
             thread_buffer'[u][q][k].label \in FencedLabels
      PROVE  Draining(u)'
  <2>1. thread_buffer'[u] = thread_buffer[u]
    BY <1>1, <1>3 DEF Buffering
  <2>2. Draining(u)
    BY <1>3, <2>1 DEF HeldBack
  <2>3. threadStacks'[u] = threadStacks[u]
    BY <1>3, <2>2, OthersStay DEF Draining, AtFence
  <2>4. QED
    BY <1>2, <2>2, <2>3, SameDraining
<1>4. ASSUME NEW q \in Queue, NEW k \in 1 .. Len(thread_buffer'[t][q]),
             thread_buffer'[t][q][k].label \in FencedLabels
      PROVE  Draining(t)'
  <2>1. CASE \E l \in 1 .. Len(thread_buffer[t][q]) : thread_buffer'[t][q][k] = thread_buffer[t][q][l]
    <3>1. Draining(t)
      BY <1>4, <2>1 DEF HeldBack
    <3>2. thread_buffer'[t][q] = <<>> /\ Len(<<>>) = 0
      BY <1>1, <3>1, FenceDrains
    <3>3. QED
      BY <1>4, <3>2
  <2>2. CASE Instr(t).op = "store" /\ thread_buffer'[t][q][k].label = Instr(t).label
    <3>1. PICK fence \in program : fence.after = Instr(t).label
      BY <1>4, <2>2 DEF FencedLabels
    <3>2. Instr(t).label # 0
      BY <3>1 DEF FencesOK
    <3>3. Skip(t)
      <4>1. Instr(t).op = "store" /\ \A op : At(t, op) => Instr(t).op = op
        BY <2>2 DEF At
      <4>2. StoreToMemory(t) \/ StoreToBuffer(t)
        BY <4>1 DEF Execute, LoadFromBuffer, LoadFromMemory, LoadFault, Membar_ss, Membar_sl, Cas32,
           Cas32Fault, CasPO, FasPO, Alloca, Malloc, Free, FreeFault, SetValue, Branch, Call, Return,
           Spawn, JoinBlocked, Join, AssertExist
      <4>3. QED
        BY <4>2 DEF StoreToMemory, StoreToBuffer
    <3>4. Advances(t)
      <4>1. Top(t).acc \in Val
        BY <1>1, TopType DEF Frame
      <4>2. QED
        BY <3>3, <4>1 DEF Skip, Advances
    <3>5. AtFence(t)' /\ \E f \in program : Instr(t)'.op = f.op
      BY <1>1, <1>2, <2>2, <3>1, <3>2, <3>4, FenceIsNext
    <3>6. QED
      BY <1>2, <3>5 DEF Draining
  <2>3. QED
    BY <1>1, <2>1, <2>2 DEF Buffering
<1>5. ASSUME NEW u \in Thread, NEW q \in Queue, NEW k \in 1 .. Len(thread_buffer'[u][q]),
             thread_buffer'[u][q][k].label \in FencedLabels
      PROVE  Draining(u)'
  <2>1. CASE u = t
    BY <1>4, <1>5, <2>1
  <2>2. CASE u # t
    BY <1>3, <1>5, <2>2
  <2>3. QED
    BY <2>1, <2>2
<1>6. QED
  BY <1>2, <1>5 DEF HeldBack, Queue

LEMMA FlushHeld ==
  ASSUME IInv, HeldBack, NEW t \in Thread, RandomFlush(t)
  PROVE  HeldBack'
<1>1. program' = program /\ threadStacks' = threadStacks /\ FencedLabels' = FencedLabels
  BY FlushedOf DEF FencedLabels
<1>2. \A u \in Thread : Draining(u) => Draining(u)'
  BY <1>1, SameDraining
<1>3. ASSUME NEW u \in Thread, NEW q \in Queue, NEW k \in 1 .. Len(thread_buffer'[u][q])
      PROVE  \E l \in 1 .. Len(thread_buffer[u][q]) : thread_buffer'[u][q][k] = thread_buffer[u][q][l]
  <2>1. CASE thread_buffer' = thread_buffer
    BY <1>3, <2>1
  <2>2. ASSUME NEW r \in Queue, thread_buffer[t][r] # <<>>, FlushOne(t, r)
        PROVE  \E l \in 1 .. Len(thread_buffer[u][q]) : thread_buffer'[u][q][k] = thread_buffer[u][q][l]
    <3>1. /\ u # t => thread_buffer'[u] = thread_buffer[u]
          /\ \A s \in Queue : \A j \in 1 .. Len(thread_buffer'[t][s]) :
                \E l \in 1 .. Len(thread_buffer[t][s]) :
                   thread_buffer'[t][s][j] = thread_buffer[t][s][l]
      BY <2>2, BufferFlush
    <3>2. CASE u = t
      BY <1>3, <3>1, <3>2
    <3>3. CASE u # t
      <4>1. thread_buffer'[u][q] = thread_buffer[u][q]
        BY <3>1, <3>3
      <4>2. QED
        BY <1>3, <4>1
    <3>4. QED
      BY <3>2, <3>3
  <2>3. QED
    BY <2>1, <2>2, FlushedOf
<1>4. ASSUME NEW u \in Thread, NEW q \in Queue, NEW k \in 1 .. Len(thread_buffer'[u][q]),
             thread_buffer'[u][q][k].label \in FencedLabels
      PROVE  Draining(u)'
  <2>1. PICK l \in 1 .. Len(thread_buffer[u][q]) : thread_buffer'[u][q][k] = thread_buffer[u][q][l]
    BY <1>3
  <2>2. Draining(u)
    BY <1>4, <2>1 DEF HeldBack
  <2>3. QED
    BY <1>2, <2>2
<1>5. QED
  BY <1>1, <1>4 DEF HeldBack, Queue

(* Loads and stores are not at a fence.                                    *)
LEMMA DelaysOfOthers ==
  ASSUME IInv, HeldBack, NEW t \in Thread
  PROVE  \A l \in Delays(t) : l.st \notin FencedLabels
<1>1. SUFFICES ASSUME NEW l \in Delays(t), l.st \in FencedLabels PROVE FALSE
  OBVIOUS
<1>2. Instr(t).op \in {"load", "store"} /\ l \in Overtakes(t, Instr(t))
  BY <1>1 DEF Delays
<1>3. PICK e \in Unflushed(t) : l.st = e.label
  BY <1>2 DEF Overtakes, Lit
<1>4. PICK q \in Queue : e \in Range(thread_buffer[t][q])
  BY DEF Unflushed
<1>5. PICK k \in 1 .. Len(thread_buffer[t][q]) : thread_buffer[t][q][k] = e
  BY <1>4, QueueType DEF Range, IInv
<1>6. Draining(t)
  BY <1>1, <1>3, <1>5 DEF HeldBack
<1>7. QED
  BY <1>2, <1>6 DEF Draining, AtFence, FenceOps

(* What becomes of the run at a step of the synthesis.                     *)
LEMMA StepCases ==
  ASSUME [SNext]_svars
  PROVE  \/ Runs
         \/ Restart(program) /\ total_traces' = total_traces + 1
         \/ SolveAndInsert
         \/ UNCHANGED <<vars, ghosts>>
<1>1. CASE UNCHANGED svars
  BY <1>1 DEF svars
<1>2. CASE SNext
  <2>1. ASSUME NEW rejected,
               \/ GoodTrace(rejected) \/ BuggyTrace(rejected)
               \/ AssertFails(rejected) \/ NoLiterals(rejected)
        PROVE  (Restart(program) /\ total_traces' = total_traces + 1) \/ UNCHANGED <<vars, ghosts>>
    BY <2>1 DEF GoodTrace, BuggyTrace, AssertFails, NoLiterals, Counted, Exits
  <2>2. CASE StaleTrace \/ Converged
    BY <2>2 DEF StaleTrace, Converged, Counted, Exits
  <2>3. QED
    BY <1>2, <2>1, <2>2 DEF SNext
<1>3. QED
  BY <1>1, <1>2

(* A new run: nothing is buffered, nothing was overtaken.                  *)
LEMMA RestartHeld ==
  ASSUME NEW p, Restart(p), FencesOK'
  PROVE  BInv'
<1>1. thread_buffer' = [t \in Thread |-> [q \in Queue |-> <<>>]] /\ delays' = {}
  BY DEF Restart
<1>2. ASSUME NEW u \in Thread, NEW q \in Queue, NEW k \in 1 .. Len(thread_buffer'[u][q])
      PROVE  FALSE
  <2>1. thread_buffer'[u][q] = <<>> /\ Len(<<>>) = 0
    BY <1>1, EmptySeq
  <2>2. QED
    BY <1>2, <2>1
<1>3. HeldBack'
  BY <1>2 DEF HeldBack, Queue
<1>4. FencedStoresAreNotOvertaken'
  BY <1>1 DEF FencedStoresAreNotOvertaken
<1>5. QED
  BY <1>3, <1>4 DEF BInv

LEMMA SInitHeld ==
  ASSUME SInit
  PROVE  BInv
<1>1. FencesOK /\ FencedStoresAreNotOvertaken
  BY DEF SInit, FencesOK, FencedStoresAreNotOvertaken
<1>2. ASSUME NEW u \in Thread, NEW q \in Queue, NEW k \in 1 .. Len(thread_buffer[u][q])
      PROVE  FALSE
  <2>1. thread_buffer[u][q] = <<>> /\ Len(<<>>) = 0
    BY EmptySeq DEF SInit, Started
  <2>2. QED
    BY <1>2, <2>1
<1>3. QED
  BY <1>1, <1>2 DEF BInv, HeldBack

(* Merge makes membar_sl of a literal for a load, and under TSO no literal *)
(* is for another instruction.                                             *)
LEMMA SolveHeld ==
  ASSUME SInv, FencesOK, SolveAndInsert
  PROVE  BInv'
<1>1. DriverOK
  BY SInvParts
<1>2. PICK L \in Solutions(solver) : \E F \in Merge(L, solvedStores) : Restart(program \cup F)
  BY DEF SolveAndInsert
<1>3. PICK F \in Merge(L, solvedStores) : Restart(program \cup F)
  BY <1>2
<1>4. \A l \in L : Found(l, program)
  BY <1>1, SolutionsIn DEF DriverOK
<1>5. ASSUME NEW f \in F PROVE f.after # 0 /\ (WMM = "TSO" => f.op = "membar_sl")
  <2>1. PICK l \in L : f = [after |-> l.st, op |-> IF l.kind = "sl" THEN "membar_sl" ELSE "membar_ss"]
    BY MergeIs
  <2>2. l \in Literal /\ l.st \in StoreLabels(program) /\ (l.kind = "ss" => WMM = "PSO")
    BY <1>4 DEF Found
  <2>3. l.st # 0
    BY <2>2 DEF StoreLabels, Writes
  <2>4. l.kind \in {"sl", "ss"}
    BY <2>2 DEF Literal
  <2>5. QED
    BY <2>1, <2>2, <2>3, <2>4
<1>6. program' = program \cup F
  BY <1>3 DEF Restart
<1>7. FencesOK'
  BY <1>5, <1>6 DEF FencesOK
<1>8. QED
  BY <1>3, <1>7, RestartHeld

LEMMA BInvStep ==
  ASSUME SInv, BInv, [SNext]_svars
  PROVE  BInv'
<1>1. HInv /\ IInv /\ FencesOK /\ HeldBack /\ FencedStoresAreNotOvertaken
  BY SInvParts DEF HInv, BInv
<1>2. CASE UNCHANGED <<program, threadStacks, thread_buffer, delays>>
  <2>1. FencedLabels' = FencedLabels
    BY <1>2 DEF FencedLabels
  <2>2. \A u \in Thread : Draining(u) => Draining(u)'
    BY <1>2, SameDraining
  <2>3. HeldBack'
    BY <1>1, <1>2, <2>1, <2>2 DEF HeldBack, Queue
  <2>4. QED
    BY <1>1, <1>2, <2>3 DEF BInv, FencesOK, FencedStoresAreNotOvertaken
<1>3. ASSUME NEW t \in Thread, Execute(t), delays' = delays \cup Delays(t)
      PROVE  BInv'
  <2>1. program' = program
    BY <1>1, <1>3, OthersStay
  <2>2. HeldBack'
    BY <1>1, <1>3, ExecuteHeld
  <2>3. \A l \in Delays(t) : \A f \in program : f.after # l.st
    BY <1>1, DelaysOfOthers DEF FencedLabels
  <2>4. QED
    BY <1>1, <1>3, <2>1, <2>2, <2>3 DEF BInv, FencesOK, FencedStoresAreNotOvertaken
<1>4. ASSUME NEW t \in Thread, RandomFlush(t), delays' = delays
      PROVE  BInv'
  <2>1. program' = program
    BY <1>4, FlushedOf
  <2>2. HeldBack'
    BY <1>1, <1>4, FlushHeld
  <2>3. QED
    BY <1>1, <1>4, <2>1, <2>2 DEF BInv, FencesOK, FencedStoresAreNotOvertaken
<1>5. CASE Runs
  <2>1. CASE Finish /\ UNCHANGED ghosts
    BY <1>2, <2>1 DEF Finish, ghosts, buffers
  <2>2. QED
    BY <1>3, <1>4, <1>5, <2>1 DEF Runs
<1>6. CASE Restart(program)
  <2>1. FencesOK'
    BY <1>1, <1>6 DEF FencesOK, Restart
  <2>2. QED
    BY <1>6, <2>1, RestartHeld
<1>7. CASE SolveAndInsert
  BY <1>1, <1>7, SolveHeld
<1>8. CASE UNCHANGED <<vars, ghosts>>
  BY <1>2, <1>8 DEF vars, ghosts
<1>9. QED
  BY <1>5, <1>6, <1>7, <1>8, StepCases

(***************************************************************************)
(* Whatever the programs and however the scheduler flushes: a store that   *)
(* got its fence is overtaken no more. While it is buffered its thread is  *)
(* at the fence, which lets go of the whole buffer before anything else;   *)
(* so every delay a round can still report is of a store without fence.    *)
(***************************************************************************)
THEOREM FencedStoresNotOvertaken == SSpec => []FencedStoresAreNotOvertaken
<1>1. SInit => SInv /\ BInv
  BY SInitInv, SInitHeld
<1>2. SInv /\ BInv /\ [SNext]_svars => SInv' /\ BInv'
  BY SInvStep, BInvStep
<1>3. BInv => FencedStoresAreNotOvertaken
  BY DEF BInv
<1>4. QED
  BY <1>1, <1>2, <1>3, PTL DEF SSpec

-----------------------------------------------------------------------------
(* What the delays leave: sequential consistency.                          *)

LEMMA DelaysAreAll ==
  ASSUME GlobalPrograms, CInv, NEW p, RunsIn(p, Fn), NEW t \in Thread, t \in Active, Delays(t) = {}
  PROVE  Unovertaken(t)
<1>1. p \in DOMAIN Code
  BY DEF RunsIn, CInv, IInv, TypeOK
<1>2. WMM = "PSO" => Instr(t).op \notin {"cas32", "faspo"}
  BY <1>1, Standing DEF GlobalPrograms
<1>3. ASSUME NEW q \in Queue, NEW k \in 1 .. Len(thread_buffer[t][q]),
             Instr(t).op = "load" \/ (Instr(t).op = "store" /\ WMM = "PSO")
      PROVE  thread_buffer[t][q][k].addr = Instr(t).addr
  <2>1. thread_buffer[t][q][k] \in Unflushed(t)
    BY DEF Unflushed, Range
  <2>2. Overtakes(t, Instr(t)) = {}
    BY <1>3 DEF Delays
  <2>3. QED
    BY <2>1, <2>2 DEF Overtakes
<1>4. ASSUME NEW q \in Queue, NEW k \in 1 .. Len(thread_buffer[t][q])
      PROVE  ~ Delay([op |-> "store", addr |-> thread_buffer[t][q][k].addr], Instr(t))
  BY <1>2, <1>3 DEF Delay
<1>5. QED
  BY <1>4 DEF Unovertaken

(* A run on the globals, serial until it has a delay.                      *)
OnGlobalsRun == CInv /\ \E p : RunsIn(p, Fn)
GInv == OnGlobalsRun /\ (delays = {} => Serial)

LEMMA AllFunctions ==
  ASSUME NEW p \in DOMAIN Code
  PROVE  RunsOnly(p, Fn)
<1>1. ASSUME NEW f \in Fn, NEW k \in 1 .. Len(Code[p][f]) PROVE Code[p][f][k].fn \in Fn
  <2>1. Code[p][f] \in Seq(Instruction)
    BY CodeType
  <2>2. Code[p][f][k] \in Instruction
    BY <2>1
  <2>3. QED
    BY <2>2 DEF Instruction
<1>2. QED
  BY <1>1, FnAssumption DEF RunsOnly

LEMMA StartedGlobals ==
  ASSUME GlobalPrograms, Started, allonAssertExist \in BOOLEAN
  PROVE  OnGlobalsRun /\ Serial
<1>1. IInv /\ thread_buffer = [t \in Thread |-> [q \in Queue |-> <<>>]] /\ program \in DOMAIN Code
  BY StartedType DEF Started
<1>2. Len(<<>>) = 0 /\ \A k : ~ (k \in 1 .. 0)
  OBVIOUS
<1>3. Sorted /\ Unused
  BY <1>1, <1>2 DEF Sorted, Unused
<1>4. RunsOnly(program, Fn) /\ OnGlobals(program, Fn)
  BY <1>1, AllFunctions DEF GlobalPrograms
<1>5. (\E p : RunsIn(p, Fn)) /\ Serial
  BY <1>4, StartedOn
<1>6. QED
  BY <1>1, <1>3, <1>5 DEF OnGlobalsRun, CInv

LEMMA StartedGlobalsNext ==
  GlobalPrograms /\ (Started /\ allonAssertExist \in BOOLEAN)' => OnGlobalsRun' /\ Serial'
<1>1. GlobalPrograms /\ Started /\ allonAssertExist \in BOOLEAN => OnGlobalsRun /\ Serial
  BY StartedGlobals
<1>2. CASE GlobalPrograms
  <2>1. Started /\ allonAssertExist \in BOOLEAN => OnGlobalsRun /\ Serial
    BY <1>1, <1>2
  <2>2. QED
    BY <2>1, PTL
<1>3. QED
  BY <1>2

LEMMA RestartGlobals ==
  ASSUME GlobalPrograms, NEW p \in DOMAIN Code, Restart(p)
  PROVE  GInv'
<1>1. (Started /\ allonAssertExist \in BOOLEAN)'
  BY DEF Restart, Started, Code
<1>2. QED
  BY <1>1, StartedGlobalsNext DEF GInv

(* A step of the program.                                                  *)
LEMMA RunsGlobals ==
  ASSUME GlobalPrograms, GInv, Runs
  PROVE  GInv' /\ (delays' = {} => SerialStep)
<1>1. CInv /\ (delays = {} => Serial)
  BY DEF GInv, OnGlobalsRun
<1>2. PICK p : RunsIn(p, Fn)
  BY DEF GInv, OnGlobalsRun
<1>3. [Next]_vars
  BY DEF Runs, Next
<1>4. CInv' /\ RunsIn(p, Fn)'
  BY <1>1, <1>2, <1>3, CInvStep, RunsInStep
<1>5. OnGlobalsRun'
  BY <1>4 DEF OnGlobalsRun
<1>6. ASSUME NEW t \in Thread, Execute(t), delays' = delays \cup Delays(t), delays' = {}
      PROVE  SerialStep
  <2>1. Delays(t) = {} /\ delays = {}
    BY <1>6
  <2>2. t \in Active
    BY <1>6, ExecutesActive
  <2>3. Unovertaken(t)
    BY <1>1, <1>2, <2>1, <2>2, DelaysAreAll
  <2>4. QED
    BY <1>1, <1>2, <1>6, <2>1, <2>3, InstructionSerial
<1>7. ASSUME NEW t \in Thread, RandomFlush(t), delays' = delays, delays' = {}
      PROVE  SerialStep
  BY <1>1, <1>2, <1>7, FlushSerial
<1>8. ASSUME Finish, UNCHANGED ghosts, delays' = {}
      PROVE  SerialStep
  <2>1. UNCHANGED <<mem, thread_buffer, observed>> /\ delays = {}
    BY <1>8 DEF Finish, buffers, ghosts
  <2>2. QED
    BY <1>1, <2>1, NothingMoves
<1>9. delays' = {} => SerialStep
  BY <1>6, <1>7, <1>8 DEF Runs
<1>10. QED
  BY <1>5, <1>9 DEF GInv, SerialStep

LEMMA GInvStep ==
  ASSUME GlobalPrograms, SInv, GInv, [SNext]_svars
  PROVE  GInv' /\ (UNCHANGED total_traces /\ delays' = {} => [SC!Next]_SCvars)
<1>1. /\ DriverOK /\ program \in DOMAIN Code /\ total_traces \in Nat
  BY SInvParts, RetryAssumption DEF HInv, IInv, TypeOK, DriverOK
<1>2. CASE Runs
  <2>1. GInv' /\ (delays' = {} => SerialStep)
    BY <1>2, RunsGlobals
  <2>2. SCStep1 => [SC!Next]_SCvars
    BY DEF SCStep1, SCvars, SC!vars, SCpend, Line
  <2>3. QED
    BY <2>1, <2>2 DEF SerialStep
<1>3. CASE Restart(program) /\ total_traces' = total_traces + 1
  <2>1. GInv'
    BY <1>1, <1>3, RestartGlobals
  <2>2. QED
    BY <1>1, <1>3, <2>1
<1>4. CASE SolveAndInsert
  <2>1. PICK L \in Solutions(solver) : \E F \in Merge(L, solvedStores) : Restart(program \cup F)
    BY <1>4 DEF SolveAndInsert
  <2>2. PICK F \in Merge(L, solvedStores) : Restart(program \cup F)
    BY <2>1
  <2>3. \A l \in L : Found(l, program)
    BY <1>1, SolutionsIn DEF DriverOK
  <2>4. program \cup F \in DOMAIN Code
    BY <1>1, <2>3, InsertedProgram
  <2>5. GInv'
    BY <2>2, <2>4, RestartGlobals
  <2>6. total_traces' # total_traces
    BY <1>4, RetryAssumption DEF SolveAndInsert
  <2>7. QED
    BY <2>5, <2>6
<1>5. CASE UNCHANGED <<vars, ghosts>>
  <2>1. [Next]_vars /\ delays' = delays /\ UNCHANGED <<mem, thread_buffer, observed>>
    BY <1>5 DEF vars, ghosts, buffers
  <2>2. CInv' /\ \E p : RunsIn(p, Fn)'
    BY <2>1, CInvStep, RunsInStep DEF GInv, OnGlobalsRun
  <2>3. Serial => Serial'
    BY <2>1 DEF Serial, Queue
  <2>4. GInv'
    BY <2>1, <2>2, <2>3 DEF GInv, OnGlobalsRun
  <2>5. UNCHANGED SCvars
    BY <2>1 DEF SCvars, SC!vars, Queue
  <2>6. QED
    BY <2>4, <2>5
<1>6. QED
  BY <1>2, <1>3, <1>4, <1>5, StepCases

(***************************************************************************)
(* Programs of globals, without the atomic instructions that overtake      *)
(* stores unnoticed under PSO: every run is sequentially consistent up to  *)
(* its first delay, in every module the synthesis makes. The delays are    *)
(* all the checker's verdict can blame on the memory model; with           *)
(* TracesTellDelays, a trace without literals is a trace of a run that     *)
(* sequential consistency has too.                                         *)
(***************************************************************************)
THEOREM DelayFreeRunsAreSC == GlobalPrograms => (SSpec => DelayFreeStepsAreSC)
<1>1. SUFFICES ASSUME GlobalPrograms PROVE SSpec => DelayFreeStepsAreSC
  OBVIOUS
<1>2. SInit => SInv /\ GInv
  BY <1>1, SInitInv, StartedGlobals DEF SInit, GInv
<1>3. /\ SInv /\ GInv /\ [SNext]_svars => SInv' /\ GInv'
      /\ SInv /\ GInv /\ [SNext]_svars => (UNCHANGED total_traces /\ delays' = {} => [SC!Next]_SCvars)
  BY <1>1, SInvStep, GInvStep
<1>4. QED
  BY <1>2, <1>3, PTL DEF SSpec, DelayFreeStepsAreSC
=============================================================================
