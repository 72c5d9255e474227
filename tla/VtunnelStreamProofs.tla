------------------------ MODULE VtunnelStreamProofs ------------------------
(***************************************************************************)
(* What a tunnel promises to the applications, for every value of the      *)
(* constants: the parts that build on those of VtunnelProofs.              *)
(*                                                                         *)
(*   bytes      what Bytes computes: an induction over the parts of a set  *)
(*   window     the size the window is charged for is that of its segments *)
(*   confirmed  what a Write confirms the other end holds                  *)
(*   stream     an orderly tunnel implements ByteStream                    *)
(*   fin        the FIN of a closer that waits is retransmitted            *)
(***************************************************************************)
EXTENDS VtunnelProofs, WellFoundedInduction

\* The groups of variables are always seen one by one.
USE DEF stateVars, segmentVars, bufferVars, recvVars, workerVars, openVars, synVars, writeVars,
        readVars, boundVars

-----------------------------------------------------------------------------
(* The bytes of a set of segments *)

\* The element that a sum over a set takes first.
First(segs) == CHOOSE x \in segs : TRUE

\* f computes the bytes of every part of segs, as Bytes does.
Adds(f, segs) ==
    f = [s \in SUBSET segs |-> IF s = {} THEN 0 ELSE First(s).len + f[s \ {First(s)}]]

\* Bytes is the function that MapThenSumSet chooses, at the whole set.
LEMMA BytesChosen == ASSUME NEW segs PROVE Bytes(segs) = (CHOOSE f : Adds(f, segs))[segs]
BY DEF Bytes, MapThenSumSet, MapThenFoldSet, Adds, First

\* Of sets of parts of a finite set one has no smaller one: induction over finite sets.
LEMMA LeastPart ==
    ASSUME NEW S, IsFiniteSet(S), NEW T, T \subseteq SUBSET S, T # {}
    PROVE  \E x \in T : \A y \in T : y \subseteq x => y = x
<1>1. IsWellFoundedOn(StrictSubsetOrdering(S), FiniteSubsetsOf(S))
  BY FS_StrictSubsetOrderingWellFounded
<1>2. T \subseteq FiniteSubsetsOf(S)
  BY FS_Subset DEF FiniteSubsetsOf
<1>3. PICK x \in T : \A y \in T : <<y, x>> \notin StrictSubsetOrdering(S)
  BY <1>1, <1>2, WFMin
<1>4. \A y \in T : y \subseteq x => y = x
  BY <1>3 DEF StrictSubsetOrdering
<1>. QED  BY <1>4

\* First takes an element.
LEMMA FirstIn == ASSUME NEW segs, segs # {} PROVE First(segs) \in segs
BY DEF First

\* Two such functions agree where both are defined.
LEMMA AddsAgree ==
    ASSUME NEW A, NEW B, IsFiniteSet(A), NEW f, NEW g, Adds(f, A), Adds(g, B)
    PROVE  \A s \in SUBSET (A \cap B) : f[s] = g[s]
<1>. DEFINE Bad == {s \in SUBSET (A \cap B) : f[s] # g[s]}
<1>1. SUFFICES ASSUME Bad # {} PROVE FALSE
  OBVIOUS
<1>2. PICK x \in Bad : \A y \in Bad : y \subseteq x => y = x
  <2>1. Bad \subseteq SUBSET A
    OBVIOUS
  <2>. HIDE DEF Bad
  <2>. QED  BY <1>1, <2>1, LeastPart
<1>3. x \subseteq A /\ x \subseteq B /\ f[x] # g[x]
  OBVIOUS
<1>4. /\ f[x] = IF x = {} THEN 0 ELSE First(x).len + f[x \ {First(x)}]
      /\ g[x] = IF x = {} THEN 0 ELSE First(x).len + g[x \ {First(x)}]
  BY <1>3 DEF Adds
<1>5. x # {} /\ f[x \ {First(x)}] # g[x \ {First(x)}]
  BY <1>3, <1>4
<1>6. First(x) \in x
  BY <1>5, FirstIn
<1>7. x \ {First(x)} \in Bad
  BY <1>3, <1>5
<1>. QED  BY <1>2, <1>6, <1>7

\* There is such a function for every finite set.
LEMMA AddsExists == ASSUME NEW S, IsFiniteSet(S) PROVE \E f : Adds(f, S)
<1>. DEFINE Bad == {A \in SUBSET S : ~ \E f : Adds(f, A)}
            G(A) == CHOOSE f : Adds(f, A)
<1>1. SUFFICES ASSUME Bad # {} PROVE FALSE
  OBVIOUS
<1>2. PICK x \in Bad : \A y \in Bad : y \subseteq x => y = x
  <2>. HIDE DEF Bad
  <2>1. Bad \subseteq SUBSET S
    BY DEF Bad
  <2>. QED  BY <1>1, <2>1, LeastPart
<1>3. x \in SUBSET S /\ ~ \E f : Adds(f, x)
  OBVIOUS
<1>4. \A A \in SUBSET x : A # x => Adds(G(A), A)
  <2>1. SUFFICES ASSUME NEW A \in SUBSET x, A # x PROVE \E f : Adds(f, A)
    OBVIOUS
  <2>. QED  BY <1>2, <1>3, <2>1
<1>. HIDE DEF G
<1>. DEFINE f == [s \in SUBSET x |-> IF s = {} THEN 0
                                     ELSE First(s).len + G(s \ {First(s)})[s \ {First(s)}]]
<1>5. \A s \in SUBSET x : s # {} =>
        f[s \ {First(s)}] = G(s \ {First(s)})[s \ {First(s)}]
  <2>. SUFFICES ASSUME NEW s \in SUBSET x, s # {}
                PROVE  f[s \ {First(s)}] = G(s \ {First(s)})[s \ {First(s)}]
    OBVIOUS
  <2>. DEFINE r == s \ {First(s)}
              q == r \ {First(r)}
  <2>1. First(s) \in s
    BY FirstIn
  <2>2. r \in SUBSET x /\ r # x /\ q \in SUBSET x /\ q \in SUBSET r
    BY <2>1
  <2>3. f[r] = IF r = {} THEN 0 ELSE First(r).len + G(q)[q]
    BY <2>2
  <2>4. Adds(G(r), r)
    BY <2>2, <1>4
  <2>5. G(r)[r] = IF r = {} THEN 0 ELSE First(r).len + G(r)[q]
    BY <2>4 DEF Adds
  <2>6. CASE r = {}
    BY <2>3, <2>5, <2>6
  <2>7. CASE r # {}
    <3>1. First(r) \in r
      BY <2>7, FirstIn
    <3>2. q # x /\ Adds(G(q), q)
      BY <3>1, <2>2, <1>4
    <3>3. IsFiniteSet(q)
      BY <2>2, <1>3, FS_Subset
    <3>4. G(q)[q] = G(r)[q]
      <4>. HIDE DEF r, q
      <4>. QED  BY <3>2, <3>3, <2>4, <2>2, AddsAgree
    <3>. QED  BY <2>3, <2>5, <2>7, <3>4
  <2>. QED  BY <2>6, <2>7
<1>6. Adds(f, x)
  <2>1. f = [s \in SUBSET x |-> IF s = {} THEN 0 ELSE First(s).len + f[s \ {First(s)}]]
    <3>. HIDE DEF f
    <3>1. f = [s \in SUBSET x |-> IF s = {} THEN 0
                                  ELSE First(s).len + G(s \ {First(s)})[s \ {First(s)}]]
      BY DEF f
    <3>. QED  BY <3>1, <1>5
  <2>. QED  BY <2>1 DEF Adds
<1>. QED  BY <1>3, <1>6

\* The equation of Bytes.
LEMMA BytesStep ==
    ASSUME NEW S, IsFiniteSet(S)
    PROVE  Bytes(S) = IF S = {} THEN 0 ELSE First(S).len + Bytes(S \ {First(S)})
<1>. DEFINE R == S \ {First(S)}
            f == CHOOSE h : Adds(h, S)
            g == CHOOSE h : Adds(h, R)
<1>1. IsFiniteSet(R)
  BY FS_Subset
<1>2. Adds(f, S) /\ Adds(g, R)
  BY <1>1, AddsExists
<1>3. Bytes(S) = f[S] /\ Bytes(R) = g[R]
  BY BytesChosen
<1>. HIDE DEF f, g
<1>4. f[S] = IF S = {} THEN 0 ELSE First(S).len + f[R]
  BY <1>2 DEF Adds
<1>5. f[R] = g[R]
  <2>. HIDE DEF R
  <2>1. R \subseteq S
    BY DEF R
  <2>. QED  BY <1>1, <1>2, <2>1, AddsAgree
<1>. QED  BY <1>3, <1>4, <1>5

\* The bytes of a set of segments are a number.
LEMMA BytesTyped ==
    ASSUME NEW S, IsFiniteSet(S), \A s \in S : s.len \in Nat
    PROVE  Bytes(S) \in Nat
<1>. DEFINE Bad == {A \in SUBSET S : Bytes(A) \notin Nat}
<1>1. SUFFICES ASSUME Bad # {} PROVE FALSE
  OBVIOUS
<1>2. PICK x \in Bad : \A y \in Bad : y \subseteq x => y = x
  <2>. HIDE DEF Bad
  <2>1. Bad \subseteq SUBSET S
    BY DEF Bad
  <2>. QED  BY <1>1, <2>1, LeastPart
<1>3. x \in SUBSET S /\ Bytes(x) \notin Nat
  OBVIOUS
<1>4. IsFiniteSet(x)
  BY <1>3, FS_Subset
<1>5. Bytes(x) = IF x = {} THEN 0 ELSE First(x).len + Bytes(x \ {First(x)})
  BY <1>4, BytesStep
<1>6. x # {} /\ First(x) \in x
  BY <1>3, <1>5, FirstIn
<1>7. Bytes(x \ {First(x)}) \in Nat
  BY <1>2, <1>3, <1>6
<1>. QED  BY <1>3, <1>5, <1>6, <1>7

\* The sum does not depend on the element that is taken first.
LEMMA BytesOfOne ==
    ASSUME NEW S, IsFiniteSet(S), \A s \in S : s.len \in Nat, NEW x \in S
    PROVE  Bytes(S) = x.len + Bytes(S \ {x})
<1>. DEFINE Bad == {A \in SUBSET S : \E a \in A : Bytes(A) # a.len + Bytes(A \ {a})}
<1>1. SUFFICES ASSUME Bad # {} PROVE FALSE
  OBVIOUS
<1>2. PICK A \in Bad : \A y \in Bad : y \subseteq A => y = A
  <2>. HIDE DEF Bad
  <2>1. Bad \subseteq SUBSET S
    BY DEF Bad
  <2>. QED  BY <1>1, <2>1, LeastPart
<1>3. PICK a \in A : Bytes(A) # a.len + Bytes(A \ {a})
  OBVIOUS
<1>. DEFINE b == First(A)
<1>4. A \in SUBSET S /\ IsFiniteSet(A) /\ b \in A
  BY FS_Subset, FirstIn
<1>5. Bytes(A) = b.len + Bytes(A \ {b})
  BY <1>4, BytesStep
<1>6. a # b
  BY <1>3, <1>5
<1>7. \A B \in SUBSET A : B # A => \A c \in B : Bytes(B) = c.len + Bytes(B \ {c})
  BY <1>2, <1>4
<1>. HIDE DEF b, Bad
<1>8. Bytes(A \ {b}) = a.len + Bytes((A \ {b}) \ {a})
  BY <1>7, <1>4, <1>6
<1>9. Bytes(A \ {a}) = b.len + Bytes((A \ {a}) \ {b})
  BY <1>7, <1>4, <1>6
<1>. DEFINE n == Bytes((A \ {a}) \ {b})
<1>10. (A \ {b}) \ {a} = (A \ {a}) \ {b}
  OBVIOUS
<1>11. a.len \in Nat /\ b.len \in Nat /\ n \in Nat
  BY <1>4, FS_Subset, BytesTyped
<1>12. Bytes(A \ {b}) = a.len + n /\ Bytes(A \ {a}) = b.len + n
  BY <1>8, <1>9, <1>10
<1>. HIDE DEF n
<1>13. Bytes(A) = a.len + Bytes(A \ {a})
  BY <1>5, <1>11, <1>12
<1>. QED  BY <1>3, <1>13

\* Segments that leave a set take their bytes along.
LEMMA BytesLess ==
    ASSUME NEW S, IsFiniteSet(S), \A s \in S : s.len \in Nat, NEW T, T \subseteq S
    PROVE  /\ Bytes(S \ T) = Bytes(S) - Bytes(T)
           /\ Bytes(S) \in Nat /\ Bytes(T) \in Nat /\ Bytes(S \ T) \in Nat
<1>1. \A A \in SUBSET S : IsFiniteSet(A) /\ Bytes(A) \in Nat
  BY FS_Subset, BytesTyped
<1>. DEFINE Bad == {A \in SUBSET S : Bytes(S \ A) # Bytes(S) - Bytes(A)}
<1>2. SUFFICES ASSUME Bad # {} PROVE FALSE
  BY <1>1
<1>3. PICK A \in Bad : \A y \in Bad : y \subseteq A => y = A
  <2>. HIDE DEF Bad
  <2>1. Bad \subseteq SUBSET S
    BY DEF Bad
  <2>. QED  BY <1>2, <2>1, LeastPart
<1>4. A \in SUBSET S /\ Bytes(S \ A) # Bytes(S) - Bytes(A)
  OBVIOUS
<1>5. A # {}
  <2>1. SUFFICES ASSUME A = {} PROVE FALSE
    OBVIOUS
  <2>2. Bytes(A) = 0 /\ Bytes(S \ A) = Bytes(S)
    BY <2>1, FS_EmptySet, BytesStep
  <2>3. Bytes(S) \in Nat
    BY <1>1
  <2>. QED  BY <1>4, <2>2, <2>3
<1>6. PICK a \in A : TRUE
  BY <1>5
<1>7. Bytes(S \ (A \ {a})) = Bytes(S) - Bytes(A \ {a})
  BY <1>3, <1>4
<1>. HIDE DEF Bad
<1>8. Bytes(A) = a.len + Bytes(A \ {a})
  BY <1>1, <1>4, BytesOfOne
<1>9. Bytes(S \ (A \ {a})) = a.len + Bytes((S \ (A \ {a})) \ {a})
  <2>1. S \ (A \ {a}) \in SUBSET S /\ a \in S \ (A \ {a})
    BY <1>4
  <2>. QED  BY <1>1, <2>1, BytesOfOne
<1>10. (S \ (A \ {a})) \ {a} = S \ A
  BY <1>4
<1>. DEFINE all == Bytes(S)
            out == Bytes(A)
            rest == Bytes(A \ {a})
            left == Bytes(S \ A)
<1>11. a.len \in Nat /\ all \in Nat /\ out \in Nat /\ rest \in Nat /\ left \in Nat
  BY <1>1, <1>4
<1>12. left # all - out /\ out = a.len + rest /\ a.len + left = all - rest
  BY <1>4, <1>7, <1>8, <1>9, <1>10
<1>. HIDE DEF all, out, rest, left
<1>. QED  BY <1>11, <1>12

\* Control segments count nothing.
LEMMA BytesNone ==
    ASSUME NEW S, IsFiniteSet(S), \A s \in S : s.len = 0
    PROVE  Bytes(S) = 0
<1>. DEFINE Bad == {A \in SUBSET S : Bytes(A) # 0}
<1>1. SUFFICES ASSUME Bad # {} PROVE FALSE
  OBVIOUS
<1>2. PICK x \in Bad : \A y \in Bad : y \subseteq x => y = x
  <2>. HIDE DEF Bad
  <2>1. Bad \subseteq SUBSET S
    BY DEF Bad
  <2>. QED  BY <1>1, <2>1, LeastPart
<1>3. x \in SUBSET S /\ Bytes(x) # 0 /\ IsFiniteSet(x)
  BY FS_Subset
<1>4. Bytes(x) = IF x = {} THEN 0 ELSE First(x).len + Bytes(x \ {First(x)})
  BY <1>3, BytesStep
<1>5. x # {} /\ First(x) \in x
  BY <1>3, <1>4, FirstIn
<1>6. Bytes(x \ {First(x)}) = 0
  BY <1>2, <1>3, <1>5
<1>. QED  BY <1>3, <1>4, <1>5, <1>6

\* A segment that joins a set adds its bytes.
LEMMA BytesMore ==
    ASSUME NEW S, IsFiniteSet(S), \A s \in S : s.len \in Nat,
           NEW x, x.len \in Nat, x \notin S
    PROVE  Bytes(S \cup {x}) = Bytes(S) + x.len
<1>1. IsFiniteSet(S \cup {x})
  BY FS_AddElement
<1>2. Bytes(S \cup {x}) = x.len + Bytes((S \cup {x}) \ {x})
  BY <1>1, BytesOfOne
<1>3. (S \cup {x}) \ {x} = S
  OBVIOUS
<1>. DEFINE n == Bytes(S)
            m == Bytes(S \cup {x})
<1>4. m = x.len + n /\ n \in Nat
  BY <1>2, <1>3, BytesTyped
<1>. HIDE DEF n, m
<1>5. m = n + x.len
  BY <1>4
<1>. QED  BY <1>5 DEF n, m

-----------------------------------------------------------------------------
(* What the window is charged for *)

\* No wait of Write times out, nobody forces a close, and the application of the server does not
\* overlap its calls if it closes.  Those of the client may overlap.
Accounted ==
    /\ OneLink /\ MaxSyn <= 1 /\ MaxForce = 0 /\ "write" \notin Timeouts
    /\ Concurrent => Server \notin Closers

\* The size is the bytes of the segments as long as the tunnel is not closing; what is data is
\* queued for retransmission too, and no buffer is given up.
WindowInv ==
    /\ sendSegments_size \in [Ends -> Int]
    /\ \A e \in Ends :
        /\ IsFiniteSet(sendSegments[e])
        /\ \A s \in sendSegments[e] : IF s.type = "DATA" THEN s \in retrySegments[e] ELSE s.len = 0
        /\ Healthy(e) =>
            /\ sendSegments_size[e] = Bytes(sendSegments[e]) /\ sendSegments_size[e] <= WindowSize
            /\ \A b \in sendBuffers[e] : ~b.aborted

\* The premises of the steps below.
AccountedInv ==
    /\ TypeOK /\ EarlyInv /\ LifeInv /\ DataInv /\ WindowInv
    /\ ~Concurrent => OrderlyInv

\* Nobody forces a close, and a tunnel that closes does not open again.
LEMMA AccountedSteps ==
    ASSUME Accounted, AccountedInv, [Next]_vars
    PROVE  /\ \A e \in Ends : Healthy(e)' => Healthy(e)
           /\ \A e \in Ends : ~ForceClose(e) /\ ~ForceCloseBegin(e) /\ ~ForceCloseFin(e)
<1>1. /\ state \in [Ends -> {"NULL", "OPENING", "HALF_OPEN", "OPEN", "CLOSING", "CLOSE_WAIT", "CLOSED"}]
      /\ state' \in [Ends -> {"NULL", "OPENING", "HALF_OPEN", "OPEN", "CLOSING", "CLOSE_WAIT", "CLOSED"}]
  BY NextTyped DEF AccountedInv, TypeOK
<1>2. \A e \in Ends : Stage[state'[e]] >= Stage[state[e]]
  BY StageKept DEF Accounted, AccountedInv
<1>3. /\ Stage["NULL"] = 0 /\ Stage["OPENING"] = 1 /\ Stage["HALF_OPEN"] = 1 /\ Stage["OPEN"] = 2
      /\ Stage["CLOSING"] = 3 /\ Stage["CLOSE_WAIT"] = 3 /\ Stage["CLOSED"] = 4
  BY DEF Stage
<1>4. \A e \in Ends : Healthy(e)' => Healthy(e)
  BY <1>1, <1>2, <1>3 DEF Early, Healthy
<1>5. forced = 0
  BY DEF AccountedInv, TypeOK, LifeInv, Accounted
<1>6. \A e \in Ends : ~ForceClose(e) /\ ~ForceCloseBegin(e) /\ ~ForceCloseFin(e)
  BY <1>5 DEF ForceClose, ForceCloseBegin, ForceCloseFin, MayForce, AccountedInv, LifeInv, StatesFit,
     Accounted
<1>. QED  BY <1>4, <1>6

\* An end whose opening is not over has no data queued, and no buffer.
LEMMA NoDataYet ==
    ASSUME AccountedInv, NEW e \in Ends, openPc[e] # "ok"
    PROVE  sendBuffers[e] = {} /\ \A s \in sendSegments[e] : s.type # "DATA"
<1>1. DataOf(e) = {} /\ sendBuffers[e] = {}
  BY DEF AccountedInv, DataInv
<1>2. ASSUME NEW s \in sendSegments[e], s.type = "DATA" PROVE FALSE
  <2>1. s \in retrySegments[e]
    BY <1>2 DEF AccountedInv, WindowInv
  <2>2. PieceOf(s) \in DataOf(e)
    BY <1>2, <2>1 DEF DataOf
  <2>. QED  BY <1>1, <2>2
<1>. QED  BY <1>1, <1>2

\* Control segments weigh nothing.
LEMMA ControlWeighs ==
    ASSUME WindowInv, NEW e \in Ends, \A s \in sendSegments[e] : s.type # "DATA"
    PROVE  Bytes(sendSegments[e]) = 0
BY BytesNone DEF WindowInv

\* A window that is cleared without closing has nothing in it that counts.
LEMMA ClearedEmpty ==
    ASSUME Accounted, AccountedInv, [Next]_vars, NEW e \in Ends, ClearStep(e), Healthy(e)'
    PROVE  sendBuffers[e] = {} /\ \A s \in sendSegments[e] : s.type # "DATA"
<1>. state \in [Ends -> {"NULL", "OPENING", "HALF_OPEN", "OPEN", "CLOSING", "CLOSE_WAIT", "CLOSED"}]
  BY DEF AccountedInv, TypeOK
<1>1. ~ForceClose(e) /\ ~ForceCloseBegin(e)
  BY AccountedSteps
<1>2. ~CloseAfterFin(e)
  BY DEF CloseAfterFin, Healthy, Early
<1>3. CASE Early(e)
  <2>1. openPc[e] # "ok"
    BY <1>3 DEF AccountedInv, LifeInv, StatesFit, Early
  <2>. QED  BY <2>1, NoDataYet
<1>4. ASSUME NEW p \in net, NEW l \in Links, p.to = e, ReceiveFin(p, l) \/ ReceiveFinAck(p, l)
      PROVE  Early(e)
  BY <1>4 DEF ReceiveFin, ReceiveFinAck, Healthy, Early
<1>5. CASE CloseBegin(e)
  <2>1. e = Server /\ Server \in Closers
    BY <1>5 DEF CloseBegin, MayClose, Healthy, Early, Ends
  <2>2. ~Concurrent /\ OrderlyInv
    BY <2>1, NumbersAssumption DEF Accounted, AccountedInv
  <2>3. NoWrite(e)
    BY <1>5, <2>1, Numbers DEF CloseBegin, MayClose
  <2>4. sendBuffers[e] = {}
    BY <2>2, <2>3 DEF OrderlyInv, BuffersOk, NoWrite, Resting
  <2>. QED  BY <2>2, <2>4, NoDataLeft
<1>. QED  BY <1>1, <1>2, <1>3, <1>4, <1>5 DEF ClearStep

\* The part of WindowInv that is about the segments of e.
SegmentsCounted(e) ==
    /\ IsFiniteSet(sendSegments[e])
    /\ \A s \in sendSegments[e] : IF s.type = "DATA" THEN s \in retrySegments[e] ELSE s.len = 0
    /\ Healthy(e) => sendSegments_size[e] = Bytes(sendSegments[e]) /\ sendSegments_size[e] <= WindowSize

\* An end whose segments and size a step leaves alone.
LEMMA CountedSame ==
    ASSUME NEW e \in Ends, SegmentsCounted(e), Healthy(e)' => Healthy(e),
           sendSegments'[e] = sendSegments[e], retrySegments'[e] = retrySegments[e],
           sendSegments_size'[e] = sendSegments_size[e]
    PROVE  SegmentsCounted(e)'
BY DEF SegmentsCounted

\* Segments leave both lists and their bytes the size.
LEMMA CountedLess ==
    ASSUME TypeOK, WindowInv, NEW e \in Ends, Healthy(e)' => Healthy(e),
           NEW segs, segs \subseteq sendSegments[e],
           sendSegments'[e] = sendSegments[e] \ segs, retrySegments'[e] = retrySegments[e] \ segs,
           Healthy(e)' => sendSegments_size'[e] = sendSegments_size[e] - Bytes(segs)
    PROVE  SegmentsCounted(e)'
<1>. DEFINE S == sendSegments[e]
<1>1. IsFiniteSet(S) /\ S \subseteq Segment /\ IsFiniteSet(S \ segs)
  BY FS_Subset DEF WindowInv, TypeOK
<1>2. \A s \in sendSegments'[e] : IF s.type = "DATA" THEN s \in retrySegments'[e] ELSE s.len = 0
  BY DEF WindowInv
<1>3. ASSUME Healthy(e)'
      PROVE  sendSegments_size'[e] = Bytes(sendSegments'[e]) /\ sendSegments_size'[e] <= WindowSize
  <2>1. \A s \in S : s.len \in Nat
    BY <1>1 DEF Segment
  <2>. DEFINE all == Bytes(S)
              out == Bytes(segs)
              rest == Bytes(S \ segs)
              size == sendSegments_size[e]
              size1 == sendSegments_size'[e]
  <2>2. rest = all - out /\ all \in Nat /\ out \in Nat /\ rest \in Nat
    <3>1. segs \subseteq S
      OBVIOUS
    <3>. HIDE DEF S
    <3>. QED  BY <1>1, <2>1, <3>1, BytesLess
  <2>3. size = all /\ size <= WindowSize /\ WindowSize \in Nat
    BY <1>3, NumbersAssumption DEF WindowInv
  <2>4. size1 = size - out
    BY <1>3
  <2>. HIDE DEF all, out, rest, size, size1
  <2>5. size1 = rest /\ size1 <= WindowSize
    BY <2>2, <2>3, <2>4
  <2>. QED  BY <2>5 DEF rest, size1
<1>. QED  BY <1>1, <1>2, <1>3 DEF SegmentsCounted

\* A segment is queued, in the place of such as have no bytes.
LEMMA CountedMore ==
    ASSUME TypeOK, WindowInv, NEW e \in Ends, Healthy(e)' => Healthy(e),
           NEW seg, seg.len \in Nat, seg.type # "DATA" => seg.len = 0, InsertSegment(e, seg),
           Healthy(e)' => \A s \in sendSegments[e] : s.seq = seg.seq => s.len = 0,
           Healthy(e)' => sendSegments_size[e] + seg.len <= WindowSize
    PROVE  SegmentsCounted(e)'
<1>. DEFINE S == sendSegments[e]
            gone == {s \in S : s.seq = seg.seq}
            rest == S \ gone
<1>1. IsFiniteSet(S) /\ S \subseteq Segment /\ IsFiniteSet(gone) /\ IsFiniteSet(rest)
  BY FS_Subset DEF WindowInv, TypeOK
<1>2. /\ sendSegments'[e] = rest \cup {seg} /\ retrySegments'[e] = retrySegments[e] \cup {seg}
      /\ seg \notin rest
  BY DEF InsertSegment, WithSegment, TypeOK
<1>3. sendSegments_size'[e] = sendSegments_size[e] + seg.len
  BY DEF InsertSegment, WindowInv
<1>4. IsFiniteSet(rest \cup {seg})
  BY <1>1, FS_AddElement
<1>5. \A s \in sendSegments'[e] : IF s.type = "DATA" THEN s \in retrySegments'[e] ELSE s.len = 0
  BY <1>2 DEF WindowInv
<1>6. ASSUME Healthy(e)'
      PROVE  sendSegments_size'[e] = Bytes(sendSegments'[e]) /\ sendSegments_size'[e] <= WindowSize
  <2>1. (\A s \in S : s.len \in Nat) /\ \A s \in rest : s.len \in Nat
    BY <1>1 DEF Segment
  <2>2. \A s \in gone : s.len = 0
    BY <1>6
  <2>. DEFINE all == Bytes(S)
              out == Bytes(gone)
              left == Bytes(rest)
              now == Bytes(rest \cup {seg})
              size == sendSegments_size[e]
              size1 == sendSegments_size'[e]
  <2>3. out = 0
    <3>. HIDE DEF gone
    <3>. QED  BY <1>1, <2>2, BytesNone
  <2>4. left = all - out /\ all \in Nat /\ left \in Nat
    <3>1. gone \subseteq S /\ rest = S \ gone
      OBVIOUS
    <3>. HIDE DEF gone, S, rest
    <3>. QED  BY <1>1, <2>1, <3>1, BytesLess
  <2>5. now = left + seg.len
    <3>. HIDE DEF rest
    <3>. QED  BY <1>1, <1>2, <2>1, BytesMore
  <2>6. size = all /\ size1 = size + seg.len /\ size1 <= WindowSize
    BY <1>3, <1>6 DEF WindowInv
  <2>7. size1 = now /\ size1 <= WindowSize
    <3>. HIDE DEF all, out, left, now, size, size1
    <3>. QED  BY <2>3, <2>4, <2>5, <2>6
  <2>. QED  BY <1>2, <2>7 DEF now, size1
<1>. QED  BY <1>2, <1>4, <1>5, <1>6 DEF SegmentsCounted

\* A control segment is queued: by Open, by HandleSyn, and by a tunnel that closes.
LEMMA CountedControl ==
    ASSUME Accounted, AccountedInv, [Next]_vars, NEW e \in Ends,
           OpenStart \/ HandleSyn \/ \E f \in Ends : CloseFin(f)
    PROVE  SegmentsCounted(e)'
<1>. USE Numbers
<1>. /\ sendSegments \in [Ends -> SUBSET Segment] /\ retrySegments \in [Ends -> SUBSET Segment]
     /\ state \in [Ends -> {"NULL", "OPENING", "HALF_OPEN", "OPEN", "CLOSING", "CLOSE_WAIT", "CLOSED"}]
  BY DEF AccountedInv, TypeOK
<1>. sendSegments_size \in [Ends -> Int] /\ WindowSize \in Nat
  BY NumbersAssumption DEF AccountedInv, WindowInv
<1>0. /\ SegmentsCounted(e) /\ (Healthy(e)' => Healthy(e)) /\ TypeOK /\ WindowInv
  BY AccountedSteps DEF AccountedInv, WindowInv, SegmentsCounted
<1>1. ASSUME NEW f \in Ends, NEW seg, seg.len = 0, seg.type # "DATA", InsertSegment(f, seg),
             Healthy(f)' => \A s \in sendSegments[f] : s.type # "DATA"
      PROVE  SegmentsCounted(e)'
  <2>1. CASE e # f
    <3>1. /\ sendSegments'[e] = sendSegments[e] /\ retrySegments'[e] = retrySegments[e]
          /\ sendSegments_size'[e] = sendSegments_size[e]
      BY <1>1, <2>1 DEF InsertSegment
    <3>. QED  BY <1>0, <3>1, CountedSame
  <2>2. CASE e = f
    <3>1. Healthy(e)' => \A s \in sendSegments[e] : s.seq = seg.seq => s.len = 0
      BY <1>0, <1>1, <2>2 DEF SegmentsCounted
    <3>2. Healthy(e)' => sendSegments_size[e] + seg.len <= WindowSize
      BY <1>0, <1>1 DEF SegmentsCounted
    <3>3. seg.len \in Nat /\ InsertSegment(e, seg) /\ (seg.type # "DATA" => seg.len = 0)
      BY <1>1, <2>2
    <3>. QED  BY <1>0, <3>1, <3>2, <3>3, CountedMore
  <2>. QED  BY <2>1, <2>2
<1>2. CASE OpenStart
  <2>. DEFINE seg == ControlSegment("SYN", cur_seq[Client], 0)
  <2>1. seg.len = 0 /\ seg.type # "DATA"
    BY DEF ControlSegment
  <2>2. InsertSegment(Client, seg) /\ openPc[Client] # "ok"
    BY <1>2 DEF OpenStart
  <2>3. \A s \in sendSegments[Client] : s.type # "DATA"
    BY <2>2, NoDataYet
  <2>. HIDE DEF seg
  <2>. QED  BY <1>1, <2>1, <2>2, <2>3
<1>3. CASE HandleSyn
  <2>. DEFINE seg == ControlSegment("SYN_ACK", cur_seq[Server], synHandled)
  <2>1. seg.len = 0 /\ seg.type # "DATA"
    BY DEF ControlSegment
  <2>2. InsertSegment(Server, seg)
    BY <1>3 DEF HandleSyn
  <2>3. synHandled = 0
    BY <1>0, <1>3, AnsweredOnce DEF Accounted, AccountedInv
  <2>4. \A s \in sendSegments[Server] : s.type # "DATA"
    BY <2>3 DEF AccountedInv, EarlyInv, BeforeSyn
  <2>. HIDE DEF seg
  <2>. QED  BY <1>1, <2>1, <2>2, <2>4
<1>4. ASSUME NEW f \in Ends, CloseFin(f) PROVE SegmentsCounted(e)'
  <2>. DEFINE seg == ControlSegment("FIN", cur_seq[f], 0)
  <2>1. seg.len = 0 /\ seg.type # "DATA"
    BY DEF ControlSegment
  <2>2. InsertSegment(f, seg)
    BY <1>4 DEF CloseFin, SendFin
  <2>3. ~Healthy(f)'
    BY <1>4 DEF CloseFin, Healthy, Early
  <2>. HIDE DEF seg
  <2>. QED  BY <1>1, <2>1, <2>2, <2>3
<1>. QED  BY <1>2, <1>3, <1>4

\* writerThread queues a segment only where the window has room for it.
LEMMA CountedSent ==
    ASSUME Accounted, AccountedInv, [Next]_vars, NEW e \in Ends, NEW f \in Ends, WriterSend(f)
    PROVE  SegmentsCounted(e)'
<1>. USE Numbers
<1>. /\ sendSegments \in [Ends -> SUBSET Segment] /\ retrySegments \in [Ends -> SUBSET Segment]
     /\ currBufferIndex \in [Ends -> Nat] /\ currBufferOffset \in [Ends -> Nat]
     /\ sendBuffers \in [Ends -> SUBSET Buffer]
  BY DEF AccountedInv, TypeOK
<1>. /\ sendSegments_size \in [Ends -> Int] /\ WindowSize \in Nat /\ WindowSize >= SegmentSize
  BY NumbersAssumption DEF AccountedInv, WindowInv
<1>0. /\ SegmentsCounted(e) /\ (Healthy(e)' => Healthy(e)) /\ TypeOK /\ WindowInv
  BY AccountedSteps DEF AccountedInv, WindowInv, SegmentsCounted
<1>1. PICK b \in sendBuffers[f] :
        LET left == b.size - currBufferOffset[f]
            len == IF left \in 0 .. SegmentSize THEN left ELSE SegmentSize
            seq == currBufferIndex[f] + currBufferOffset[f]
        IN  InsertSegment(f, [type |-> "DATA", seq |-> seq, len |-> len,
                              head |-> currBufferIndex[f], round |-> 0])
  BY DEF WriterSend
<1>. DEFINE left == b.size - currBufferOffset[f]
            len == IF left \in 0 .. SegmentSize THEN left ELSE SegmentSize
            seg == [type |-> "DATA", seq |-> currBufferIndex[f] + currBufferOffset[f], len |-> len,
                    head |-> currBufferIndex[f], round |-> 0]
<1>2. InsertSegment(f, seg)
  BY <1>1
<1>3. len \in Nat /\ len <= SegmentSize
  BY DEF Buffer
<1>. HIDE DEF left, len
<1>4. seg.type = "DATA" /\ seg.len = len /\ seg.seq = Pos(f) /\ Pos(f) \in Nat
  BY DEF Pos
<1>. HIDE DEF seg
<1>5. CASE e # f
  <2>1. /\ sendSegments'[e] = sendSegments[e] /\ retrySegments'[e] = retrySegments[e]
        /\ sendSegments_size'[e] = sendSegments_size[e]
    BY <1>2, <1>5 DEF InsertSegment
  <2>. QED  BY <1>0, <2>1, CountedSame
<1>6. CASE e = f
  <2>1. ASSUME NEW s \in sendSegments[e], s.seq = seg.seq PROVE s.len = 0
    <3>1. CASE s.type = "DATA"
      <4>1. PieceOf(s) \in DataOf(e)
        BY <1>0, <3>1 DEF SegmentsCounted, DataOf
      <4>2. EndOf(PieceOf(s)) <= Pos(e)
        BY <4>1 DEF AccountedInv, DataInv
      <4>3. s.len \in Nat /\ s.seq \in Nat /\ EndOf(PieceOf(s)) = s.seq + s.len
        BY DEF Segment, EndOf, PieceOf
      <4>. QED  BY <1>4, <1>6, <2>1, <4>2, <4>3
    <3>. QED  BY <1>0, <3>1 DEF SegmentsCounted
  <2>2. ASSUME Healthy(e)' PROVE sendSegments_size[e] + seg.len <= WindowSize
    <3>1. sendSegments_size[e] <= WindowSize
      BY <1>0, <2>2 DEF SegmentsCounted
    <3>2. sendSegments_size[e] \notin (WindowSize - SegmentSize + 1) .. WindowSize
      BY <1>6 DEF WriterSend, isAvailableWindow
    <3>. QED  BY <1>3, <1>4, <3>1, <3>2
  <2>3. seg.len \in Nat /\ InsertSegment(e, seg)
    BY <1>2, <1>3, <1>4, <1>6
  <2>. QED  BY <1>0, <1>4, <2>1, <2>2, <2>3, CountedMore
<1>. QED  BY <1>5, <1>6

\* Segments of one end leave both lists and their bytes its size.
LEMMA CountedErased ==
    ASSUME Accounted, AccountedInv, [Next]_vars, NEW e \in Ends, NEW f \in Ends,
           NEW segs, segs \subseteq sendSegments[f], EraseSegments(f, segs),
           \A g \in Ends \ {f} : sendSegments_size'[g] = sendSegments_size[g],
           Healthy(f)' => sendSegments_size'[f] = sendSegments_size[f] - Bytes(segs)
    PROVE  SegmentsCounted(e)'
<1>. /\ sendSegments \in [Ends -> SUBSET Segment] /\ retrySegments \in [Ends -> SUBSET Segment]
  BY DEF AccountedInv, TypeOK
<1>0. /\ SegmentsCounted(e) /\ (Healthy(e)' => Healthy(e)) /\ TypeOK /\ WindowInv
  BY AccountedSteps DEF AccountedInv, WindowInv, SegmentsCounted
<1>1. CASE e # f
  <2>1. /\ sendSegments'[e] = sendSegments[e] /\ retrySegments'[e] = retrySegments[e]
        /\ sendSegments_size'[e] = sendSegments_size[e]
    BY <1>1 DEF EraseSegments
  <2>. QED  BY <1>0, <2>1, CountedSame
<1>2. CASE e = f
  <2>1. /\ sendSegments'[e] = sendSegments[e] \ segs /\ retrySegments'[e] = retrySegments[e] \ segs
    BY <1>2 DEF EraseSegments
  <2>2. segs \subseteq sendSegments[e]
    BY <1>2
  <2>3. Healthy(e)' => sendSegments_size'[e] = sendSegments_size[e] - Bytes(segs)
    BY <1>2
  <2>. QED  BY <1>0, <2>1, <2>2, <2>3, CountedLess
<1>. QED  BY <1>1, <1>2

\* A call gives its buffer up when the tunnel is open no more.
LEMMA GaveUp ==
    ASSUME Accounted, AccountedInv, NEW w \in Calls, GiveUp(w)
    PROVE  /\ Caller[w] \in Ends /\ CancelFromBuffers(Caller[w], writeIndex[w])
           /\ state' = state /\ ~Healthy(Caller[w])
<1>. USE Numbers
<1>1. ~WriteTimeout(w)
  BY DEF Accounted, WriteTimeout
<1>2. /\ writePc[w] \in {"appended", "waiting"} /\ CancelFromBuffers(Caller[w], writeIndex[w])
      /\ state' = state
  BY <1>1 DEF GiveUp, WriteSpawnRefused, WriteAborted, stateVars
<1>3. openPc[Caller[w]] = "ok"
  BY <1>2 DEF AccountedInv, EarlyInv, Callers
<1>4. ~Early(Caller[w])
  BY <1>3 DEF AccountedInv, LifeInv, StatesFit, Early
<1>5. CASE WriteSpawnRefused(w)
  BY <1>2, <1>4, <1>5 DEF WriteSpawnRefused, Healthy
<1>6. CASE WriteAborted(w)
  <2>1. \E b \in sendBuffers[Caller[w]] : b.aborted
    BY <1>6 DEF WriteAborted, BufferOf
  <2>. QED  BY <1>2, <2>1 DEF AccountedInv, WindowInv
<1>. QED  BY <1>1, <1>5, <1>6 DEF GiveUp

\* The size is adjusted with the list, or the tunnel closes.
LEMMA CountedKept ==
    ASSUME Accounted, AccountedInv, [Next]_vars, NEW e \in Ends
    PROVE  SegmentsCounted(e)'
<1>. USE Numbers
<1>. /\ sendSegments \in [Ends -> SUBSET Segment] /\ retrySegments \in [Ends -> SUBSET Segment]
     /\ sendSegments_size \in [Ends -> Int]
     /\ state \in [Ends -> {"NULL", "OPENING", "HALF_OPEN", "OPEN", "CLOSING", "CLOSE_WAIT", "CLOSED"}]
  BY DEF AccountedInv, TypeOK, WindowInv
<1>0. /\ SegmentsCounted(e) /\ (Healthy(e)' => Healthy(e)) /\ TypeOK /\ LifeInv /\ WindowInv
  BY AccountedSteps DEF AccountedInv, WindowInv, SegmentsCounted
<1>1. CASE OpenStart \/ HandleSyn \/ \E f \in Ends : CloseFin(f)
  BY <1>1, CountedControl
<1>2. CASE \E f \in Ends : WriterSend(f)
  BY <1>2, CountedSent
<1>3. ASSUME NEW h \in handling, AckSegments(h) PROVE SegmentsCounted(e)'
  <2>. DEFINE f == h.pkt.to
              acked == AckedSegments(sendSegments[f], h.pkt.ack)
  <2>1. f \in Ends
    BY <1>0, HandledPacket, TypeGroups
  <2>2. EraseSegments(f, acked) /\ acked \subseteq sendSegments[f]
    BY <1>3 DEF AckSegments, AckedSegments
  <2>3. sendSegments_size' = [sendSegments_size EXCEPT ![f] = @ - Bytes(acked)]
    BY <1>3 DEF AckSegments
  <2>. HIDE DEF f, acked
  <2>4. \A g \in Ends \ {f} : sendSegments_size'[g] = sendSegments_size[g]
    BY <2>3
  <2>5. sendSegments_size'[f] = sendSegments_size[f] - Bytes(acked)
    BY <2>1, <2>3
  <2>. QED  BY <2>1, <2>2, <2>4, <2>5, CountedErased
<1>4. ASSUME NEW w \in Calls, GiveUp(w) PROVE SegmentsCounted(e)'
  <2>. DEFINE f == Caller[w]
              segs == {s \in sendSegments[f] : s.head = writeIndex[w]}
  <2>1. /\ f \in Ends /\ CancelFromBuffers(f, writeIndex[w]) /\ state' = state /\ ~Healthy(f)
    BY <1>4, GaveUp
  <2>2. EraseSegments(f, segs) /\ sendSegments_size' = sendSegments_size
    BY <2>1 DEF CancelFromBuffers
  <2>3. ~Healthy(f)'
    BY <2>1 DEF Healthy, Early
  <2>4. segs \subseteq sendSegments[f]
    OBVIOUS
  <2>. HIDE DEF f, segs
  <2>. QED  BY <2>1, <2>2, <2>3, <2>4, CountedErased
<1>5. ASSUME NEW f \in Ends, ClearStep(f), Clear(f) PROVE SegmentsCounted(e)'
  <2>1. EraseSegments(f, sendSegments[f]) /\ sendSegments_size' = sendSegments_size
    BY <1>5 DEF Clear
  <2>2. ASSUME Healthy(f)' PROVE sendSegments_size'[f] = sendSegments_size[f] - Bytes(sendSegments[f])
    <3>1. Bytes(sendSegments[f]) = 0
      BY <1>0, <1>5, <2>2, ClearedEmpty, ControlWeighs
    <3>. QED  BY <2>1, <3>1
  <2>. QED  BY <2>1, <2>2, CountedErased
<1>6. ASSUME NEW f \in Ends, CancelCtrlPktFromSegments(f) PROVE SegmentsCounted(e)'
  <2>. DEFINE segs == {s \in sendSegments[f] : s.type # "DATA"}
  <2>1. EraseSegments(f, segs) /\ sendSegments_size' = sendSegments_size
    BY <1>6 DEF CancelCtrlPktFromSegments
  <2>2. Bytes(segs) = 0
    <3>1. IsFiniteSet(segs) /\ \A s \in segs : s.len = 0
      BY <1>0, FS_Subset DEF WindowInv
    <3>. HIDE DEF segs
    <3>. QED  BY <3>1, BytesNone
  <2>3. segs \subseteq sendSegments[f]
    OBVIOUS
  <2>. HIDE DEF segs
  <2>4. sendSegments_size'[f] = sendSegments_size[f] - Bytes(segs)
    BY <2>1, <2>2
  <2>. QED  BY <2>1, <2>3, <2>4, CountedErased
<1>7. CASE UNCHANGED segmentVars
  BY <1>0, <1>7, CountedSame DEF segmentVars
<1>8. \A f \in Ends : ~ForceCloseFin(f)
  BY AccountedSteps
<1>. QED  BY <1>0, <1>1, <1>2, <1>3, <1>4, <1>5, <1>6, <1>7, <1>8, SegmentSteps

\* The size is a number.
LEMMA SizeTyped ==
    ASSUME Accounted, AccountedInv, [Next]_vars
    PROVE  sendSegments_size' \in [Ends -> Int]
<1>. USE Numbers
<1>. sendSegments_size \in [Ends -> Int]
  BY DEF AccountedInv, WindowInv
<1>0. TypeOK /\ LifeInv /\ WindowInv
  BY DEF AccountedInv
<1>1. ASSUME NEW f \in Ends, NEW seg, seg.len \in Int, InsertSegment(f, seg)
      PROVE  sendSegments_size' \in [Ends -> Int]
  BY <1>1 DEF InsertSegment
<1>2. CASE OpenStart
  <2>. DEFINE seg == ControlSegment("SYN", cur_seq[Client], 0)
  <2>1. InsertSegment(Client, seg) /\ seg.len = 0
    BY <1>2 DEF OpenStart, ControlSegment
  <2>. HIDE DEF seg
  <2>. QED  BY <1>1, <2>1
<1>3. CASE HandleSyn
  <2>. DEFINE seg == ControlSegment("SYN_ACK", cur_seq[Server], synHandled)
  <2>1. InsertSegment(Server, seg) /\ seg.len = 0
    BY <1>3 DEF HandleSyn, ControlSegment
  <2>. HIDE DEF seg
  <2>. QED  BY <1>1, <2>1
<1>4. ASSUME NEW f \in Ends, CloseFin(f) PROVE sendSegments_size' \in [Ends -> Int]
  <2>. DEFINE seg == ControlSegment("FIN", cur_seq[f], 0)
  <2>1. InsertSegment(f, seg) /\ seg.len = 0
    BY <1>4 DEF CloseFin, SendFin, ControlSegment
  <2>. HIDE DEF seg
  <2>. QED  BY <1>1, <2>1
<1>5. ASSUME NEW f \in Ends, WriterSend(f) PROVE sendSegments_size' \in [Ends -> Int]
  <2>1. PICK b \in sendBuffers[f] : \E len \in Nat : WriterSent(f, b, len)
    BY <1>0, <1>5, WriterSends DEF AccountedInv
  <2>2. PICK len \in Nat : WriterSent(f, b, len)
    BY <2>1
  <2>. DEFINE seg == [type |-> "DATA", seq |-> Pos(f), len |-> len, head |-> currBufferIndex[f],
                      round |-> 0]
  <2>3. InsertSegment(f, seg) /\ seg.len \in Nat
    BY <2>2 DEF WriterSent
  <2>. HIDE DEF seg
  <2>. QED  BY <1>1, <2>3
<1>6. ASSUME NEW h \in handling, AckSegments(h) PROVE sendSegments_size' \in [Ends -> Int]
  <2>. DEFINE f == h.pkt.to
              acked == AckedSegments(sendSegments[f], h.pkt.ack)
  <2>1. f \in Ends
    BY <1>0, HandledPacket, TypeGroups
  <2>2. sendSegments_size' = [sendSegments_size EXCEPT ![f] = @ - Bytes(acked)]
    BY <1>6 DEF AckSegments
  <2>3. Bytes(acked) \in Nat
    <3>. DEFINE S == sendSegments[f]
    <3>. sendSegments \in [Ends -> SUBSET Segment]
      BY <1>0 DEF TypeOK
    <3>1. acked \subseteq S
      BY DEF AckedSegments
    <3>2. IsFiniteSet(S) /\ \A s \in S : s.len \in Nat
      BY <1>0, <2>1 DEF WindowInv, Segment
    <3>. HIDE DEF acked, S
    <3>. QED  BY <3>1, <3>2, BytesLess
  <2>. DEFINE n == Bytes(acked)
  <2>. HIDE DEF f, n
  <2>. QED  BY <2>1, <2>2, <2>3 DEF n
<1>7. CASE \/ \E w \in Calls : GiveUp(w)
           \/ \E f \in Ends : Clear(f) \/ CancelCtrlPktFromSegments(f)
           \/ UNCHANGED segmentVars
  BY <1>7 DEF GiveUp, WriteSpawnRefused, WriteAborted, WriteTimeout, CancelFromBuffers, Clear,
     CancelCtrlPktFromSegments, segmentVars
<1>8. \A f \in Ends : ~ForceCloseFin(f)
  BY AccountedSteps
<1>. QED  BY <1>0, <1>2, <1>3, <1>4, <1>5, <1>6, <1>7, <1>8, SegmentSteps

\* A buffer is given up only when its tunnel closes.
LEMMA BuffersWanted ==
    ASSUME Accounted, AccountedInv, [Next]_vars, NEW e \in Ends, Healthy(e)',
           NEW b \in sendBuffers'[e]
    PROVE  ~b.aborted
<1>. USE Numbers
<1>. sendBuffers \in [Ends -> SUBSET Buffer]
  BY DEF AccountedInv, TypeOK
<1>0. /\ TypeOK /\ EarlyInv /\ Healthy(e) /\ \A c \in sendBuffers[e] : ~c.aborted
  BY AccountedSteps DEF AccountedInv, WindowInv
<1>1. CASE b \in sendBuffers[e]
  BY <1>0, <1>1
<1>2. ASSUME NEW w \in Calls, WriteAppend(w), b \notin sendBuffers[e] PROVE ~b.aborted
  <2>. DEFINE mine == [head_seq |-> nextBufferIndex[Caller[w]], size |-> Size[w], aborted |-> FALSE]
  <2>1. b = mine
    <3>1. sendBuffers' = sendBuffers
          \/ sendBuffers' = [sendBuffers EXCEPT ![Caller[w]] = @ \cup {mine}]
      BY <1>2 DEF WriteAppend, AppendToBuffers
    <3>. HIDE DEF mine
    <3>. QED  BY <1>2, <3>1
  <2>. QED  BY <2>1
<1>3. ASSUME NEW w \in Calls, GiveUp(w) PROVE b \in sendBuffers[e]
  <2>1. sendBuffers' = [sendBuffers EXCEPT ![Caller[w]] = {c \in @ : c.head_seq # writeIndex[w]}]
    BY <1>3, GaveUp DEF CancelFromBuffers
  <2>2. sendBuffers'[e] \subseteq sendBuffers[e]
    BY <2>1
  <2>. QED  BY <2>2
<1>4. ASSUME NEW h \in handling, AckBuffers(h) PROVE b \in sendBuffers[e]
  BY <1>4 DEF AckBuffers
<1>5. ASSUME NEW f \in Ends, ClearStep(f), Clear(f) PROVE b \in sendBuffers[e]
  <2>1. CASE f = e
    <3>1. sendBuffers[e] = {}
      BY <1>5, <2>1, ClearedEmpty
    <3>2. sendBuffers'[e] = {}
      BY <1>5, <2>1, <3>1 DEF Clear
    <3>. QED  BY <3>2
  <2>2. CASE f # e
    BY <1>5, <2>2 DEF Clear
  <2>. QED  BY <2>1, <2>2
<1>. QED  BY <1>0, <1>1, <1>2, <1>3, <1>4, <1>5, BufferSteps

\* The premises of the steps above hold throughout.
LEMMA AccountedAlways == ASSUME Accounted PROVE Spec => []AccountedInv
<1>1. Init => WindowInv
  <2>. SUFFICES ASSUME Init PROVE WindowInv
    OBVIOUS
  <2>1. /\ sendSegments_size = [e \in Ends |-> 0]
        /\ \A e \in Ends : sendSegments[e] = {} /\ sendBuffers[e] = {}
    BY DEF Init
  <2>2. IsFiniteSet({}) /\ Bytes({}) = 0
    BY FS_EmptySet, BytesNone
  <2>. QED  BY <2>1, <2>2, NumbersAssumption DEF WindowInv
<1>2. AccountedInv /\ [Next]_vars => WindowInv'
  <2>. SUFFICES ASSUME AccountedInv, [Next]_vars PROVE WindowInv'
    OBVIOUS
  <2>1. sendSegments_size' \in [Ends -> Int]
    BY SizeTyped
  <2>2. \A e \in Ends : SegmentsCounted(e)'
    BY CountedKept
  <2>3. \A e \in Ends : Healthy(e)' => \A b \in sendBuffers'[e] : ~b.aborted
    BY BuffersWanted
  <2>. QED  BY <2>1, <2>2, <2>3 DEF WindowInv, SegmentsCounted
<1>3. Spec => [](~Concurrent => OrderlyInv)
  <2>1. CASE Concurrent
    <3>1. ~Concurrent => OrderlyInv
      BY <2>1
    <3>. QED  BY <3>1, PTL
  <2>2. CASE ~Concurrent
    <3>1. Spec => []OrderlyInv
      BY <2>2, OrderlyAlways DEF Orderly, Accounted
    <3>. QED  BY <3>1, PTL
  <2>. QED  BY <2>1, <2>2
<1>4. Spec => [](DataInv /\ DataHandlers)
  BY DataAlways DEF Accounted
<1>5. Spec => []LifeInv
  BY LifeAlways DEF Accounted
<1>6. TypeOK /\ EarlyInv /\ LifeInv /\ DataInv /\ WindowInv /\ (~Concurrent => OrderlyInv) <=> AccountedInv
  BY DEF AccountedInv
<1>. QED  BY <1>1, <1>2, <1>3, <1>4, <1>5, <1>6, TypeCorrect, EarlyAlways, PTL DEF Spec

\* While a tunnel is open, the size the window is charged for is the sum of the segments in it,
\* and the window is large enough for it; the calls of the applications may overlap, provided that
\* the application of the server does not close.
THEOREM WindowIsAccounted == ASSUME Accounted PROVE Spec => []WindowAccounting
<1>1. AccountedInv => WindowAccounting
  BY DEF AccountedInv, WindowInv, WindowAccounting, Healthy
<1>. QED  BY <1>1, AccountedAlways, PTL

-----------------------------------------------------------------------------
(* What Write confirms *)

\* No piece of data is empty.
LenInv == \A e \in Ends : \A s \in DataOf(e) : s.len > 0

\* The bytes of e up to the number `ack' are with the reader of its peer, or in its window.
Received(e, ack) == \A n \in ISN[e] + 1 .. ack - 1 : Holds(Peer(e), n)

\* Until it closes, an end is told of bytes that its peer has.
ReceivedOk(e) ==
    ~CloseBegun(e) =>
        /\ Received(e, cur_ack[Peer(e)])
        /\ \A p \in net : p.to = e => Received(e, p.ack)
        /\ \A h \in handling : h.pkt.to = e => Received(e, h.pkt.ack)

\* The bytes of call w are with the reader of the peer, or in its window.
Written(w) ==
    \A n \in writeIndex[w] .. writeIndex[w] + Size[w] - 1 : Holds(Peer(Caller[w]), n)

\* A call that has succeeded, or whose buffer has been acknowledged, has its bytes there.
WroteInv ==
    \A w \in Calls :
        /\ Pending(w) \/ writePc[w] = "ok" => writeIndex[w] > ISN[Caller[w]]
        /\ writePc[w] = "ok" \/ (Pending(w) /\ BufferOf(w) = {}) => Written(w)

ConfirmInv == LenInv /\ WroteInv /\ \A e \in Ends : ReceivedOk(e)

\* What moves the receive window: a Read that returns, and a packet of data.
LEMMA RecvSteps ==
    ASSUME [Next]_vars
    PROVE  \/ \E e \in Ends : ReadNothing(e) \/ \E len \in ReadLens : ReadData(e, len)
           \/ \E h \in handling : HandleData(h)
           \/ UNCHANGED <<recvSegments, got>>
<1>1. CASE UNCHANGED vars
  BY <1>1 DEF vars
<1>2. CASE Opening
  BY <1>2 DEF Opening, OpenRefused, OpenStart, OpenFinish, OpenAborted, OpenTimeout, ExpectFrom
<1>3. CASE Accepting
  BY <1>3 DEF Accepting, TakeSyn, HandleSyn, WaitForOpenStart, WaitForOpenFinish, WaitForOpenTimeout,
     ExpectFrom
<1>4. ASSUME NEW w \in Calls, Writing(w) PROVE UNCHANGED <<recvSegments, got>>
  BY <1>4 DEF Writing, WriteStart, WriteAppend, WriteSpawn, WriteSpawnRefused, WriteFinish,
     WriteAborted, WriteTimeout
<1>5. ASSUME NEW e \in Ends, ReadStart(e) \/ ReadWait(e) \/ ReadWake(e) \/ ReadFails(e)
      PROVE  UNCHANGED <<recvSegments, got>>
  BY <1>5 DEF ReadStart, ReadWait, ReadWake, ReadFails
<1>6. ASSUME NEW e \in Ends, Closing(e) \/ Working(e) PROVE UNCHANGED <<recvSegments, got>>
  BY <1>6 DEF Closing, CloseClosed, CloseAfterFin, CloseBegin, CloseFin, CloseDone, Abort,
     CloseTimeout, ForceClose, ForceCloseBegin, ForceCloseFin, Remove,
     Working, WriterSend, WriterExit, RetrySend
<1>7. ASSUME NEW p \in net, NEW l \in Links, Receiving(p, l) PROVE UNCHANGED <<recvSegments, got>>
  BY <1>7 DEF Receiving, DropPacket, ReceiveAckOrData, ReceiveSynAck, ReceiveFin, ReceiveFinAck
<1>8. ASSUME NEW p \in net, QueueSyn(p) \/ Lose(p) \/ DropUnknown(p)
      PROVE  UNCHANGED <<recvSegments, got>>
  BY <1>8 DEF QueueSyn, Lose, DropUnknown
<1>9. ASSUME NEW h \in handling, Handle(h), ~HandleData(h) PROVE UNCHANGED <<recvSegments, got>>
  BY <1>9 DEF Handle, ThreeWayCheck, Establish, Recheck, AckCompare, AckSegments, AckBuffers
<1>. QED  BY <1>1, <1>2, <1>3, <1>4, <1>5, <1>6, <1>7, <1>8, <1>9 DEF Next, Reading

\* handleData queues the packet or leaves the window alone; in the first case alone it may move cur_ack.
LEMMA DataQueued ==
    ASSUME TypeOK, DataHandlers, NEW h \in handling, HandleData(h)
    PROVE  LET f == h.pkt.to
               segs == recvSegments[f] \cup {PieceOf(h.pkt)}
           IN  /\ f \in Ends /\ PieceOf(h.pkt) \in DataOf(Peer(f)) /\ got' = got
               /\ \/ recvSegments' = recvSegments /\ cur_ack' = cur_ack
                  \/ /\ recvSegments' = [recvSegments EXCEPT ![f] = segs]
                     /\ \/ cur_ack' = cur_ack
                        \/ \E to : /\ IsRunEnd(segs, cur_ack[f], to)
                                   /\ cur_ack' = [cur_ack EXCEPT ![f] = to]
<1>. USE Numbers
<1>1. h.pkt.to \in Ends /\ h.pkt.type = "DATA" /\ Peer(Peer(h.pkt.to)) = h.pkt.to
  BY HandledPacket, TypeGroups DEF HandleData, DataHandlers, Peer, Ends
<1>2. PieceOf(h.pkt) \in DataOf(Peer(h.pkt.to))
  BY <1>1 DEF DataOf
<1>3. got' = got
  BY DEF HandleData
<1>. DEFINE f == h.pkt.to
            segs == recvSegments[f] \cup {PieceOf(h.pkt)}
<1>4. CASE IsDuplicate(f, h.pkt)
  <2>1. recvSegments' = recvSegments /\ cur_ack' = cur_ack
    BY <1>4 DEF HandleData
  <2>. QED  BY <1>1, <1>2, <1>3, <2>1
<1>5. CASE ~IsDuplicate(f, h.pkt)
  <2>1. recvSegments' = [recvSegments EXCEPT ![f] = segs] /\ ExpectAfter(f, h.pkt, segs)
    BY <1>5 DEF HandleData, PieceOf
  <2>. HIDE DEF segs
  <2>2. \/ cur_ack' = cur_ack
        \/ \E to : IsRunEnd(segs, cur_ack[f], to) /\ cur_ack' = [cur_ack EXCEPT ![f] = to]
    BY <2>1 DEF ExpectAfter
  <2>. QED  BY <1>1, <1>2, <1>3, <2>1, <2>2 DEF segs
<1>. QED  BY <1>4, <1>5

\* A set of numbers has a least one.
LEMMA LeastNumber ==
    ASSUME NEW T, T \subseteq Nat, T # {}
    PROVE  \E x \in T : \A y \in T : x <= y
<1>. DEFINE R == {ss \in Nat \X Nat : ss[1] < ss[2]}
<1>1. IsWellFoundedOn(R, Nat)
  BY NatLessThanWellFounded DEF OpToRel
<1>2. \A x, y \in Nat : y < x => <<y, x>> \in R
  OBVIOUS
<1>. HIDE DEF R
<1>3. PICK x \in T : \A y \in T : ~ (<<y, x>> \in R)
  BY <1>1, WFMin
<1>4. \A y \in T : ~(y < x)
  BY <1>2, <1>3
<1>. QED  BY <1>3, <1>4

\* The loop of handleData passes over no number that no segment holds.
LEMMA RunCovers ==
    ASSUME NEW segs, segs \subseteq Piece, \A s \in segs : s.len > 0,
           NEW from \in Nat, NEW to, IsRunEnd(segs, from, to), NEW n \in from .. to - 1
    PROVE  \E s \in segs : n \in s.seq .. EndOf(s) - 1
<1>1. \A s \in segs : s.seq \in Nat /\ EndOf(s) \in Nat /\ EndOf(s) > s.seq
  BY DEF Piece, EndOf
<1>. DEFINE B == Boundaries(segs, from)
<1>2. from \in B /\ B \subseteq Nat /\ \A b \in B : b >= from
  BY <1>1 DEF Boundaries
<1>3. to \in B /\ \A b \in B : b < to => \E s \in segs : s.seq = b
  BY DEF IsRunEnd
<1>4. \A s \in segs : s.seq >= from => EndOf(s) \in B
  BY DEF Boundaries
<1>. HIDE DEF B
<1>5. n \in Nat /\ from <= n /\ n < to
  BY <1>2, <1>3
<1>6. \E m \in B : m <= n /\ \A b \in B : b <= n => b <= m
  <2>. DEFINE T == {n - b : b \in {c \in B : c <= n}}
  <2>1. T \subseteq Nat /\ T # {}
    BY <1>2, <1>5
  <2>2. PICK d \in T : \A y \in T : d <= y
    BY <2>1, LeastNumber
  <2>3. PICK m \in B : m <= n /\ d = n - m
    BY <2>2
  <2>4. ASSUME NEW b \in B, b <= n PROVE b <= m
    <3>1. n - b \in T
      BY <2>4
    <3>2. n - m <= n - b
      BY <2>2, <2>3, <3>1
    <3>. QED  BY <1>2, <1>5, <2>3, <3>2
  <2>. QED  BY <2>3, <2>4
<1>7. PICK m \in B : m <= n /\ \A b \in B : b <= n => b <= m
  BY <1>6
<1>8. m < to /\ m >= from
  BY <1>2, <1>3, <1>5, <1>7
<1>9. PICK s \in segs : s.seq = m
  BY <1>3, <1>8
<1>10. EndOf(s) \in B /\ EndOf(s) > m
  BY <1>1, <1>4, <1>8, <1>9
<1>11. EndOf(s) > n
  BY <1>1, <1>2, <1>5, <1>7, <1>10
<1>. QED  BY <1>1, <1>5, <1>7, <1>9, <1>11

\* A byte that has arrived stays with the reader or in the window.
LEMMA HoldsStays ==
    ASSUME TypeOK, EarlyInv, DataInv, DataHandlers, ReaderInv, ReaderInv', [Next]_vars,
           NEW f \in Ends, NEW n \in Nat, Holds(f, n)
    PROVE  Holds(f, n)'
<1>. USE Numbers
<1>0. /\ got \in [Ends -> Seq(Nat)] /\ got' \in [Ends -> Seq(Nat)] /\ head_seq \in [Ends -> Nat]
      /\ recvSegments \in [Ends -> SUBSET Piece] /\ ISN[Peer(f)] \in Nat
  <2>1. TypeOK'
    BY NextTyped
  <2>. QED  BY <2>1 DEF TypeOK
<1>1. CASE UNCHANGED <<recvSegments, got>>
  BY <1>1 DEF Holds
<1>2. ASSUME NEW h \in handling, HandleData(h) PROVE Holds(f, n)'
  <2>1. got' = got
    BY <1>2, DataQueued
  <2>2. recvSegments[f] \subseteq recvSegments'[f]
    <3>. DEFINE e == h.pkt.to
                x == PieceOf(h.pkt)
    <3>1. recvSegments' = recvSegments \/ recvSegments' = [recvSegments EXCEPT ![e] = @ \cup {x}]
      BY <1>2, DataQueued
    <3>2. recvSegments \in [Ends -> SUBSET Piece]
      BY <1>0
    <3>. HIDE DEF e, x
    <3>. QED  BY ONLY <3>1, <3>2, f \in Ends
  <2>. QED  BY <2>1, <2>2 DEF Holds
<1>3. ASSUME NEW e \in Ends, ReadNothing(e) \/ \E len \in ReadLens : ReadData(e, len)
      PROVE  Holds(f, n)'
  <2>1. Started(e) /\ UNCHANGED <<openPc, synHandled>>
    BY <1>3, ReaderReads
  <2>2. PICK upto \in Nat : upto >= head_seq[e] /\ \E fault : ReadReturns(e, upto, fault)
    BY <1>3, ReaderReads
  <2>3. /\ head_seq' = [head_seq EXCEPT ![e] = upto]
        /\ recvSegments' = [recvSegments EXCEPT ![e] = {s \in @ : EndOf(s) > upto}]
        /\ \A g \in Ends \ {e} : got'[g] = got[g]
    BY <1>0, <2>2 DEF ReadReturns
  <2>4. Started(e)'
    BY <2>1 DEF Started
  <2>5. head_seq[e] = ISN[Peer(e)] + 1 + Len(got[e]) /\ upto = ISN[Peer(e)] + 1 + Len(got'[e])
    <3>1. head_seq[e] = ISN[Peer(e)] + 1 + Len(got[e])
      BY <2>1 DEF ReaderInv
    <3>2. head_seq'[e] = ISN[Peer(e)] + 1 + Len(got'[e])
      BY <2>4 DEF ReaderInv
    <3>3. head_seq'[e] = upto
      BY <1>0, <2>3
    <3>. QED  BY <3>1, <3>2, <3>3
  <2>6. CASE f # e
    BY <1>0, <2>3, <2>6 DEF Holds
  <2>7. CASE f = e
    <3>1. Len(got[f]) \in Nat /\ Len(got'[f]) \in Nat
      BY <1>0, LenProperties
    <3>2. Len(got[f]) <= Len(got'[f]) /\ upto = ISN[Peer(f)] + 1 + Len(got'[f])
      <4>1. ISN[Peer(f)] \in Nat /\ upto >= head_seq[f]
        BY <1>0, <2>2, <2>7
      <4>2. head_seq[f] = ISN[Peer(f)] + 1 + Len(got[f]) /\ upto = ISN[Peer(f)] + 1 + Len(got'[f])
        BY ONLY <2>5, <2>7
      <4>. QED  BY ONLY <3>1, <4>1, <4>2
    <3>3. CASE n <= ISN[Peer(f)] + Len(got[f])
      <4>1. ISN[Peer(f)] \in Nat /\ n \in Nat
        BY <1>0
      <4>2. n <= ISN[Peer(f)] + Len(got'[f])
        BY ONLY <3>1, <3>2, <3>3, <4>1
      <4>. QED  BY <4>2 DEF Holds
    <3>4. ASSUME NEW s \in recvSegments[f], n \in s.seq .. EndOf(s) - 1 PROVE Holds(f, n)'
      <4>1. s.seq \in Nat /\ EndOf(s) \in Nat
        <5>1. recvSegments[f] \subseteq Piece
          BY <1>0
        <5>. QED  BY <5>1 DEF Piece, EndOf
      <4>2. CASE EndOf(s) > upto
        <5>1. s \in recvSegments'[f]
          BY <1>0, <2>3, <2>7, <4>2
        <5>. QED  BY <3>4, <5>1 DEF Holds, EndOf
      <4>3. CASE ~(EndOf(s) > upto)
        <5>1. n <= ISN[Peer(f)] + Len(got'[f])
          <6>1. ISN[Peer(f)] \in Nat /\ n \in Nat
            BY <1>0
          <6>. QED  BY ONLY <3>1, <3>2, <3>4, <4>1, <4>3, <6>1, upto \in Nat
        <5>. QED  BY <5>1 DEF Holds
      <4>. QED  BY <4>2, <4>3
    <3>. QED  BY <3>3, <3>4 DEF Holds
  <2>. QED  BY <2>6, <2>7
<1>. QED  BY <1>1, <1>2, <1>3, RecvSteps

\* writerThread cuts no empty piece.
LEMMA LenKept ==
    ASSUME TypeOK, EarlyInv, DataInv, DataHandlers, OrderlyInv, OrderlyInv', LenInv, [Next]_vars
    PROVE  LenInv'
<1>. SUFFICES ASSUME NEW e \in Ends, NEW x \in DataOf(e)' PROVE x.len > 0
  BY DEF LenInv
<1>. USE Numbers
<1>0. /\ \A y \in DataOf(e) : y.len > 0
      /\ Peer(e) \in Ends /\ \A g \in Ends : Peer(g) = Peer(e) => g = e
  BY DEF LenInv, Peer, Ends
<1>1. \A s \in retrySegments'[e] : s.type = "DATA" => s.len > 0
  BY DEF OrderlyInv, SegmentsOk
<1>2. ASSUME NEW p \in net', p.type = "DATA", p.to = Peer(e) PROVE p.len > 0
  <2>1. CASE p \in net
    <3>1. PieceOf(p) \in DataOf(e)
      BY <1>2, <2>1 DEF DataOf
    <3>. QED  BY <1>0, <3>1 DEF PieceOf
  <2>2. ASSUME NEW g \in Ends, NewPacket(p, g) PROVE p.len > 0
    <3>1. g = e
      BY <1>0, <1>2, <2>2 DEF NewPacket
    <3>2. CASE \E s \in retrySegments'[e] : s.type = "DATA" /\ p.len = s.len
      BY <1>1, <3>2
    <3>3. ASSUME NEW s \in retrySegments[e], RetrySend(e, s), p.type = s.type, p.len = s.len
          PROVE  p.len > 0
      <4>1. retrySegments' = retrySegments
        BY <3>3 DEF RetrySend
      <4>. QED  BY <1>1, <1>2, <3>3, <4>1
    <3>. QED  BY <1>2, <2>2, <3>1, <3>2, <3>3 DEF NewPacket
  <2>. QED  BY <2>1, <2>2, NewPackets
<1>3. ASSUME NEW g \in handling', g.pkt.type = "DATA", g.pkt.to = Peer(e) PROVE g.pkt.len > 0
  <2>1. \/ \E h \in handling : g.pkt = h.pkt
        \/ \E p \in net : g.pkt = p
    BY HandlerMoves
  <2>2. PieceOf(g.pkt) \in DataOf(e)
    BY <1>3, <2>1 DEF DataOf
  <2>. QED  BY <1>0, <2>2 DEF PieceOf
<1>4. ASSUME NEW s \in recvSegments'[Peer(e)] PROVE s.len > 0
  <2>0. recvSegments \in [Ends -> SUBSET Piece] /\ recvSegments[Peer(e)] \subseteq DataOf(e)
    BY DEF TypeOK, DataOf
  <2>1. CASE UNCHANGED <<recvSegments, got>>
    BY <1>0, <1>4, <2>0, <2>1
  <2>2. ASSUME NEW f \in Ends, ReadNothing(f) \/ \E len \in ReadLens : ReadData(f, len)
        PROVE  s.len > 0
    <3>1. \E upto, fault : ReadReturns(f, upto, fault)
      BY <2>2, ReaderReads
    <3>2. recvSegments'[Peer(e)] \subseteq recvSegments[Peer(e)]
      BY <1>0, <2>0, <3>1 DEF ReadReturns
    <3>. QED  BY <1>0, <1>4, <2>0, <3>2
  <2>3. ASSUME NEW h \in handling, HandleData(h) PROVE s.len > 0
    <3>. DEFINE f == h.pkt.to
                y == PieceOf(h.pkt)
    <3>1. /\ f \in Ends /\ y \in DataOf(Peer(f))
          /\ recvSegments' = recvSegments \/ recvSegments' = [recvSegments EXCEPT ![f] = @ \cup {y}]
      BY <2>3, DataQueued
    <3>. HIDE DEF f, y
    <3>2. s \in recvSegments[Peer(e)] \/ (f = Peer(e) /\ s = y)
      BY <1>0, <1>4, <2>0, <3>1
    <3>3. f = Peer(e) => Peer(f) = e
      BY DEF Peer, Ends
    <3>. QED  BY <1>0, <2>0, <3>1, <3>2, <3>3
  <2>. QED  BY <2>1, <2>2, <2>3, RecvSteps
<1>5. \/ \E s \in retrySegments'[e] : s.type = "DATA" /\ x = PieceOf(s)
      \/ \E p \in net' : p.type = "DATA" /\ p.to = Peer(e) /\ x = PieceOf(p)
      \/ \E g \in handling' : g.pkt.type = "DATA" /\ g.pkt.to = Peer(e) /\ x = PieceOf(g.pkt)
      \/ x \in recvSegments'[Peer(e)]
  BY DEF DataOf
<1>. QED  BY <1>1, <1>2, <1>3, <1>4, <1>5 DEF PieceOf

\* What has been received stays so.
LEMMA ReceivedStays ==
    ASSUME TypeOK, EarlyInv, DataInv, DataHandlers, ReaderInv, ReaderInv', [Next]_vars,
           NEW e \in Ends, NEW ack \in Nat, Received(e, ack)
    PROVE  \A n \in ISN[e] + 1 .. ack - 1 : Holds(Peer(e), n)'
<1>. SUFFICES ASSUME NEW n \in ISN[e] + 1 .. ack - 1 PROVE Holds(Peer(e), n)'
  OBVIOUS
<1>1. Peer(e) \in Ends /\ n \in Nat
  BY Numbers
<1>2. Holds(Peer(e), n)
  BY DEF Received
<1>. QED  BY <1>1, <1>2, HoldsStays

\* Until e closes, its peer acknowledges what it has received.
LEMMA AckReceived ==
    ASSUME TypeOK, EarlyInv, DataInv, DataHandlers, SynAckInv, ReaderInv, ReaderInv', OrderlyInv,
           LenInv, [Next]_vars, NEW e \in Ends, ~CloseBegun(e), ReceivedOk(e)
    PROVE  \A n \in ISN[e] + 1 .. cur_ack'[Peer(e)] - 1 : Holds(Peer(e), n)'
<1>. USE Numbers
<1>. DEFINE f == Peer(e)
<1>0. f \in Ends /\ f # e /\ Peer(f) = e /\ ISN[e] \in Nat
  BY DEF Peer, Ends
<1>. HIDE DEF f
<1>1. cur_ack \in [Ends -> Nat] /\ recvSegments \in [Ends -> SUBSET Piece]
  BY DEF TypeOK
<1>2. \A n \in ISN[e] + 1 .. cur_ack[f] - 1 : Holds(f, n)'
  <2>1. Received(e, cur_ack[f])
    BY DEF ReceivedOk, f
  <2>2. cur_ack[f] \in Nat
    BY <1>0, <1>1
  <2>. QED  BY <2>1, <2>2, ReceivedStays DEF f
<1>3. CASE cur_ack'[f] = cur_ack[f]
  BY <1>2, <1>3 DEF f
<1>4. CASE cur_ack'[f] = ISN[e] + 1
  BY <1>0, <1>4 DEF f
<1>5. CASE OpenFinish
  <2>1. PICK p \in openQueue : ExpectFrom(Client, p.seq)
    BY <1>5 DEF OpenFinish
  <2>2. cur_ack' = [cur_ack EXCEPT ![Client] = ISN[Server] + 1]
    BY <2>1 DEF SynAckInv, ExpectFrom
  <2>. QED  BY <1>0, <1>1, <1>3, <1>4, <2>2 DEF Peer
<1>6. CASE HandleSyn
  <2>1. cur_ack' = [cur_ack EXCEPT ![Server] = ISN[Client] + 1]
    BY <1>6 DEF HandleSyn, ExpectFrom
  <2>. QED  BY <1>0, <1>1, <1>3, <1>4, <2>1 DEF Peer, Ends
<1>7. ASSUME NEW p \in net, NEW l \in Links, ReceiveFin(p, l) PROVE cur_ack'[f] = cur_ack[f]
  <2>1. p.to # f
    BY <1>7 DEF OrderlyInv, AcksOk, ReceiveFin, f
  <2>2. cur_ack' = [cur_ack EXCEPT ![p.to] = p.seq + 1]
    BY <1>7 DEF ReceiveFin
  <2>. QED  BY <1>0, <1>1, <2>1, <2>2
<1>8. ASSUME NEW h \in handling, HandleData(h), cur_ack'[f] # cur_ack[f]
      PROVE  \A n \in ISN[e] + 1 .. cur_ack'[f] - 1 : Holds(f, n)'
  <2>. DEFINE x == PieceOf(h.pkt)
              segs == recvSegments[f] \cup {x}
  <2>1. h.pkt.to = f
    BY <1>0, <1>8, HandledAck
  <2>2. /\ x \in DataOf(e)
        /\ \/ cur_ack' = cur_ack
           \/ /\ recvSegments' = [recvSegments EXCEPT ![f] = segs]
              /\ \/ cur_ack' = cur_ack
                 \/ \E to : IsRunEnd(segs, cur_ack[f], to) /\ cur_ack' = [cur_ack EXCEPT ![f] = to]
    BY <1>0, <1>8, <2>1, DataQueued
  <2>3. recvSegments[f] \subseteq DataOf(e)
    BY DEF DataOf, f
  <2>. HIDE DEF x
  <2>4. segs \subseteq Piece /\ \A s \in segs : s.len > 0
    <3>1. DataOf(e) \subseteq Piece
      BY DataTyped
    <3>2. \A s \in DataOf(e) : s.len > 0
      BY DEF LenInv
    <3>. QED  BY <2>2, <2>3, <3>1, <3>2
  <2>. HIDE DEF segs
  <2>5. PICK to : IsRunEnd(segs, cur_ack[f], to) /\ cur_ack' = [cur_ack EXCEPT ![f] = to]
    BY <1>8, <2>2
  <2>6. recvSegments'[f] = segs /\ cur_ack'[f] = to /\ cur_ack[f] \in Nat
    BY <1>0, <1>1, <1>8, <2>2, <2>5
  <2>7. ASSUME NEW n \in ISN[e] + 1 .. to - 1 PROVE Holds(f, n)'
    <3>0. to \in Nat
      <4>1. to \in Boundaries(segs, cur_ack[f])
        BY <2>5 DEF IsRunEnd
      <4>. QED  BY <2>4, <2>6, <4>1 DEF Boundaries, Piece, EndOf
    <3>1. CASE n < cur_ack[f]
      <4>1. n \in ISN[e] + 1 .. cur_ack[f] - 1
        BY <1>0, <2>6, <3>0, <3>1
      <4>. QED  BY <1>2, <4>1
    <3>2. CASE ~(n < cur_ack[f])
      <4>1. n \in cur_ack[f] .. to - 1
        BY <1>0, <2>6, <3>0, <3>2
      <4>2. \E s \in segs : n \in s.seq .. EndOf(s) - 1
        BY <2>4, <2>5, <2>6, <4>1, RunCovers
      <4>. QED  BY <2>6, <4>2 DEF Holds, EndOf
    <3>. QED  BY <3>1, <3>2
  <2>. QED  BY <2>6, <2>7
<1>. QED  BY <1>3, <1>5, <1>6, <1>7, <1>8, AckSteps DEF f

\* Until an end closes, it is told of what its peer has received, and of no more.
LEMMA ReceivedKept ==
    ASSUME TypeOK, EarlyInv, DataInv, DataHandlers, SynAckInv, ReaderInv, ReaderInv', OrderlyInv,
           LenInv, [Next]_vars, NEW e \in Ends, ReceivedOk(e)
    PROVE  ReceivedOk(e)'
<1>. SUFFICES ASSUME ~CloseBegun(e)'
              PROVE  /\ \A n \in ISN[e] + 1 .. cur_ack'[Peer(e)] - 1 : Holds(Peer(e), n)'
                     /\ \A p \in net' : p.to = e =>
                            \A n \in ISN[e] + 1 .. p.ack - 1 : Holds(Peer(e), n)'
                     /\ \A g \in handling' : g.pkt.to = e =>
                            \A n \in ISN[e] + 1 .. g.pkt.ack - 1 : Holds(Peer(e), n)'
  BY DEF ReceivedOk, Received
<1>. USE Numbers
<1>1. ~CloseBegun(e)
  BY CloseStays
<1>2. \A n \in ISN[e] + 1 .. cur_ack'[Peer(e)] - 1 : Holds(Peer(e), n)'
  BY <1>1, AckReceived
<1>3. /\ \A p \in net : p.to = e => Received(e, p.ack)
      /\ \A h \in handling : h.pkt.to = e => Received(e, h.pkt.ack)
      /\ Received(e, cur_ack[Peer(e)])
  BY <1>1 DEF ReceivedOk
<1>4. /\ \A p \in net : p.ack \in Nat
      /\ \A h \in handling : h.pkt.ack \in Nat
      /\ cur_ack \in [Ends -> Nat]
  <2>1. \A p \in Packet : p.ack \in Nat
    BY DEF Packet
  <2>2. net \subseteq Packet /\ handling \subseteq Handling /\ cur_ack \in [Ends -> Nat]
    BY DEF TypeOK
  <2>3. \A h \in Handling : h.pkt \in Packet
    BY DEF Handling
  <2>. QED  BY <2>1, <2>2, <2>3
<1>5. ASSUME NEW ack \in Nat, Received(e, ack)
      PROVE  \A n \in ISN[e] + 1 .. ack - 1 : Holds(Peer(e), n)'
  BY <1>5, ReceivedStays
<1>6. ASSUME NEW p \in net', p.to = e PROVE \A n \in ISN[e] + 1 .. p.ack - 1 : Holds(Peer(e), n)'
  <2>1. CASE p \in net
    BY <1>3, <1>4, <1>5, <1>6, <2>1
  <2>2. ASSUME NEW g \in Ends, NewPacket(p, g)
        PROVE  \A n \in ISN[e] + 1 .. p.ack - 1 : Holds(Peer(e), n)'
    <3>1. p.to = Peer(g) /\ (p.ack = cur_ack[g] \/ p.ack = cur_ack'[g])
      BY <2>2 DEF NewPacket
    <3>2. g = Peer(e)
      BY <1>6, <3>1 DEF Peer, Ends
    <3>3. CASE p.ack = cur_ack[g]
      <4>1. p.ack \in Nat /\ Received(e, p.ack)
        BY <1>3, <1>4, <3>2, <3>3
      <4>. QED  BY <1>5, <4>1
    <3>4. CASE p.ack = cur_ack'[g]
      BY <1>2, <3>2, <3>4
    <3>. QED  BY <3>1, <3>3, <3>4
  <2>. QED  BY <2>1, <2>2, NewPackets
<1>7. ASSUME NEW g \in handling', g.pkt.to = e
      PROVE  \A n \in ISN[e] + 1 .. g.pkt.ack - 1 : Holds(Peer(e), n)'
  <2>1. g \in handling \/ g.pkt \in net \/ \E h \in handling : g.pkt = h.pkt
    BY HandlerMoves
  <2>2. g.pkt.ack \in Nat /\ Received(e, g.pkt.ack)
    BY <1>3, <1>4, <1>7, <2>1
  <2>. QED  BY <1>5, <2>2
<1>. QED  BY <1>2, <1>6, <1>7

\* How a call of Write goes on: it appends its buffer, keeps its place and goes on, or fails.
LEMMA WriteGoes ==
    ASSUME TypeOK, [Next]_vars, NEW w \in Calls
    PROVE  \/ WriteAppend(w)
           \/ /\ writeIndex'[w] = writeIndex[w]
              /\ Pending(w)' => Pending(w)
              /\ writePc'[w] = "ok" => writePc[w] = "ok" \/ (Pending(w) /\ BufferOf(w) = {})
              /\ GiveUp(w) => ~Pending(w)'
<1>. writePc \in [Calls -> {"idle", "checked", "appended", "waiting", "ok", "failed"}]
  BY DEF TypeOK
<1>1. ASSUME NEW v \in Calls, Writing(v), ~WriteAppend(v)
      PROVE  /\ writeIndex' = writeIndex
             /\ Pending(w)' => Pending(w)
             /\ writePc'[w] = "ok" => writePc[w] = "ok" \/ (Pending(w) /\ BufferOf(w) = {})
  <2>1. writeIndex' = writeIndex
    BY <1>1 DEF Writing, WriteStart, WriteSpawn, WriteSpawnRefused, WriteFinish, WriteAborted,
       WriteTimeout
  <2>2. \/ writePc' = [writePc EXCEPT ![v] = "checked"] /\ WriteStart(v)
        \/ writePc' = [writePc EXCEPT ![v] = "waiting"] /\ Pending(v)
        \/ writePc' = [writePc EXCEPT ![v] = "failed"]
        \/ writePc' = [writePc EXCEPT ![v] = "ok"] /\ Pending(v) /\ BufferOf(v) = {}
    BY <1>1 DEF Writing, WriteStart, WriteSpawn, WriteSpawnRefused, WriteFinish, WriteAborted,
       WriteTimeout, Pending
  <2>. QED  BY <2>1, <2>2 DEF Pending
<1>2. ASSUME NEW v \in Calls, WriteAppend(v), v # w
      PROVE  writeIndex'[w] = writeIndex[w] /\ writePc'[w] = writePc[w]
  <2>. writeIndex \in [Calls -> Nat]
    BY DEF TypeOK
  <2>. QED  BY <1>2 DEF WriteAppend
<1>3. GiveUp(w) => ~Pending(w)'
  BY DEF GiveUp, WriteSpawnRefused, WriteAborted, WriteTimeout, Pending
<1>4. CASE UNCHANGED writeVars
  BY <1>3, <1>4 DEF Pending
<1>. QED  BY <1>1, <1>2, <1>3, <1>4, WriteSteps DEF Pending

\* The buffer of a call that goes on leaves the window only when the end is told of all its bytes.
LEMMA BufferAcked ==
    ASSUME TypeOK, EarlyInv, OrderlyInv, [Next]_vars, NEW w \in Calls, Pending(w),
           ~GiveUp(w), BufferOf(w) # {}, BufferOf(w)' = {}, writeIndex'[w] = writeIndex[w]
    PROVE  /\ ~CloseBegun(Caller[w])
           /\ \E h \in handling : /\ h.pkt.to = Caller[w] /\ h.pkt.ack \in Nat
                                 /\ writeIndex[w] + Size[w] <= h.pkt.ack
<1>. USE Numbers
<1>. DEFINE e == Caller[w]
<1>0. /\ e \in Ends /\ sendBuffers \in [Ends -> SUBSET Buffer] /\ writeIndex[w] \in Nat
      /\ Size[w] \in Nat \ {0} /\ ISN[e] \in Nat
  BY CallsAssumption DEF TypeOK
<1>1. PICK b \in sendBuffers[e] : b.head_seq = writeIndex[w]
  BY DEF BufferOf
<1>2. \A c \in sendBuffers'[e] : c.head_seq # writeIndex[w]
  BY DEF BufferOf
<1>3. \A v \in Calls : Caller[v] = e /\ ~Resting(v) => v = w
  BY DEF OrderlyInv, CallsInv, Pending, Resting
<1>4. b.size = Size[w] /\ ~CloseBegun(e)
  <2>1. PICK v \in Calls : /\ Caller[v] = e /\ writePc[v] \in {"appended", "waiting"}
                           /\ Size[v] = b.size
    BY <1>0, <1>1 DEF OrderlyInv, BuffersOk
  <2>2. v = w
    BY <1>3, <2>1 DEF Resting
  <2>3. ~CloseBegun(e)
    BY <1>0, <1>1, OneBuffer
  <2>. QED  BY <2>1, <2>2, <2>3
<1>. HIDE DEF e
<1>5. b \notin sendBuffers'[e]
  BY <1>1, <1>2
<1>6. ASSUME NEW v \in Calls, WriteAppend(v) PROVE FALSE
  <2>1. sendBuffers[e] \subseteq sendBuffers'[e]
    BY <1>0, <1>6, Appended
  <2>. QED  BY <1>1, <1>5, <2>1
<1>7. ASSUME NEW v \in Calls, GiveUp(v) PROVE FALSE
  <2>1. ~Resting(v) /\ CancelFromBuffers(Caller[v], writeIndex[v])
    BY <1>7 DEF GiveUp, WriteSpawnRefused, WriteAborted, WriteTimeout, Resting
  <2>2. Caller[v] # e
    BY <1>3, <1>7, <2>1
  <2>3. sendBuffers'[e] = sendBuffers[e]
    BY <1>0, <2>1, <2>2 DEF CancelFromBuffers
  <2>. QED  BY <1>1, <1>5, <2>3
<1>8. ASSUME NEW g \in Ends, Clear(g) PROVE FALSE
  <2>. DEFINE c == [b EXCEPT !.aborted = TRUE]
  <2>1. b \in Buffer
    BY <1>0, <1>1
  <2>2. c.head_seq = b.head_seq
    BY <2>1 DEF Buffer
  <2>3. b \in sendBuffers'[e] \/ c \in sendBuffers'[e]
    BY <1>0, <1>1, <1>8 DEF Clear
  <2>. HIDE DEF c
  <2>. QED  BY <1>1, <1>2, <2>2, <2>3
<1>9. ASSUME NEW h \in handling, AckBuffers(h)
      PROVE  h.pkt.to = e /\ h.pkt.ack \in Nat /\ writeIndex[w] + Size[w] <= h.pkt.ack
  <2>1. b \in AckedBuffers(sendBuffers[e], h.pkt.ack) /\ h.pkt.to = e
    BY <1>0, <1>1, <1>5, <1>9 DEF AckBuffers
  <2>2. b.head_seq + b.size <= h.pkt.ack
    <3>1. b.head_seq <= b.head_seq
      BY <1>0, <1>1
    <3>. QED  BY <1>1, <2>1, <3>1 DEF AckedBuffers
  <2>3. h.pkt.ack \in Nat
    <3>1. h.pkt \in Packet
      BY HandledPacket, TypeGroups
    <3>. QED  BY <3>1 DEF Packet
  <2>4. writeIndex[w] + Size[w] <= h.pkt.ack
    BY <1>1, <1>4, <2>2
  <2>. QED  BY <2>1, <2>3, <2>4
<1>10. sendBuffers' # sendBuffers
  BY <1>1, <1>5
<1>11. PICK h \in handling : AckBuffers(h)
  BY <1>6, <1>7, <1>8, <1>10, BufferSteps
<1>12. h.pkt.to = e /\ h.pkt.ack \in Nat /\ writeIndex[w] + Size[w] <= h.pkt.ack
  BY <1>9, <1>11
<1>. QED  BY <1>4, <1>12 DEF e

\* And by then the peer has those bytes.
LEMMA BufferReceived ==
    ASSUME TypeOK, EarlyInv, OrderlyInv, WroteInv, [Next]_vars, NEW w \in Calls, Pending(w),
           ~GiveUp(w), BufferOf(w) # {}, BufferOf(w)' = {}, writeIndex'[w] = writeIndex[w],
           ReceivedOk(Caller[w])
    PROVE  Written(w)
<1>. USE Numbers
<1>. DEFINE e == Caller[w]
<1>0. /\ e \in Ends /\ ISN[e] \in Nat /\ writeIndex[w] \in Nat /\ Size[w] \in Nat
      /\ writeIndex[w] > ISN[e]
  BY DEF TypeOK, WroteInv
<1>. HIDE DEF e
<1>1. PICK h \in handling : h.pkt.to = e /\ h.pkt.ack \in Nat /\ writeIndex[w] + Size[w] <= h.pkt.ack
  BY BufferAcked DEF e
<1>2. Received(e, h.pkt.ack)
  BY <1>1, BufferAcked DEF ReceivedOk, e
<1>3. \A n \in writeIndex[w] .. writeIndex[w] + Size[w] - 1 : n \in ISN[e] + 1 .. h.pkt.ack - 1
  BY ONLY <1>0, <1>1
<1>. QED  BY <1>2, <1>3 DEF Received, Written, e

\* A call that has succeeded, or is about to, has its bytes where they should be.
LEMMA WroteKept ==
    ASSUME Orderly, TypeOK, EarlyInv, LifeInv, DataInv, DataHandlers, ReaderInv, ReaderInv',
           OrderlyInv, WroteInv, [Next]_vars, \A e \in Ends : ReceivedOk(e)
    PROVE  WroteInv'
<1>. USE Numbers
<1>. SUFFICES ASSUME NEW w \in Calls
              PROVE  /\ Pending(w)' \/ writePc'[w] = "ok" => writeIndex'[w] > ISN[Caller[w]]
                     /\ writePc'[w] = "ok" \/ (Pending(w)' /\ BufferOf(w)' = {}) => Written(w)'
  BY DEF WroteInv
<1>0. /\ Caller[w] \in Ends /\ Peer(Caller[w]) \in Ends /\ writeIndex \in [Calls -> Nat]
      /\ writePc \in [Calls -> {"idle", "checked", "appended", "waiting", "ok", "failed"}]
      /\ Size[w] \in Nat
  BY CallsAssumption DEF TypeOK
<1>1. CASE WriteAppend(w)
  <2>. DEFINE e == Caller[w]
              b == [head_seq |-> nextBufferIndex[e], size |-> Size[w], aborted |-> FALSE]
  <2>1. \/ writePc'[w] = "failed"
        \/ /\ writePc'[w] = "appended" /\ writeIndex'[w] = nextBufferIndex[e]
           /\ b \in sendBuffers'[e]
    BY <1>0, <1>1, Appended
  <2>2. nextBufferIndex[e] > ISN[e]
    <3>1. openPc[e] = "ok"
      BY <1>1, Appended
    <3>2. ~Early(e)
      BY <1>0, <3>1, OrderlySteps
    <3>. QED  BY <1>0, <3>2 DEF OrderlyInv, OpenedInv
  <2>3. b.head_seq = nextBufferIndex[e]
    OBVIOUS
  <2>. HIDE DEF b
  <2>. QED  BY <2>1, <2>2, <2>3 DEF Pending, BufferOf
<1>2. CASE ~WriteAppend(w)
  <2>1. /\ writeIndex'[w] = writeIndex[w]
        /\ Pending(w)' => Pending(w)
        /\ writePc'[w] = "ok" => writePc[w] = "ok" \/ (Pending(w) /\ BufferOf(w) = {})
        /\ GiveUp(w) => ~Pending(w)'
    BY <1>2, WriteGoes
  <2>2. /\ Pending(w) \/ writePc[w] = "ok" => writeIndex[w] > ISN[Caller[w]]
        /\ writePc[w] = "ok" \/ (Pending(w) /\ BufferOf(w) = {}) => Written(w)
    BY DEF WroteInv
  <2>3. ASSUME Written(w) PROVE Written(w)'
    <3>1. \A n \in writeIndex[w] .. writeIndex[w] + Size[w] - 1 : Holds(Peer(Caller[w]), n)'
      <4>1. SUFFICES ASSUME NEW n \in writeIndex[w] .. writeIndex[w] + Size[w] - 1
                     PROVE  Holds(Peer(Caller[w]), n)'
        OBVIOUS
      <4>2. n \in Nat
        BY <1>0
      <4>3. Holds(Peer(Caller[w]), n)
        BY <2>3 DEF Written
      <4>. QED  BY <1>0, <4>2, <4>3, HoldsStays
    <3>. QED  BY <2>1, <3>1 DEF Written
  <2>4. ASSUME Pending(w)', BufferOf(w)' = {}, BufferOf(w) # {} PROVE Written(w)
    BY <1>0, <2>1, <2>4, BufferReceived
  <2>. QED  BY <2>1, <2>2, <2>3, <2>4
<1>. QED  BY <1>1, <1>2

\* What orderly ends are told of they have, and what is confirmed they have.
LEMMA ConfirmAlways == ASSUME Orderly PROVE Spec => []ConfirmInv
<1>. USE Numbers
<1>1. Init => ConfirmInv
  <2>. SUFFICES ASSUME Init PROVE ConfirmInv
    OBVIOUS
  <2>1. \A e \in Ends : DataOf(e) = {}
    BY DEF Init, DataOf
  <2>2. WroteInv
    BY DEF Init, WroteInv, Pending
  <2>3. ASSUME NEW e \in Ends PROVE ReceivedOk(e)
    <3>1. cur_ack[Peer(e)] = 0 /\ net = {} /\ handling = {} /\ ISN[e] \in Nat
      BY DEF Init
    <3>. QED  BY <3>1 DEF ReceivedOk, Received
  <2>. QED  BY <2>1, <2>2, <2>3 DEF ConfirmInv, LenInv
<1>2. TypeOK /\ EarlyInv /\ LifeInv /\ DataInv /\ DataHandlers /\ SynAckInv /\ ReaderInv
         /\ ReaderInv' /\ OrderlyInv /\ OrderlyInv' /\ ConfirmInv /\ [Next]_vars => ConfirmInv'
  <2>. SUFFICES ASSUME TypeOK, EarlyInv, LifeInv, DataInv, DataHandlers, SynAckInv,
                       ReaderInv, ReaderInv', OrderlyInv, OrderlyInv', ConfirmInv, [Next]_vars
                PROVE  ConfirmInv'
    OBVIOUS
  <2>0. LenInv /\ WroteInv /\ \A e \in Ends : ReceivedOk(e)
    BY DEF ConfirmInv
  <2>1. LenInv'
    BY <2>0, LenKept
  <2>2. WroteInv'
    BY <2>0, WroteKept
  <2>3. \A e \in Ends : ReceivedOk(e)'
    BY <2>0, ReceivedKept
  <2>. QED  BY <2>1, <2>2, <2>3 DEF ConfirmInv
<1>3. OneLink /\ MaxSyn <= 1
  BY DEF Orderly
<1>4. Spec => [](DataInv /\ DataHandlers)
  BY <1>3, DataAlways
<1>5. Spec => []LifeInv
  BY <1>3, LifeAlways
<1>6. Spec => []SynAckInv
  BY <1>3, SynAckAlways
<1>7. Spec => []ReaderInv
  BY <1>3, ReaderAlways
<1>. QED  BY <1>1, <1>2, <1>4, <1>5, <1>6, <1>7, TypeCorrect, EarlyAlways, OrderlyAlways, PTL DEF Spec

\* What Write confirms has arrived: a call that returned TS_OK wrote bytes that the reader of the
\* other end has been given or finds in its window, while the applications make one call at a time.
THEOREM ConfirmedIsReceived == ASSUME Orderly PROVE Spec => []ConfirmedReceived
<1>1. ConfirmInv => ConfirmedReceived
  BY DEF ConfirmInv, WroteInv, Written, ConfirmedReceived
<1>. QED  BY <1>1, ConfirmAlways, PTL

-----------------------------------------------------------------------------
(* The stream *)

\* What was shown of an orderly tunnel so far.
TunnelInv ==
    /\ TypeOK /\ EarlyInv /\ LifeInv /\ DataInv /\ DataHandlers /\ SynAckInv /\ ReaderInv
    /\ OrderlyInv /\ ConfirmInv

\* Until Open has its SYN_ACK the client acknowledges nothing, and the server waits for it.
FirstInv ==
    /\ synHandled = 0 => Early(Client)
    /\ Early(Client) =>
        /\ cur_ack[Client] = 0 /\ Early(Server)
        /\ \A p \in net : p.to = Server => p.ack = 0
        /\ \A h \in handling : h.pkt.to = Server => h.pkt.ack = 0

\* An end is early until it is opened.
LEMMA NotClosing ==
    ASSUME TunnelInv, Orderly, [Next]_vars, NEW e \in Ends, Early(e)
    PROVE  ~CloseBegun(e) /\ openPc[e] # "ok"
<1>1. TypeOK /\ EarlyInv /\ LifeInv
  BY DEF TunnelInv
<1>2. openPc[e] # "ok"
  BY <1>1, OrderlySteps
<1>3. closePc[e] = "idle" /\ mutex[e] # "close"
  BY <1>1, <1>2 DEF EarlyInv, Callers
<1>. QED  BY <1>2, <1>3 DEF CloseBegun

\* The handshake goes on in this order.
LEMMA FirstKept == ASSUME Orderly, TunnelInv, FirstInv, [Next]_vars PROVE FirstInv'
<1>. USE Numbers
<1>0. /\ TypeOK /\ EarlyInv /\ LifeInv /\ DataInv /\ DataHandlers /\ OrderlyInv
      /\ cur_ack \in [Ends -> Nat] /\ synHandled \in Nat
  BY DEF TunnelInv, TypeOK
<1>1. synHandled' = 0 => Early(Client)'
  <2>1. CASE synHandled # 0
    <3>1. synHandled' = synHandled \/ synHandled' = synHandled + 1
      BY SynSteps DEF HandleSyn, TakeSyn, QueueSyn
    <3>. QED  BY <1>0, <2>1, <3>1
  <2>2. CASE synHandled = 0
    <3>1. Early(Client) /\ handling = {} /\ openQueue = {}
      BY <1>0, <2>2 DEF FirstInv, EarlyInv, BeforeSyn
    <3>2. ~OpenFinish
      BY <3>1 DEF OpenFinish
    <3>. QED  BY <1>0, <3>1, <3>2, EarlyEnds
  <2>. QED  BY <2>1, <2>2
<1>2. ASSUME Early(Client)'
      PROVE  /\ cur_ack'[Client] = 0 /\ Early(Server)'
             /\ \A p \in net' : p.to = Server => p.ack = 0
             /\ \A h \in handling' : h.pkt.to = Server => h.pkt.ack = 0
  <2>1. Early(Client)
    BY <1>0, <1>2, OrderlySteps
  <2>2. /\ cur_ack[Client] = 0 /\ Early(Server)
        /\ \A p \in net : p.to = Server => p.ack = 0
        /\ \A h \in handling : h.pkt.to = Server => h.pkt.ack = 0
    BY <2>1 DEF FirstInv
  <2>3. ~OpenFinish
    BY <1>0, <1>2 DEF OpenFinish, Early, TypeOK
  <2>4. ~CloseBegun(Server) /\ openPc[Server] # "ok"
    BY <2>2, NotClosing
  <2>5. cur_ack'[Client] = 0
    <3>1. CASE HandleSyn
      BY <1>0, <2>2, <3>1 DEF HandleSyn, ExpectFrom
    <3>2. ASSUME NEW p \in net, NEW l \in Links, ReceiveFin(p, l) PROVE cur_ack'[Client] = 0
      <4>1. p.to # Client
        BY <1>0, <2>4, <3>2 DEF OrderlyInv, AcksOk, ReceiveFin, Peer
      <4>2. cur_ack' = [cur_ack EXCEPT ![p.to] = p.seq + 1]
        BY <3>2 DEF ReceiveFin
      <4>. QED  BY <1>0, <2>2, <4>1, <4>2
    <3>3. ASSUME NEW h \in handling, HandleData(h) PROVE cur_ack'[Client] = 0
      <4>1. h.pkt.to \in Ends
        BY <1>0, HandledPacket, TypeGroups
      <4>2. h.pkt.to # Client
        <5>1. PieceOf(h.pkt) \in DataOf(Peer(h.pkt.to))
          BY <1>0, <3>3, HandledAck
        <5>2. Peer(Client) = Server
          BY DEF Peer
        <5>. QED  BY <1>0, <2>4, <5>1, <5>2 DEF DataInv
      <4>. QED  BY <1>0, <2>2, <3>3, <4>2, HandledAck
    <3>. QED  BY <2>2, <2>3, <3>1, <3>2, <3>3, AckSteps
  <2>6. Early(Server)'
    <3>1. ASSUME NEW h \in handling, Establish(h), h.pkt.to = Server PROVE FALSE
      <4>1. h.pkt.ack = ISN[Server] + 1
        BY <1>0, <3>1 DEF Establish, OrderlyInv, OpenedInv
      <4>2. ISN[Server] \in Nat
        OBVIOUS
      <4>. QED  BY <2>2, <3>1, <4>1, <4>2
    <3>. QED  BY <1>0, <2>2, <3>1, EarlyEnds
  <2>7. ASSUME NEW p \in net', p.to = Server PROVE p.ack = 0
    <3>1. ASSUME NEW f \in Ends, NewPacket(p, f) PROVE p.ack = 0
      <4>1. p.to = Peer(f) /\ (p.ack = cur_ack[f] \/ p.ack = cur_ack'[f])
        BY <3>1 DEF NewPacket
      <4>2. f = Client
        BY <2>7, <4>1 DEF Peer
      <4>. QED  BY <2>2, <2>5, <4>1, <4>2
    <3>. QED  BY <1>0, <2>2, <2>7, <3>1, NewPackets
  <2>8. ASSUME NEW g \in handling', g.pkt.to = Server PROVE g.pkt.ack = 0
    <3>1. g \in handling \/ g.pkt \in net \/ \E h \in handling : g.pkt = h.pkt
      BY <1>0, HandlerMoves
    <3>. QED  BY <2>2, <2>8, <3>1
  <2>. QED  BY <2>5, <2>6, <2>7, <2>8
<1>. QED  BY <1>1, <1>2 DEF FirstInv

\* handleData moves the acknowledgement number of its end forwards.
LEMMA HandledGrows ==
    ASSUME TypeOK, DataInv, DataHandlers, NEW h \in handling, HandleData(h)
    PROVE  \A g \in Ends : cur_ack'[g] \in Nat /\ cur_ack'[g] >= cur_ack[g]
<1>. USE Numbers
<1>. DEFINE f == h.pkt.to
            segs == recvSegments[f] \cup {PieceOf(h.pkt)}
<1>1. /\ f \in Ends
      /\ \/ cur_ack' = cur_ack
         \/ \E to : IsRunEnd(segs, cur_ack[f], to) /\ cur_ack' = [cur_ack EXCEPT ![f] = to]
  BY DataQueued
<1>2. segs \subseteq Piece
  <2>1. PieceOf(h.pkt) \in DataOf(Peer(f)) /\ Peer(f) \in Ends
    BY <1>1, HandledAck DEF Peer, Ends
  <2>2. recvSegments[f] \subseteq Piece
    BY <1>1 DEF TypeOK
  <2>. QED  BY <2>1, <2>2, DataTyped
<1>. HIDE DEF segs, f
<1>3. cur_ack \in [Ends -> Nat]
  BY DEF TypeOK
<1>4. ASSUME NEW to, IsRunEnd(segs, cur_ack[f], to) PROVE to \in Nat /\ to >= cur_ack[f]
  <2>1. cur_ack[f] \in Nat /\ to \in Boundaries(segs, cur_ack[f])
    BY <1>1, <1>3, <1>4 DEF IsRunEnd
  <2>2. \A s \in segs : s.seq \in Nat /\ s.len \in Nat
    BY <1>2 DEF Piece
  <2>. QED  BY <2>1, <2>2 DEF Boundaries, EndOf
<1>. QED  BY <1>1, <1>3, <1>4

\* Until an end closes, what its peer acknowledges only grows.
LEMMA AckGrows ==
    ASSUME Orderly, TunnelInv, FirstInv, [Next]_vars, NEW e \in Ends, ~CloseBegun(e)
    PROVE  cur_ack'[Peer(e)] >= cur_ack[Peer(e)]
<1>. USE Numbers
<1>0. /\ TypeOK /\ EarlyInv /\ LifeInv /\ DataInv /\ DataHandlers /\ SynAckInv /\ OrderlyInv
      /\ cur_ack \in [Ends -> Nat]
  BY DEF TunnelInv, TypeOK
<1>. DEFINE f == Peer(e)
<1>1. f \in Ends /\ f # e /\ (f = Server => e = Client) /\ (f = Client => e = Server)
  BY DEF Peer, Ends
<1>. HIDE DEF f
<1>2. CASE OpenFinish
  <2>1. PICK p \in openQueue : ExpectFrom(Client, p.seq)
    BY <1>2 DEF OpenFinish
  <2>2. cur_ack' = [cur_ack EXCEPT ![Client] = ISN[Server] + 1]
    BY <1>0, <2>1 DEF SynAckInv, ExpectFrom
  <2>3. cur_ack[Client] = 0
    BY <1>2 DEF OpenFinish, FirstInv, Early
  <2>. QED  BY <1>0, <1>1, <2>2, <2>3 DEF f
<1>3. CASE HandleSyn
  <2>1. cur_ack' = [cur_ack EXCEPT ![Server] = ISN[Client] + 1]
    BY <1>3 DEF HandleSyn, ExpectFrom
  <2>2. Early(Client)
    BY <1>0, <1>3, AnsweredOnce DEF FirstInv, Orderly
  <2>3. f = Server => cur_ack[Server] <= ISN[Client] + 1
    BY <1>0, <1>1, <2>2 DEF OrderlyInv, AcksOk, Limit, f
  <2>. QED  BY <1>0, <1>1, <2>1, <2>3 DEF f
<1>4. ASSUME NEW p \in net, NEW l \in Links, ReceiveFin(p, l) PROVE cur_ack'[f] = cur_ack[f]
  <2>1. p.to # f
    BY <1>0, <1>4 DEF OrderlyInv, AcksOk, ReceiveFin, f
  <2>2. cur_ack' = [cur_ack EXCEPT ![p.to] = p.seq + 1]
    BY <1>4 DEF ReceiveFin
  <2>. QED  BY <1>0, <1>1, <2>1, <2>2
<1>5. ASSUME NEW h \in handling, HandleData(h) PROVE cur_ack'[f] >= cur_ack[f]
  BY <1>0, <1>1, <1>5, HandledGrows
<1>. QED  BY <1>0, <1>1, <1>2, <1>3, <1>4, <1>5, AckSteps DEF f

\* Until an end closes, it is told of nothing that its peer does not still acknowledge.
ToldLess(e) ==
    ~CloseBegun(e) =>
        /\ \A p \in net : p.to = e => p.ack <= cur_ack[Peer(e)]
        /\ \A h \in handling : h.pkt.to = e => h.pkt.ack <= cur_ack[Peer(e)]

\* A packet that is sent carries the number its sender has reached.
LEMMA ToldKept ==
    ASSUME Orderly, TunnelInv, FirstInv, [Next]_vars, NEW e \in Ends, ToldLess(e)
    PROVE  ToldLess(e)'
<1>. USE Numbers
<1>. SUFFICES ASSUME ~CloseBegun(e)'
              PROVE  /\ \A p \in net' : p.to = e => p.ack <= cur_ack'[Peer(e)]
                     /\ \A h \in handling' : h.pkt.to = e => h.pkt.ack <= cur_ack'[Peer(e)]
  BY DEF ToldLess
<1>. DEFINE f == Peer(e)
<1>0. TypeOK /\ cur_ack \in [Ends -> Nat] /\ cur_ack' \in [Ends -> Nat]
  BY NextTyped DEF TunnelInv, TypeOK
<1>1. f \in Ends /\ \A g \in Ends : Peer(g) = e => g = f
  BY DEF Peer, Ends
<1>. HIDE DEF f
<1>2. ~CloseBegun(e)
  BY <1>0, CloseStays
<1>3. /\ cur_ack'[f] >= cur_ack[f] /\ cur_ack[f] \in Nat /\ cur_ack'[f] \in Nat
      /\ \A p \in net : p.to = e => p.ack <= cur_ack[f]
      /\ \A h \in handling : h.pkt.to = e => h.pkt.ack <= cur_ack[f]
  BY <1>0, <1>1, <1>2, AckGrows DEF ToldLess, f
<1>4. /\ \A p \in net' : p.ack \in Nat
      /\ \A h \in handling' : h.pkt.ack \in Nat
  <2>1. \A p \in Packet : p.ack \in Nat
    BY DEF Packet
  <2>2. net' \subseteq Packet /\ handling' \subseteq Handling
    BY <1>0, NextTyped DEF TypeOK
  <2>3. \A h \in Handling : h.pkt \in Packet
    BY DEF Handling
  <2>. QED  BY <2>1, <2>2, <2>3
<1>5. ASSUME NEW p \in net', p.to = e PROVE p.ack <= cur_ack'[f]
  <2>1. CASE p \in net
    BY <1>3, <1>4, <1>5, <2>1
  <2>2. ASSUME NEW g \in Ends, NewPacket(p, g) PROVE p.ack <= cur_ack'[f]
    <3>1. p.to = Peer(g) /\ (p.ack = cur_ack[g] \/ p.ack = cur_ack'[g])
      BY <2>2 DEF NewPacket
    <3>. QED  BY <1>1, <1>3, <1>5, <3>1
  <2>. QED  BY <1>0, <2>1, <2>2, NewPackets
<1>6. ASSUME NEW g \in handling', g.pkt.to = e PROVE g.pkt.ack <= cur_ack'[f]
  <2>1. g \in handling \/ g.pkt \in net \/ \E h \in handling : g.pkt = h.pkt
    BY <1>0, HandlerMoves
  <2>2. g.pkt.ack <= cur_ack[f]
    BY <1>3, <1>6, <2>1
  <2>. QED  BY <1>3, <1>4, <2>2
<1>. QED  BY <1>5, <1>6 DEF f

\* A handler of an acknowledgement finds cur_seq where it was, until it moves it.
LEMMA SeqStays ==
    ASSUME Orderly, TunnelInv, [Next]_vars, NEW g \in handling, g \in handling',
           g.pc \in {"segments", "buffers"}
    PROVE  cur_seq'[g.pkt.to] = cur_seq[g.pkt.to]
<1>. USE Numbers
<1>0. /\ TypeOK /\ EarlyInv /\ LifeInv /\ OrderlyInv /\ OpenedInv
      /\ cur_seq \in [Ends -> Nat] /\ g.pkt.to \in Ends /\ handling \subseteq Handling
  BY HandledPacket, TypeGroups DEF TunnelInv, TypeOK, OrderlyInv
<1>1. ~Early(g.pkt.to)
  BY <1>0 DEF OpenedInv
<1>2. \A h \in handling : h.pkt.to = g.pkt.to => h = g
  BY <1>0 DEF LifeInv, OneHandler
<1>3. CASE OpenFinish
  <2>1. PICK p \in openQueue : FirstSequence(Client, p.ack)
    BY <1>3 DEF OpenFinish
  <2>2. Early(Client)
    BY <1>3 DEF OpenFinish, Early
  <2>. QED  BY <1>0, <1>1, <2>1, <2>2 DEF FirstSequence
<1>4. ASSUME NEW h \in handling, Establish(h) PROVE cur_seq'[g.pkt.to] = cur_seq[g.pkt.to]
  <2>1. FirstSequence(h.pkt.to, h.pkt.ack) /\ h.pc = "establish"
    BY <1>4 DEF Establish
  <2>2. h.pkt.to # g.pkt.to
    BY <1>2, <2>1
  <2>. QED  BY <1>0, <2>1, <2>2 DEF FirstSequence
<1>5. ASSUME NEW h \in handling, AckSegments(h) PROVE cur_seq'[g.pkt.to] = cur_seq[g.pkt.to]
  <2>1. /\ cur_seq' = [cur_seq EXCEPT ![h.pkt.to] = h.pkt.ack] /\ h.pc = "segments"
        /\ Advance(h, "buffers")
    BY <1>5 DEF AckSegments
  <2>2. h.pkt.to # g.pkt.to
    <3>. DEFINE r == [h EXCEPT !.pc = "buffers"]
    <3>1. r.pc = "buffers" /\ handling' = (handling \ {h}) \cup {r}
      BY <1>0, <2>1 DEF Advance, Handling
    <3>. HIDE DEF r
    <3>2. h \notin handling'
      BY <2>1, <3>1
    <3>. QED  BY <1>2, <3>2
  <2>. QED  BY <1>0, <2>1, <2>2
<1>6. ASSUME NEW w \in Calls, WriteAppend(w) PROVE cur_seq' = cur_seq
  BY <1>6 DEF WriteAppend
<1>7. ASSUME NEW e \in Ends, WriterSend(e) PROVE cur_seq' = cur_seq
  BY <1>7 DEF WriterSend
<1>. QED  BY <1>3, <1>4, <1>5, <1>6, <1>7, NumberSteps

\* handleAck finds cur_seq below the number it was given, and sets it to that number.
HandlersSeq ==
    \A h \in handling :
        /\ h.pc = "segments" => h.pkt.ack > cur_seq[h.pkt.to]
        /\ h.pc = "buffers" => h.pkt.ack = cur_seq[h.pkt.to]

\* The one handler of an end compares, and moves cur_seq next.
LEMMA HandlersSeqKept ==
    ASSUME Orderly, TunnelInv, HandlersSeq, [Next]_vars PROVE HandlersSeq'
<1>. USE Numbers
<1>. SUFFICES ASSUME NEW g \in handling'
              PROVE  /\ g.pc = "segments" => g.pkt.ack > cur_seq'[g.pkt.to]
                     /\ g.pc = "buffers" => g.pkt.ack = cur_seq'[g.pkt.to]
  BY DEF HandlersSeq
<1>0. TypeOK /\ cur_seq \in [Ends -> Nat]
  BY DEF TunnelInv, TypeOK
<1>1. CASE g \in handling
  BY <1>1, SeqStays DEF HandlersSeq
<1>2. ASSUME NEW p \in net, NEW l \in Links, g.pc = FirstStep(p.to, p.type)
      PROVE  g.pc \notin {"segments", "buffers"}
  BY <1>2 DEF FirstStep
<1>3. ASSUME NEW h \in handling, g.pkt = h.pkt, AckCompare(h), NewAck(h.pkt.to, h.pkt.ack)
      PROVE  g.pkt.ack > cur_seq'[g.pkt.to]
  BY <1>3 DEF AckCompare, NewAck
<1>4. ASSUME NEW h \in handling, g.pkt = h.pkt, AckSegments(h)
      PROVE  g.pkt.ack = cur_seq'[g.pkt.to]
  <2>1. h.pkt.to \in Ends
    BY <1>0, HandledPacket, TypeGroups
  <2>. QED  BY <1>0, <1>4, <2>1 DEF AckSegments
<1>. QED  BY <1>0, <1>1, <1>2, <1>3, <1>4, HandlerMoves

\* No buffer is left when a close begins.
LEMMA NothingBuffered ==
    ASSUME TunnelInv, NEW e \in Ends, CloseBegun(e) PROVE sendBuffers[e] = {}
<1>1. NoWrite(e) /\ BuffersOk(e)
  BY DEF TunnelInv, OrderlyInv, CallsInv
<1>. QED  BY <1>1 DEF BuffersOk, NoWrite, Resting

\* A call gives up on a tunnel that is no longer open and that its application has not begun to close.
LEMMA GivesUpLate ==
    ASSUME Orderly, TunnelInv, [Next]_vars, NEW w \in Calls, GiveUp(w)
    PROVE  /\ ~Healthy(Caller[w]) /\ ~CloseBegun(Caller[w])
           /\ UNCHANGED <<state, mutex, closePc>> /\ CancelFromBuffers(Caller[w], writeIndex[w])
<1>. USE Numbers
<1>. DEFINE e == Caller[w]
<1>0. TypeOK /\ EarlyInv /\ LifeInv /\ OrderlyInv /\ CallsInv /\ e \in Ends /\ BuffersOk(e)
  BY CallsAssumption DEF TunnelInv, OrderlyInv
<1>1. /\ Pending(w) /\ CancelFromBuffers(e, writeIndex[w]) /\ UNCHANGED <<state, mutex, closePc>>
      /\ \/ state[e] # "OPEN"
         \/ \E b \in sendBuffers[e] : b.aborted
  BY <1>0, OrderlySteps DEF GiveUp, WriteSpawnRefused, WriteAborted, BufferOf, Pending
<1>2. ~CloseBegun(e)
  BY <1>0, <1>1 DEF CallsInv, NoWrite, Resting, Pending
<1>3. ~Early(e)
  BY <1>0, <1>1, OrderlySteps DEF EarlyInv, Callers, Pending
<1>4. ~Healthy(e)
  BY <1>0, <1>1, <1>3 DEF BuffersOk, Healthy
<1>. QED  BY <1>1, <1>2, <1>4

\* The last number of an open window moves when a call appends its buffer.
LEMMA IndexMoves ==
    ASSUME Orderly, TunnelInv, [Next]_vars, NEW e \in Ends, ~Early(e)
    PROVE  \/ nextBufferIndex'[e] = nextBufferIndex[e]
           \/ \E w \in Calls : /\ WriteAppend(w) /\ Caller[w] = e
                               /\ nextBufferIndex'[e] = nextBufferIndex[e] + Size[w]
<1>. USE Numbers
<1>0. /\ TypeOK /\ EarlyInv /\ LifeInv /\ OrderlyInv /\ OpenedInv
      /\ nextBufferIndex \in [Ends -> Nat] /\ handling \subseteq Handling
  BY DEF TunnelInv, TypeOK, OrderlyInv
<1>2. CASE OpenFinish
  <2>1. PICK p \in openQueue : FirstSequence(Client, p.ack)
    BY <1>2 DEF OpenFinish
  <2>2. Early(Client)
    BY <1>2 DEF OpenFinish, Early
  <2>. QED  BY <1>0, <2>1, <2>2 DEF FirstSequence
<1>3. ASSUME NEW h \in handling, Establish(h) PROVE nextBufferIndex'[e] = nextBufferIndex[e]
  <2>1. FirstSequence(h.pkt.to, h.pkt.ack) /\ h.pkt.to \in Ends
    BY <1>0, <1>3, HandledPacket, TypeGroups DEF Establish
  <2>2. h.pkt.to # e
    BY <1>0, <1>3, <2>1, FirstNumbers
  <2>. QED  BY <1>0, <2>1, <2>2 DEF FirstSequence
<1>4. ASSUME NEW h \in handling, AckSegments(h) PROVE nextBufferIndex'[e] = nextBufferIndex[e]
  BY <1>4 DEF AckSegments
<1>5. ASSUME NEW w \in Calls, WriteAppend(w)
      PROVE  \/ nextBufferIndex'[e] = nextBufferIndex[e]
             \/ Caller[w] = e /\ nextBufferIndex'[e] = nextBufferIndex[e] + Size[w]
  BY <1>0, <1>5, Appended
<1>6. ASSUME NEW f \in Ends, WriterSend(f) PROVE nextBufferIndex'[e] = nextBufferIndex[e]
  BY <1>6 DEF WriterSend
<1>. QED  BY <1>2, <1>3, <1>4, <1>5, <1>6, NumberSteps

\* Nothing is appended to a window once its close has begun.
LEMMA IndexStays ==
    ASSUME Orderly, TunnelInv, [Next]_vars, NEW e \in Ends, CloseBegun(e)
    PROVE  nextBufferIndex'[e] = nextBufferIndex[e]
<1>1. ~Early(e) /\ NoWrite(e)
  BY NotClosing DEF TunnelInv, OrderlyInv, CallsInv
<1>2. \A w \in Calls : WriteAppend(w) => Caller[w] # e
  BY <1>1 DEF NoWrite, Resting, WriteAppend
<1>. QED  BY <1>1, <1>2, IndexMoves

\* Only a close of an open tunnel begins to hold its mutex.
LEMMA CloseBegins ==
    ASSUME TypeOK, [Next]_vars, NEW e \in Ends, mutex'[e] = "close", mutex[e] # "close"
    PROVE  CloseBegin(e)
<1>. mutex \in [Ends -> {"free", "close", "force"}]
  BY DEF TypeOK
<1>1. mutex' # mutex
  OBVIOUS
<1>2. ~Opening
  BY <1>1 DEF Opening, OpenRefused, OpenStart, OpenFinish, OpenAborted, OpenTimeout
<1>3. ~Accepting
  BY <1>1 DEF Accepting, TakeSyn, HandleSyn, WaitForOpenStart, WaitForOpenFinish, WaitForOpenTimeout
<1>4. ASSUME NEW p \in net, NEW l \in Links PROVE ~ReceiveFin(p, l) /\ ~ReceiveFinAck(p, l)
  BY <1>1 DEF ReceiveFin, ReceiveFinAck
<1>5. ASSUME NEW h \in handling PROVE ~Establish(h)
  BY <1>1 DEF Establish
<1>6. PICK f \in Ends : Closing(f)
  BY <1>1, <1>2, <1>3, <1>4, <1>5, ControlSteps DEF ControlStep
<1>7. CloseBegin(f) \/ CloseFin(f) \/ ForceCloseBegin(f) \/ ForceCloseFin(f)
  BY <1>1, <1>6 DEF Closing, CloseClosed, CloseAfterFin, CloseDone, CloseTimeout, ForceClose, Remove
<1>8. f = e
  BY <1>7 DEF CloseBegin, CloseFin, ForceCloseBegin, ForceCloseFin
<1>9. ~CloseFin(f) /\ ~ForceCloseBegin(f) /\ ~ForceCloseFin(f)
  BY <1>8 DEF CloseFin, ForceCloseBegin, ForceCloseFin
<1>. QED  BY <1>7, <1>8, <1>9

\* When all buffers of an open end are gone, all its bytes are acknowledged; and a close that
\* begins finds it so.
AllAcked(e) ==
    sendBuffers[e] = {} /\ ~Early(e) /\ (Healthy(e) \/ mutex[e] = "close")
        => cur_seq[e] >= nextBufferIndex[e]

\* An end opens with nothing to acknowledge; cur_seq grows, and grows over the buffer that goes.
LEMMA AllAckedKept ==
    ASSUME Orderly, TunnelInv, HandlersSeq, [Next]_vars, NEW e \in Ends, AllAcked(e)
    PROVE  AllAcked(e)'
<1>. USE Numbers
<1>. SUFFICES ASSUME sendBuffers'[e] = {}, ~Early(e)', Healthy(e)' \/ mutex'[e] = "close"
              PROVE  cur_seq'[e] >= nextBufferIndex'[e]
  BY DEF AllAcked
<1>0. /\ TypeOK /\ EarlyInv /\ LifeInv /\ OrderlyInv /\ OpenedInv /\ BuffersOk(e)
      /\ cur_seq \in [Ends -> Nat] /\ nextBufferIndex \in [Ends -> Nat]
      /\ mutex \in [Ends -> {"free", "close", "force"}]
      /\ state \in [Ends -> {"NULL", "OPENING", "HALF_OPEN", "OPEN", "CLOSING", "CLOSE_WAIT", "CLOSED"}]
      /\ handling \subseteq Handling /\ sendBuffers \in [Ends -> SUBSET Buffer]
  BY DEF TunnelInv, TypeOK, OrderlyInv
<1>1. CASE Early(e)
  <2>1. (e = Client /\ OpenFinish) \/ \E h \in handling : Establish(h) /\ h.pkt.to = e
    BY <1>0, <1>1, EarlyEnds
  <2>2. FirstSequence(e, ISN[e] + 1)
    BY <1>0, <2>1, FirstNumbers
  <2>. QED  BY <1>0, <2>2 DEF FirstSequence
<1>2. Healthy(e) \/ mutex[e] = "close"
  <2>1. CASE mutex'[e] = "close" /\ mutex[e] # "close"
    BY <1>0, <2>1, CloseBegins DEF CloseBegin, Healthy
  <2>. QED  BY <1>0, <2>1, OrderlySteps
<1>3. CASE ~Early(e) /\ sendBuffers[e] = {}
  <2>0. cur_seq[e] >= nextBufferIndex[e] /\ cur_seq[e] \in Nat /\ nextBufferIndex[e] \in Nat
    BY <1>0, <1>2, <1>3 DEF AllAcked
  <2>1. CASE OpenFinish
    <3>1. PICK p \in openQueue : FirstSequence(Client, p.ack)
      BY <2>1 DEF OpenFinish
    <3>2. Early(Client)
      BY <2>1 DEF OpenFinish, Early
    <3>. QED  BY <1>0, <1>3, <2>0, <3>1, <3>2 DEF FirstSequence
  <2>2. ASSUME NEW h \in handling, Establish(h) PROVE cur_seq'[e] >= nextBufferIndex'[e]
    <3>1. FirstSequence(h.pkt.to, h.pkt.ack) /\ h.pkt.to \in Ends
      BY <1>0, <2>2, HandledPacket, TypeGroups DEF Establish
    <3>2. h.pkt.to # e
      BY <1>0, <1>3, <2>2, <3>1, FirstNumbers
    <3>. QED  BY <1>0, <2>0, <3>1, <3>2 DEF FirstSequence
  <2>3. ASSUME NEW h \in handling, AckSegments(h) PROVE cur_seq'[e] >= nextBufferIndex'[e]
    <3>1. h.pkt \in Packet /\ h.pkt.to \in Ends /\ h.pkt.ack > cur_seq[h.pkt.to]
      BY <1>0, <2>3, HandledPacket, TypeGroups DEF HandlersSeq, AckSegments
    <3>2. h.pkt.ack \in Nat
      BY <3>1 DEF Packet
    <3>3. cur_seq' = [cur_seq EXCEPT ![h.pkt.to] = h.pkt.ack] /\ nextBufferIndex' = nextBufferIndex
      BY <2>3 DEF AckSegments
    <3>. QED  BY <1>0, <2>0, <3>1, <3>2, <3>3
  <2>4. ASSUME NEW w \in Calls, WriteAppend(w) PROVE cur_seq'[e] >= nextBufferIndex'[e]
    <3>1. cur_seq' = cur_seq
      BY <2>4 DEF WriteAppend
    <3>2. Caller[w] # e
      <4>1. ASSUME Caller[w] = e, \E b \in sendBuffers[e] : b.head_seq = nextBufferIndex[e] PROVE FALSE
        BY <1>3, <4>1
      <4>2. ASSUME Caller[w] = e,
                   sendBuffers'[e] = sendBuffers[e] \cup
                       {[head_seq |-> nextBufferIndex[e], size |-> Size[w], aborted |-> FALSE]}
            PROVE  FALSE
        BY <4>2
      <4>. QED  BY <1>0, <2>4, <4>1, <4>2, Appended
    <3>3. nextBufferIndex'[e] = nextBufferIndex[e]
      BY <1>0, <2>4, <3>2, Appended
    <3>. QED  BY <2>0, <3>1, <3>3
  <2>5. ASSUME NEW f \in Ends, WriterSend(f) PROVE cur_seq'[e] >= nextBufferIndex'[e]
    BY <2>0, <2>5 DEF WriterSend
  <2>. QED  BY <2>0, <2>1, <2>2, <2>3, <2>4, <2>5, NumberSteps
<1>4. CASE sendBuffers[e] # {}
  <2>1. PICK b \in sendBuffers[e] : TRUE
    BY <1>4
  <2>2. b \notin sendBuffers'[e]
    OBVIOUS
  <2>3. ASSUME NEW w \in Calls, WriteAppend(w) PROVE FALSE
    <3>1. sendBuffers[e] \subseteq sendBuffers'[e]
      BY <1>0, <2>3, Appended
    <3>. QED  BY <2>1, <2>2, <3>1
  <2>4. ASSUME NEW w \in Calls, GiveUp(w) PROVE FALSE
    <3>1. /\ ~Healthy(Caller[w]) /\ ~CloseBegun(Caller[w])
          /\ UNCHANGED <<state, mutex, closePc>> /\ CancelFromBuffers(Caller[w], writeIndex[w])
      BY <2>4, GivesUpLate
    <3>2. Caller[w] = e
      BY <1>0, <2>1, <2>2, <3>1, CallsAssumption DEF CancelFromBuffers
    <3>. QED  BY <1>2, <3>1, <3>2 DEF CloseBegun
  <2>5. ASSUME NEW f \in Ends, Clear(f) PROVE FALSE
    <3>1. sendBuffers' = [sendBuffers EXCEPT ![f] = {[c EXCEPT !.aborted = TRUE] : c \in @}]
      BY <2>5 DEF Clear
    <3>2. CASE f = e
      <4>1. [b EXCEPT !.aborted = TRUE] \in {[c EXCEPT !.aborted = TRUE] : c \in sendBuffers[e]}
        BY <2>1
      <4>. QED  BY <1>0, <3>1, <3>2, <4>1
    <3>3. CASE f # e
      BY <1>0, <2>1, <3>1, <3>3
    <3>. QED  BY <3>2, <3>3
  <2>6. ASSUME NEW h \in handling, AckBuffers(h) PROVE cur_seq'[e] >= nextBufferIndex'[e]
    <3>1. b \in AckedBuffers(sendBuffers[e], h.pkt.ack) /\ h.pkt.to = e
      BY <1>0, <2>1, <2>2, <2>6 DEF AckBuffers
    <3>2. b.head_seq + b.size <= h.pkt.ack
      <4>1. b.head_seq <= b.head_seq
        BY <1>0, <2>1 DEF Buffer
      <4>. QED  BY <2>1, <3>1, <4>1 DEF AckedBuffers
    <3>3. h.pkt.ack = cur_seq[e] /\ b.head_seq + b.size = nextBufferIndex[e]
      BY <1>0, <2>1, <2>6, <3>1 DEF HandlersSeq, AckBuffers, BuffersOk
    <3>4. cur_seq' = cur_seq /\ nextBufferIndex' = nextBufferIndex
      BY <2>6 DEF AckBuffers
    <3>. QED  BY <1>0, <3>2, <3>3, <3>4
  <2>7. CASE sendBuffers' = sendBuffers
    BY <1>4, <2>7
  <2>. QED  BY <1>0, <2>3, <2>4, <2>5, <2>6, <2>7, BufferSteps
<1>. QED  BY <1>1, <1>3, <1>4

\* A FIN is queued by closeTunnel only.
LEMMA FinQueued ==
    ASSUME Orderly, TunnelInv, [Next]_vars, NEW e \in Ends, NEW s \in retrySegments'[e],
           s.type = "FIN", s \notin retrySegments[e]
    PROVE  CloseFin(e) /\ s.seq = cur_seq[e]
<1>. USE Numbers
<1>0. TypeOK /\ EarlyInv /\ LifeInv /\ retrySegments \in [Ends -> SUBSET Segment]
  BY DEF TunnelInv, TypeOK
<1>1. CASE OpenStart \/ HandleSyn
  <2>1. \E g \in Ends : \E seg : seg.type # "FIN" /\ InsertSegment(g, seg)
    BY <1>1 DEF OpenStart, HandleSyn, ControlSegment
  <2>. QED  BY <1>0, <2>1 DEF InsertSegment
<1>2. ASSUME NEW g \in Ends, WriterSend(g) PROVE FALSE
  <2>1. PICK b \in sendBuffers[g] : \E len \in Nat : WriterSent(g, b, len)
    BY <1>0, <1>2, WriterSends
  <2>2. \E seg : seg.type # "FIN" /\ InsertSegment(g, seg)
    BY <2>1 DEF WriterSent
  <2>. QED  BY <1>0, <2>2 DEF InsertSegment
<1>3. ASSUME NEW g \in Ends, CloseFin(g) \/ ForceCloseFin(g)
      PROVE  CloseFin(e) /\ s.seq = cur_seq[e]
  <2>1. CloseFin(g)
    BY <1>0, <1>3, OrderlySteps
  <2>2. retrySegments' = [retrySegments EXCEPT ![g] = @ \cup {ControlSegment("FIN", cur_seq[g], 0)}]
    BY <2>1 DEF CloseFin, SendFin, InsertSegment
  <2>3. g = e /\ s = ControlSegment("FIN", cur_seq[e], 0)
    BY <1>0, <2>2
  <2>. QED  BY <2>1, <2>3 DEF ControlSegment
<1>4. ASSUME NEW g \in Ends, \E segs : EraseSegments(g, segs) PROVE FALSE
  BY <1>0, <1>4 DEF EraseSegments
<1>5. ASSUME NEW h \in handling, AckSegments(h) PROVE \E g \in Ends : \E segs : EraseSegments(g, segs)
  BY <1>0, <1>5, HandledPacket, TypeGroups DEF AckSegments
<1>6. ASSUME NEW w \in Calls, GiveUp(w) PROVE \E g \in Ends : \E segs : EraseSegments(g, segs)
  <2>1. CancelFromBuffers(Caller[w], writeIndex[w])
    BY <1>6 DEF GiveUp, WriteSpawnRefused, WriteAborted, WriteTimeout
  <2>. QED  BY <2>1 DEF CancelFromBuffers
<1>7. ASSUME NEW g \in Ends, Clear(g) \/ CancelCtrlPktFromSegments(g)
      PROVE  \E segs : EraseSegments(g, segs)
  BY <1>7 DEF Clear, CancelCtrlPktFromSegments
<1>8. CASE UNCHANGED <<sendSegments, retrySegments>>
  BY <1>8
<1>. QED  BY <1>0, <1>1, <1>2, <1>3, <1>4, <1>5, <1>6, <1>7, <1>8, SegmentSteps

\* The FIN of an end comes after all its bytes.
FinOk(e) ==
    /\ \A p \in net : p.type = "FIN" /\ p.to = Peer(e) => CloseBegun(e) /\ p.seq >= nextBufferIndex[e]
    /\ \A s \in retrySegments[e] : s.type = "FIN" => CloseBegun(e) /\ s.seq >= nextBufferIndex[e]

\* closeTunnel numbers its FIN with cur_seq, which has passed the last buffer by then.
LEMMA FinKept ==
    ASSUME Orderly, TunnelInv, [Next]_vars, NEW e \in Ends, AllAcked(e), FinOk(e)
    PROVE  FinOk(e)'
<1>. USE Numbers
<1>0. /\ TypeOK /\ LifeInv
      /\ mutex \in [Ends -> {"free", "close", "force"}]
  BY DEF TunnelInv, TypeOK
<1>1. CloseBegun(e) => CloseBegun(e)' /\ nextBufferIndex'[e] = nextBufferIndex[e]
  BY <1>0, CloseStays, IndexStays
<1>2. ASSUME CloseFin(e) PROVE CloseBegun(e) /\ cur_seq[e] >= nextBufferIndex[e]
  <2>1. mutex[e] = "close"
    BY <1>2 DEF CloseFin
  <2>2. CloseBegun(e) /\ ~Early(e)
    BY <1>0, <2>1 DEF CloseBegun, LifeInv, StatesFit, Early
  <2>. QED  BY <2>1, <2>2, NothingBuffered DEF AllAcked
<1>3. ASSUME NEW s \in retrySegments'[e], s.type = "FIN"
      PROVE  CloseBegun(e)' /\ s.seq >= nextBufferIndex'[e]
  <2>1. CASE s \in retrySegments[e]
    BY <1>1, <1>3, <2>1 DEF FinOk
  <2>2. CASE s \notin retrySegments[e]
    BY <1>1, <1>2, <1>3, <2>2, FinQueued
  <2>. QED  BY <2>1, <2>2
<1>4. ASSUME NEW p \in net', p.type = "FIN", p.to = Peer(e)
      PROVE  CloseBegun(e)' /\ p.seq >= nextBufferIndex'[e]
  <2>1. CASE p \in net
    BY <1>1, <1>4, <2>1 DEF FinOk
  <2>2. ASSUME NEW f \in Ends, NewPacket(p, f) PROVE CloseBegun(e)' /\ p.seq >= nextBufferIndex'[e]
    <3>1. f = e
      BY <1>4, <2>2 DEF NewPacket, Peer, Ends
    <3>2. \/ \E s \in retrySegments[e] : s.type = "FIN" /\ p.seq = s.seq
          \/ (CloseFin(e) \/ ForceCloseFin(e)) /\ p.seq = cur_seq[e]
      BY <1>4, <2>2, <3>1 DEF NewPacket
    <3>3. ~ForceCloseFin(e)
      BY OrderlySteps DEF TunnelInv
    <3>. QED  BY <1>1, <1>2, <3>2, <3>3 DEF FinOk
  <2>. QED  BY <1>0, <2>1, <2>2, NewPackets
<1>. QED  BY <1>3, <1>4 DEF FinOk

\* writerThread has not sent what was not written.
Behind(e) == Pos(e) <= nextBufferIndex[e]

\* It stands in the buffer or at its end, and does not move when there is none.
LEMMA BehindKept ==
    ASSUME Orderly, TunnelInv, TunnelInv', [Next]_vars, NEW e \in Ends, Behind(e)
    PROVE  Behind(e)'
<1>. USE Numbers
<1>0. /\ TypeOK /\ EarlyInv /\ LifeInv /\ OrderlyInv /\ OpenedInv /\ TypeOK'
      /\ BuffersOk(e)' /\ handling \subseteq Handling
      /\ state \in [Ends -> {"NULL", "OPENING", "HALF_OPEN", "OPEN", "CLOSING", "CLOSE_WAIT", "CLOSED"}]
      /\ currBufferIndex \in [Ends -> Nat] /\ nextBufferIndex \in [Ends -> Nat]
      /\ currBufferOffset \in [Ends -> Nat]
      /\ sendBuffers' \in [Ends -> SUBSET Buffer]
      /\ currBufferIndex' \in [Ends -> Nat] /\ nextBufferIndex' \in [Ends -> Nat]
      /\ currBufferOffset' \in [Ends -> Nat]
  BY NextTyped DEF TunnelInv, OrderlyInv, TypeOK
<1>1. CASE sendBuffers'[e] # {}
  <2>1. PICK b \in sendBuffers'[e] : TRUE
    BY <1>1
  <2>2. /\ b.head_seq + b.size = nextBufferIndex'[e] /\ b.head_seq \in Nat /\ b.size \in Nat
        /\ \/ currBufferIndex'[e] = b.head_seq /\ currBufferOffset'[e] < b.size
           \/ currBufferIndex'[e] = nextBufferIndex'[e] /\ currBufferOffset'[e] = 0
    BY <1>0, <2>1 DEF BuffersOk, Buffer
  <2>. QED  BY <1>0, <2>2 DEF Behind, Pos
<1>2. CASE sendBuffers'[e] = {} /\ Healthy(e)'
  BY <1>0, <1>2 DEF BuffersOk, Behind, Pos
<1>3. CASE sendBuffers'[e] = {} /\ ~Healthy(e)'
  <2>1. ~(e = Client /\ OpenFinish)
    BY <1>0, <1>3 DEF OpenFinish, Healthy
  <2>2. ASSUME NEW h \in handling, Establish(h) PROVE h.pkt.to # e
    BY <1>0, <1>3, <2>2 DEF Establish, Healthy
  <2>3. CASE OpenFinish
    <3>1. \E p \in openQueue : FirstSequence(Client, p.ack)
      BY <2>3 DEF OpenFinish
    <3>. QED  BY <1>0, <2>1, <2>3, <3>1 DEF FirstSequence, Behind, Pos
  <2>4. ASSUME NEW h \in handling, Establish(h) PROVE Behind(e)'
    <3>1. FirstSequence(h.pkt.to, h.pkt.ack)
      BY <2>4 DEF Establish
    <3>. QED  BY <1>0, <2>2, <2>4, <3>1 DEF FirstSequence, Behind, Pos
  <2>5. ASSUME NEW h \in handling, AckSegments(h) PROVE Behind(e)'
    BY <2>5 DEF AckSegments, Behind, Pos
  <2>6. ASSUME NEW w \in Calls, WriteAppend(w) PROVE Behind(e)'
    <3>1. CASE Caller[w] # e
      BY <1>0, <2>6, <3>1, Appended DEF Behind, Pos
    <3>2. CASE Caller[w] = e
      <4>1. ~(sendBuffers'[e] = sendBuffers[e] \cup
                  {[head_seq |-> nextBufferIndex[e], size |-> Size[w], aborted |-> FALSE]})
        BY <1>3
      <4>2. /\ nextBufferIndex' = nextBufferIndex /\ currBufferIndex' = currBufferIndex
            /\ currBufferOffset' = currBufferOffset
        BY <1>0, <2>6, <3>2, <4>1, Appended
      <4>. QED  BY <4>2 DEF Behind, Pos
    <3>. QED  BY <3>1, <3>2
  <2>7. ASSUME NEW f \in Ends, WriterSend(f) PROVE Behind(e)'
    <3>1. /\ UNCHANGED <<sendBuffers, nextBufferIndex>> /\ sendBuffers[f] # {}
          /\ \A g \in Ends \ {f} : Pos(g)' = Pos(g)
      BY <1>0, <2>7, WriterSends
    <3>2. f # e
      BY <1>3, <3>1
    <3>. QED  BY <3>1, <3>2 DEF Behind
  <2>. QED  BY <2>3, <2>4, <2>5, <2>6, <2>7, NumberSteps DEF Behind, Pos
<1>. QED  BY <1>1, <1>2, <1>3

\* The last byte of a call is one that was written, and one the peer acknowledges when the buffer
\* of the call is gone.
PlaceOk(w) ==
    /\ Pending(w) => writeIndex[w] + Size[w] <= nextBufferIndex[Caller[w]]
    /\ Pending(w) /\ BufferOf(w) = {} => writeIndex[w] + Size[w] <= cur_ack[Peer(Caller[w])]

\* A call keeps its place until it returns; its peer acknowledges more and more until it closes.
LEMMA PlaceKept ==
    ASSUME Orderly, TunnelInv, TunnelInv', FirstInv, [Next]_vars, NEW w \in Calls, PlaceOk(w),
           ToldLess(Caller[w])
    PROVE  PlaceOk(w)'
<1>. USE Numbers
<1>. DEFINE e == Caller[w]
            f == Peer(e)
<1>. TypeOK /\ TypeOK' /\ EarlyInv /\ LifeInv /\ OrderlyInv
  BY DEF TunnelInv
<1>. /\ writeIndex \in [Calls -> Nat] /\ nextBufferIndex \in [Ends -> Nat]
     /\ cur_ack \in [Ends -> Nat]
     /\ nextBufferIndex' \in [Ends -> Nat] /\ cur_ack' \in [Ends -> Nat]
  BY DEF TypeOK
<1>0. /\ TypeOK /\ EarlyInv /\ LifeInv /\ OrderlyInv /\ e \in Ends /\ f \in Ends
      /\ writeIndex[w] \in Nat /\ Size[w] \in Nat /\ nextBufferIndex[e] \in Nat /\ cur_ack[f] \in Nat
      /\ nextBufferIndex'[e] \in Nat /\ cur_ack'[f] \in Nat
  OBVIOUS
<1>. HIDE DEF e, f
<1>. SUFFICES ASSUME Pending(w)'
              PROVE  /\ writeIndex'[w] + Size[w] <= nextBufferIndex'[e]
                     /\ BufferOf(w)' = {} => writeIndex'[w] + Size[w] <= cur_ack'[f]
  BY DEF PlaceOk, e, f
<1>1. CASE WriteAppend(w)
  <2>. DEFINE b == [head_seq |-> nextBufferIndex[e], size |-> Size[w], aborted |-> FALSE]
  <2>0. writePc \in [Calls -> {"idle", "checked", "appended", "waiting", "ok", "failed"}]
        /\ writeIndex \in [Calls -> Nat]
    BY <1>0 DEF TypeOK
  <2>1. ~(writePc' = [writePc EXCEPT ![w] = "failed"])
    BY <2>0 DEF Pending
  <2>2. /\ sendBuffers'[e] = sendBuffers[e] \cup {b}
        /\ nextBufferIndex'[e] = nextBufferIndex[e] + Size[w]
        /\ writeIndex' = [writeIndex EXCEPT ![w] = nextBufferIndex[e]]
    BY <1>0, <1>1, <2>1, Appended DEF e
  <2>3. b \in BufferOf(w)'
    BY <2>0, <2>2 DEF BufferOf, e
  <2>. QED  BY <1>0, <2>0, <2>2, <2>3
<1>2. CASE ~WriteAppend(w)
  <2>1. writeIndex'[w] = writeIndex[w] /\ Pending(w) /\ ~GiveUp(w)
    BY <1>0, <1>2, WriteGoes
  <2>2. writeIndex[w] + Size[w] <= nextBufferIndex[e]
    BY <2>1 DEF PlaceOk, e
  <2>3. ~Early(e)
    BY <1>0, <2>1, OrderlySteps DEF EarlyInv, Callers, Pending, e
  <2>4. nextBufferIndex'[e] >= nextBufferIndex[e]
    BY <1>0, <2>3, IndexMoves
  <2>5. ~CloseBegun(e)
    <3>1. ~Resting(w)
      BY <2>1 DEF Pending, Resting
    <3>. QED  BY <1>0, <3>1 DEF OrderlyInv, CallsInv, NoWrite, e
  <2>6. cur_ack'[f] >= cur_ack[f]
    BY <1>0, <2>5, AckGrows DEF f
  <2>7. ASSUME BufferOf(w)' = {} PROVE writeIndex[w] + Size[w] <= cur_ack[f]
    <3>1. CASE BufferOf(w) = {}
      BY <2>1, <3>1 DEF PlaceOk, e, f
    <3>2. CASE BufferOf(w) # {}
      <4>1. PICK h \in handling : /\ h.pkt.to = e /\ h.pkt.ack \in Nat
                                  /\ writeIndex[w] + Size[w] <= h.pkt.ack
        BY <1>0, <2>1, <2>7, <3>2, BufferAcked DEF e
      <4>2. h.pkt.ack <= cur_ack[f]
        BY <2>5, <4>1 DEF ToldLess, e, f
      <4>. QED  BY <1>0, <4>1, <4>2
    <3>. QED  BY <3>1, <3>2
  <2>8. writeIndex[w] + Size[w] <= nextBufferIndex'[e]
    BY ONLY <1>0, <2>2, <2>4
  <2>9. writeIndex[w] + Size[w] <= cur_ack[f] => writeIndex[w] + Size[w] <= cur_ack'[f]
    BY ONLY <1>0, <2>6
  <2>. QED  BY <2>1, <2>7, <2>8, <2>9
<1>. QED  BY <1>1, <1>2

\* Read takes no more than what is there and was sent.
LEMMA ReadUpTo ==
    ASSUME TunnelInv, NEW e \in Ends, NEW len \in ReadLens, ReadData(Peer(e), len)
    PROVE  /\ head_seq'[Peer(e)] <= cur_ack[Peer(e)] /\ head_seq'[Peer(e)] <= Pos(e)
           /\ UNCHANGED <<cur_ack, nextBufferIndex, openPc, synHandled>>
<1>. USE Numbers
<1>. DEFINE f == Peer(e)
<1>1. f \in Ends /\ Peer(f) = e
  BY DEF Peer, Ends
<1>. HIDE DEF f
<1>2. PICK first \in ReadableFrom(f) : \E stop \in Boundaries(recvSegments[f], first.seq) :
        /\ IsRunEnd(recvSegments[f], first.seq, stop)
        /\ head_seq' = [head_seq EXCEPT ![f] =
             LET limit == IF head_seq[f] + len < cur_ack[f] THEN head_seq[f] + len ELSE cur_ack[f]
             IN  IF limit < stop THEN limit ELSE stop]
  BY DEF ReadData, ReadReturns, f
<1>3. PICK stop \in Boundaries(recvSegments[f], first.seq) :
        /\ IsRunEnd(recvSegments[f], first.seq, stop)
        /\ head_seq' = [head_seq EXCEPT ![f] =
             LET limit == IF head_seq[f] + len < cur_ack[f] THEN head_seq[f] + len ELSE cur_ack[f]
             IN  IF limit < stop THEN limit ELSE stop]
  BY <1>2
<1>4. /\ head_seq \in [Ends -> Nat] /\ cur_ack[f] \in Nat /\ len \in Nat
      /\ recvSegments[f] \subseteq DataOf(e) /\ recvSegments[f] \subseteq Piece
  BY <1>1, NumbersAssumption DEF TunnelInv, TypeOK, DataOf, f
<1>5. stop \in Nat /\ stop <= Pos(e)
  <2>1. first \in recvSegments[f]
    BY <1>2 DEF ReadableFrom
  <2>2. stop # first.seq
    BY <1>3, <2>1 DEF IsRunEnd
  <2>3. PICK s \in recvSegments[f] : stop = EndOf(s)
    BY <1>3, <2>2 DEF Boundaries
  <2>4. EndOf(s) <= Pos(e)
    BY <1>4, <2>3 DEF TunnelInv, DataInv
  <2>5. EndOf(s) \in Nat
    BY <1>4, <2>3 DEF Piece, EndOf
  <2>. QED  BY <2>3, <2>4, <2>5
<1>6. Pos(e) \in Nat
  <2>. currBufferIndex \in [Ends -> Nat] /\ currBufferOffset \in [Ends -> Nat]
    BY DEF TunnelInv, TypeOK
  <2>. QED  BY DEF Pos
<1>7. head_seq'[f] <= cur_ack[f] /\ head_seq'[f] <= Pos(e)
  <2>1. head_seq[f] \in Nat
    BY <1>1, <1>4
  <2>. QED  BY <1>1, <1>3, <1>4, <1>5, <1>6, <2>1
<1>8. UNCHANGED <<cur_ack, nextBufferIndex, openPc, synHandled>>
  BY DEF ReadData
<1>. QED  BY <1>7, <1>8 DEF f

\* Once a tunnel is open, its acknowledgement number goes forwards, or a FIN takes it to the end.
LEMMA AckForward ==
    ASSUME Orderly, TunnelInv, FirstInv, [Next]_vars, NEW e \in Ends, ~Early(e), FinOk(e)
    PROVE  cur_ack'[Peer(e)] >= cur_ack[Peer(e)] \/ cur_ack'[Peer(e)] > nextBufferIndex[e]
<1>. USE Numbers
<1>. DEFINE f == Peer(e)
<1>1. f \in Ends /\ Peer(f) = e /\ (f = Client => e = Server) /\ (f = Server => e = Client)
  BY DEF Peer, Ends
<1>. HIDE DEF f
<1>2. TypeOK /\ EarlyInv /\ DataInv /\ DataHandlers
  BY DEF TunnelInv
<1>3. cur_ack \in [Ends -> Nat] /\ nextBufferIndex[e] \in Nat /\ net \subseteq Packet
  BY <1>2 DEF TypeOK
<1>4. ASSUME cur_ack'[f] = cur_ack[f] PROVE cur_ack'[f] >= cur_ack[f]
  BY <1>1, <1>3, <1>4
<1>5. CASE OpenFinish
  <2>1. Early(Client)
    BY <1>5 DEF OpenFinish, Early
  <2>2. f # Client
    BY <1>1, <2>1 DEF FirstInv
  <2>3. \E p \in openQueue : ExpectFrom(Client, p.seq)
    BY <1>5 DEF OpenFinish
  <2>. QED  BY <1>1, <1>3, <1>4, <2>2, <2>3 DEF ExpectFrom, f
<1>6. CASE HandleSyn
  <2>1. Early(Client)
    BY <1>2, <1>6, AnsweredOnce DEF FirstInv, Orderly
  <2>2. f # Server
    BY <1>1, <2>1
  <2>. QED  BY <1>1, <1>3, <1>4, <1>6, <2>2 DEF HandleSyn, ExpectFrom, f
<1>7. ASSUME NEW p \in net, NEW l \in Links, ReceiveFin(p, l)
      PROVE  cur_ack'[f] = cur_ack[f] \/ cur_ack'[f] > nextBufferIndex[e]
  <2>1. p.type = "FIN" /\ cur_ack' = [cur_ack EXCEPT ![p.to] = p.seq + 1]
    BY <1>7 DEF ReceiveFin
  <2>2. p.seq \in Nat
    BY <1>3 DEF Packet
  <2>3. CASE p.to = f
    <3>1. p.seq >= nextBufferIndex[e]
      BY <2>1, <2>3 DEF FinOk, f
    <3>2. cur_ack'[f] = p.seq + 1
      BY <1>1, <1>3, <2>1, <2>3
    <3>. QED  BY ONLY <1>3, <2>2, <3>1, <3>2
  <2>. QED  BY <1>1, <1>3, <2>1, <2>3
<1>8. ASSUME NEW h \in handling, HandleData(h) PROVE cur_ack'[f] >= cur_ack[f]
  BY <1>1, <1>2, <1>8, HandledGrows
<1>. QED  BY <1>4, <1>5, <1>6, <1>7, <1>8, AckSteps DEF f

\* The reader of the peer has bytes that were acknowledged and written.
OutOk(e) ==
    got[Peer(e)] = <<>>
    \/ ( /\ Base(e) + Len(got[Peer(e)]) <= cur_ack[Peer(e)]
         /\ Base(e) + Len(got[Peer(e)]) <= nextBufferIndex[e] )

\* Read stops at the acknowledgement number, which a FIN moves beyond all bytes.
LEMMA OutKept ==
    ASSUME Orderly, TunnelInv, TunnelInv', FirstInv, [Next]_vars, NEW e \in Ends, Behind(e), FinOk(e),
           OutOk(e)
    PROVE  OutOk(e)'
<1>. USE Numbers
<1>. DEFINE f == Peer(e)
<1>1. f \in Ends /\ Peer(f) = e
  BY DEF Peer, Ends
<1>. HIDE DEF f
<1>. /\ TypeOK /\ TypeOK' /\ EarlyInv /\ LifeInv /\ OrderlyInv /\ OpenedInv /\ ReaderInv /\ ReaderInv'
     /\ DataInv /\ DataHandlers
  BY DEF TunnelInv, OrderlyInv
<1>2. /\ Base(e) \in Nat /\ nextBufferIndex[e] \in Nat /\ cur_ack[f] \in Nat
      /\ nextBufferIndex'[e] \in Nat /\ cur_ack'[f] \in Nat /\ Pos(e) \in Nat
      /\ Len(got[f]) \in Nat /\ Len(got'[f]) \in Nat
      /\ head_seq[f] \in Nat /\ head_seq'[f] \in Nat
  <2>1. /\ nextBufferIndex \in [Ends -> Nat] /\ cur_ack \in [Ends -> Nat]
        /\ currBufferIndex \in [Ends -> Nat] /\ currBufferOffset \in [Ends -> Nat]
        /\ head_seq \in [Ends -> Nat]
    BY DEF TypeOK
  <2>2. /\ nextBufferIndex' \in [Ends -> Nat] /\ cur_ack' \in [Ends -> Nat]
        /\ head_seq' \in [Ends -> Nat]
    BY DEF TypeOK
  <2>3. got[f] \in Seq(Nat) /\ got'[f] \in Seq(Nat)
    BY <1>1 DEF TypeOK
  <2>4. Len(got[f]) \in Nat /\ Len(got'[f]) \in Nat
    BY <2>3, LenProperties
  <2>5. Base(e) \in Nat /\ Pos(e) \in Nat
    BY ONLY <2>1, Numbers, e \in Ends DEF Base, Pos
  <2>6. /\ nextBufferIndex[e] \in Nat /\ cur_ack[f] \in Nat
        /\ nextBufferIndex'[e] \in Nat /\ cur_ack'[f] \in Nat
        /\ head_seq[f] \in Nat /\ head_seq'[f] \in Nat
    BY ONLY <1>1, <2>1, <2>2, e \in Ends
  <2>. QED  BY ONLY <2>4, <2>5, <2>6
<1>3. CASE got'[f] = got[f] /\ got[f] # <<>>
  <2>1. /\ Base(e) + Len(got[f]) <= cur_ack[f]
        /\ Base(e) + Len(got[f]) <= nextBufferIndex[e]
    BY <1>3 DEF OutOk, f
  <2>2. ~Early(e) /\ nextBufferIndex'[e] >= nextBufferIndex[e]
    <3>1. nextBufferIndex[e] # 0
      BY ONLY <1>2, <2>1, Numbers DEF Base
    <3>2. ~Early(e)
      BY <3>1 DEF OpenedInv
    <3>. QED  BY <1>2, <3>2, IndexMoves
  <2>3. cur_ack'[f] >= cur_ack[f] \/ cur_ack'[f] > nextBufferIndex[e]
    BY <2>2, AckForward DEF f
  <2>. QED  BY ONLY <1>2, <1>3, <2>1, <2>2, <2>3 DEF OutOk, f
<1>4. CASE got'[f] = <<>>
  BY <1>4 DEF OutOk, f
<1>5. ASSUME NEW len \in ReadLens, ReadData(f, len) PROVE OutOk(e)'
  <2>1. /\ head_seq'[f] <= cur_ack[f] /\ head_seq'[f] <= Pos(e)
        /\ UNCHANGED <<cur_ack, nextBufferIndex, openPc, synHandled>>
    BY <1>5, ReadUpTo DEF f
  <2>2. Started(f)'
    BY <1>1, <1>5, <2>1, ReaderReads DEF Started
  <2>3. head_seq'[f] = ISN[e] + 1 + Len(got'[f])
    BY <1>1, <2>2 DEF ReaderInv
  <2>4. Pos(e) <= nextBufferIndex[e]
    BY DEF Behind
  <2>. QED  BY ONLY <1>2, <2>1, <2>3, <2>4, Numbers DEF OutOk, f, Base
<1>6. ASSUME ReadNothing(f) PROVE OutOk(e)'
  <2>1. UNCHANGED <<cur_ack, nextBufferIndex, openPc, synHandled>> /\ head_seq'[f] = head_seq[f]
    <3>. head_seq \in [Ends -> Nat]
      BY DEF TypeOK
    <3>. QED  BY <1>6 DEF ReadNothing, ReadReturns
  <2>2. Started(f) /\ Started(f)'
    BY <1>1, <1>6, <2>1, ReaderReads DEF Started
  <2>3. head_seq'[f] = ISN[e] + 1 + Len(got'[f]) /\ head_seq[f] = ISN[e] + 1 + Len(got[f])
    BY <1>1, <2>2 DEF ReaderInv
  <2>4. Len(got'[f]) = Len(got[f])
    <3>. DEFINE m == Len(got[f])
                n == Len(got'[f])
    <3>1. Base(e) + n = Base(e) + m
      BY <2>1, <2>3 DEF Base
    <3>2. m \in Nat /\ n \in Nat /\ Base(e) \in Nat
      BY <1>2
    <3>. HIDE DEF m, n
    <3>3. m = n
      BY ONLY <3>1, <3>2
    <3>. QED  BY <3>3 DEF m, n
  <2>5. CASE got[f] = <<>>
    <3>1. Len(got'[f]) = 0 /\ got'[f] \in Seq(Nat)
      BY <1>1, <2>4, <2>5 DEF TypeOK
    <3>2. got'[f] = <<>>
      BY <3>1, EmptySeq
    <3>. QED  BY <1>4, <3>2
  <2>6. CASE got[f] # <<>>
    BY <1>1, <2>1, <2>4, <2>6 DEF OutOk, f
  <2>. QED  BY <2>5, <2>6
<1>7. \/ \E len \in ReadLens : ReadData(f, len)
      \/ ReadNothing(f)
      \/ got'[f] = got[f]
  <2>1. ASSUME NEW g \in Ends, g # f, ReadNothing(g) \/ \E len \in ReadLens : ReadData(g, len)
        PROVE  got'[f] = got[f]
    <3>. got \in [Ends -> Seq(Nat)]
      BY DEF TypeOK
    <3>1. \E m : got' = [got EXCEPT ![g] = m]
      BY <2>1 DEF ReadNothing, ReadData, ReadReturns
    <3>. QED  BY <1>1, <2>1, <3>1
  <2>2. ASSUME NEW h \in handling, HandleData(h) PROVE got' = got
    BY <2>2 DEF HandleData
  <2>. QED  BY <2>1, <2>2, RecvSteps
<1>. QED  BY <1>3, <1>4, <1>5, <1>6, <1>7

\* What the refinement needs, beyond what was shown of an orderly tunnel.
StreamInv ==
    /\ FirstInv /\ HandlersSeq
    /\ \A e \in Ends : ToldLess(e) /\ AllAcked(e) /\ FinOk(e) /\ Behind(e) /\ OutOk(e)
    /\ \A w \in Calls : PlaceOk(w)

\* All that was shown of an orderly tunnel, together.
LEMMA TunnelAlways == ASSUME Orderly PROVE Spec => []TunnelInv
<1>1. OneLink /\ MaxSyn <= 1
  BY DEF Orderly
<1>2. Spec => []LifeInv
  BY <1>1, LifeAlways
<1>3. Spec => [](DataInv /\ DataHandlers)
  BY <1>1, DataAlways
<1>4. Spec => []SynAckInv
  BY <1>1, SynAckAlways
<1>5. Spec => []ReaderInv
  BY <1>1, ReaderAlways
<1>. QED
  BY <1>2, <1>3, <1>4, <1>5, TypeCorrect, EarlyAlways, OrderlyAlways, ConfirmAlways, PTL DEF TunnelInv

\* The numbers of the windows, the packets and the calls agree with the stream of bytes.
LEMMA StreamAlways == ASSUME Orderly PROVE Spec => []StreamInv
<1>. USE Numbers
<1>1. Init => StreamInv
  <2>. SUFFICES ASSUME Init PROVE StreamInv
    OBVIOUS
  <2>1. FirstInv /\ HandlersSeq
    BY DEF Init, FirstInv, HandlersSeq, Early
  <2>2. ASSUME NEW e \in Ends PROVE ToldLess(e) /\ AllAcked(e) /\ FinOk(e) /\ Behind(e) /\ OutOk(e)
    BY DEF Init, ToldLess, AllAcked, FinOk, Behind, OutOk, Early, Pos
  <2>3. ASSUME NEW w \in Calls PROVE PlaceOk(w)
    BY DEF Init, PlaceOk, Pending
  <2>. QED  BY <2>1, <2>2, <2>3 DEF StreamInv
<1>2. TunnelInv /\ TunnelInv' /\ StreamInv /\ [Next]_vars => StreamInv'
  <2>. SUFFICES ASSUME TunnelInv, TunnelInv', StreamInv, [Next]_vars PROVE StreamInv'
    OBVIOUS
  <2>0. /\ FirstInv /\ HandlersSeq
        /\ \A e \in Ends : ToldLess(e) /\ AllAcked(e) /\ FinOk(e) /\ Behind(e) /\ OutOk(e)
        /\ \A w \in Calls : PlaceOk(w) /\ ToldLess(Caller[w])
    BY DEF StreamInv
  <2>1. FirstInv' /\ HandlersSeq'
    BY <2>0, FirstKept, HandlersSeqKept
  <2>2. ASSUME NEW e \in Ends PROVE ToldLess(e)' /\ AllAcked(e)'
    BY <2>0, ToldKept, AllAckedKept
  <2>3. ASSUME NEW e \in Ends PROVE FinOk(e)'
    BY <2>0, FinKept
  <2>4. ASSUME NEW e \in Ends PROVE Behind(e)'
    BY <2>0, BehindKept
  <2>5. ASSUME NEW e \in Ends PROVE OutOk(e)'
    BY <2>0, OutKept
  <2>6. ASSUME NEW w \in Calls PROVE PlaceOk(w)'
    BY <2>0, PlaceKept
  <2>. QED  BY <2>1, <2>2, <2>3, <2>4, <2>5, <2>6 DEF StreamInv
<1>. QED  BY <1>1, <1>2, TunnelAlways, PTL DEF Spec

\* The bytes of e that were written, as the stream counts them.
WrittenBytes(e) == IF nextBufferIndex[e] = 0 THEN 0 ELSE nextBufferIndex[e] - Base(e)

\* The numbers of the stream, and when it is empty.
LEMMA Amounts ==
    ASSUME TunnelInv, NEW e \in Ends
    PROVE  /\ WrittenBytes(e) \in Nat /\ ReceivedBytes(e) \in 0 .. WrittenBytes(e)
           /\ Early(e) => nextBufferIndex[e] = 0
           /\ ~Early(e) => /\ nextBufferIndex[e] \in Nat /\ nextBufferIndex[e] >= Base(e)
                           /\ WrittenBytes(e) = nextBufferIndex[e] - Base(e)
<1>. USE Numbers
<1>. nextBufferIndex \in [Ends -> Nat] /\ cur_ack \in [Ends -> Nat]
  BY DEF TunnelInv, TypeOK
<1>1. Base(e) \in Nat \ {0} /\ nextBufferIndex[e] \in Nat /\ cur_ack[Peer(e)] \in Nat
  BY DEF Base
<1>2. Early(e) => nextBufferIndex[e] = 0
  BY DEF TunnelInv, OrderlyInv, OpenedInv
<1>3. ~Early(e) => nextBufferIndex[e] >= Base(e)
  <2>1. ~Early(e) => nextBufferIndex[e] > ISN[e]
    BY DEF TunnelInv, OrderlyInv, OpenedInv
  <2>. QED  BY <1>1, <2>1 DEF Base
<1>4. nextBufferIndex[e] = 0 \/ nextBufferIndex[e] >= Base(e)
  BY <1>2, <1>3
<1>. QED  BY <1>1, <1>2, <1>3, <1>4 DEF WrittenBytes, ReceivedBytes

\* What is acknowledged beyond the first number, up to the last one, has been received.
LEMMA Counted ==
    ASSUME TunnelInv, NEW e \in Ends, ~Early(e), NEW n \in Nat, Base(e) <= n,
           n <= nextBufferIndex[e], n <= cur_ack[Peer(e)]
    PROVE  n - Base(e) <= ReceivedBytes(e)
<1>. USE Numbers
<1>. nextBufferIndex \in [Ends -> Nat] /\ cur_ack \in [Ends -> Nat]
  BY DEF TunnelInv, TypeOK
<1>1. Base(e) \in Nat \ {0} /\ nextBufferIndex[e] \in Nat /\ cur_ack[Peer(e)] \in Nat
  BY DEF Base
<1>. QED  BY <1>1 DEF ReceivedBytes

\* Opening a tunnel writes nothing, and nothing but AppendToBuffers does.
LEMMA WrittenStays ==
    ASSUME Orderly, TunnelInv, [Next]_vars, \A w \in Calls : ~WriteAppend(w), NEW e \in Ends
    PROVE  /\ WrittenBytes(e)' = WrittenBytes(e)
           /\ ~Early(e) => nextBufferIndex'[e] = nextBufferIndex[e]
<1>. USE Numbers
<1>1. CASE ~Early(e)
  <2>1. nextBufferIndex'[e] = nextBufferIndex[e]
    BY <1>1, IndexMoves
  <2>. QED  BY <2>1 DEF WrittenBytes
<1>2. CASE Early(e)
  <2>. TypeOK /\ LifeInv /\ OpenedInv /\ nextBufferIndex[e] = 0
    BY <1>2, Amounts DEF TunnelInv, OrderlyInv
  <2>. nextBufferIndex \in [Ends -> Nat]
    BY DEF TypeOK
  <2>. Base(e) \in Nat /\ ISN[e] + 1 = Base(e)
    BY DEF Base
  <2>0. /\ TypeOK /\ LifeInv /\ OpenedInv /\ nextBufferIndex \in [Ends -> Nat]
        /\ nextBufferIndex[e] = 0 /\ Base(e) \in Nat /\ ISN[e] + 1 = Base(e)
    OBVIOUS
  <2>1. nextBufferIndex'[e] \in {0, Base(e)}
    <3>1. CASE OpenFinish
      <4>1. e = Client => nextBufferIndex'[e] = Base(e)
        BY <2>0, <3>1, FirstNumbers DEF FirstSequence
      <4>2. e # Client => nextBufferIndex'[e] = nextBufferIndex[e]
        <5>1. \E p \in openQueue : FirstSequence(Client, p.ack)
          BY <3>1 DEF OpenFinish
        <5>. QED  BY <2>0, <5>1 DEF FirstSequence
      <4>. QED  BY <2>0, <4>1, <4>2
    <3>2. ASSUME NEW h \in handling, Establish(h) PROVE nextBufferIndex'[e] \in {0, Base(e)}
      <4>1. h.pkt.to = e => nextBufferIndex'[e] = Base(e)
        BY <2>0, <3>2, FirstNumbers DEF FirstSequence
      <4>2. h.pkt.to # e => nextBufferIndex'[e] = nextBufferIndex[e]
        BY <2>0, <3>2 DEF Establish, FirstSequence
      <4>. QED  BY <2>0, <4>1, <4>2
    <3>3. ASSUME NEW h \in handling, AckSegments(h) PROVE nextBufferIndex' = nextBufferIndex
      BY <3>3 DEF AckSegments
    <3>4. ASSUME NEW f \in Ends, WriterSend(f) PROVE nextBufferIndex' = nextBufferIndex
      BY <3>4 DEF WriterSend
    <3>. QED  BY <2>0, <3>1, <3>2, <3>3, <3>4, NumberSteps
  <2>. QED  BY <1>2, <2>0, <2>1 DEF WrittenBytes
<1>. QED  BY <1>1, <1>2

\* A step acknowledges at one end at most.
LEMMA AckOfOne ==
    ASSUME TypeOK, [Next]_vars
    PROVE  \E f \in Ends : \A g \in Ends \ {f} : cur_ack'[g] = cur_ack[g]
<1>. USE Numbers
<1>. cur_ack \in [Ends -> Nat] /\ net \subseteq Packet
  BY DEF TypeOK
<1>1. CASE OpenFinish
  <2>1. \E p \in openQueue : ExpectFrom(Client, p.seq)
    BY <1>1 DEF OpenFinish
  <2>. QED  BY <2>1 DEF ExpectFrom
<1>2. CASE HandleSyn
  BY <1>2 DEF HandleSyn, ExpectFrom
<1>3. ASSUME NEW p \in net, NEW l \in Links, ReceiveFin(p, l)
      PROVE  \E f \in Ends : \A g \in Ends \ {f} : cur_ack'[g] = cur_ack[g]
  <2>1. cur_ack' = [cur_ack EXCEPT ![p.to] = p.seq + 1] /\ p.to \in Ends
    BY <1>3 DEF ReceiveFin, Packet
  <2>. QED  BY <2>1
<1>4. ASSUME NEW h \in handling, HandleData(h)
      PROVE  \E f \in Ends : \A g \in Ends \ {f} : cur_ack'[g] = cur_ack[g]
  <2>1. h.pkt.to \in Ends /\ \A g \in Ends \ {h.pkt.to} : cur_ack'[g] = cur_ack[g]
    <3>1. h.pkt.to \in Ends
      BY HandledPacket, TypeGroups
    <3>2. cur_ack' = cur_ack \/ \E n : cur_ack' = [cur_ack EXCEPT ![h.pkt.to] = n]
      BY <1>4 DEF HandleData, ExpectAfter
    <3>. QED  BY <3>1, <3>2
  <2>. QED  BY <2>1
<1>. QED  BY <1>1, <1>2, <1>3, <1>4, AckSteps

\* After a step too, what is received was written.
LEMMA ReceivedFits ==
    ASSUME TunnelInv', NEW e \in Ends
    PROVE  WrittenBytes(e)' \in Nat /\ ReceivedBytes(e)' \in 0 .. WrittenBytes(e)'
<1>. USE Numbers
<1>1. OpenedInv' /\ nextBufferIndex' \in [Ends -> Nat] /\ cur_ack' \in [Ends -> Nat]
  BY DEF TunnelInv, OrderlyInv, TypeOK
<1>2. ISN[e] \in Nat \ {0} /\ nextBufferIndex'[e] \in Nat /\ cur_ack'[Peer(e)] \in Nat
  BY <1>1
<1>3. nextBufferIndex'[e] = 0 \/ nextBufferIndex'[e] >= ISN[e] + 1
  BY <1>1, <1>2 DEF OpenedInv
<1>. QED  BY ONLY <1>2, <1>3 DEF WrittenBytes, ReceivedBytes, Base

\* While nothing is written, the bytes received grow, at one end.
LEMMA ReceivedMoves ==
    ASSUME Orderly, TunnelInv, TunnelInv', StreamInv, [Next]_vars, \A w \in Calls : ~WriteAppend(w)
    PROVE  \/ \A e \in Ends : ReceivedBytes(e)' = ReceivedBytes(e)
           \/ \E f \in Ends : /\ ReceivedBytes(f)' > ReceivedBytes(f)
                              /\ \A e \in Ends \ {f} : ReceivedBytes(e)' = ReceivedBytes(e)
<1>. USE Numbers
<1>1. ASSUME NEW e \in Ends
      PROVE  /\ ReceivedBytes(e) \in Nat /\ ReceivedBytes(e)' \in Nat
             /\ ReceivedBytes(e)' >= ReceivedBytes(e)
             /\ cur_ack'[Peer(e)] = cur_ack[Peer(e)] => ReceivedBytes(e)' = ReceivedBytes(e)
  <2>1. /\ WrittenBytes(e)' = WrittenBytes(e)
        /\ ~Early(e) => nextBufferIndex'[e] = nextBufferIndex[e]
    BY WrittenStays
  <2>2. /\ ReceivedBytes(e) \in Nat /\ ReceivedBytes(e)' \in Nat
        /\ ReceivedBytes(e) <= WrittenBytes(e) /\ ReceivedBytes(e)' <= WrittenBytes(e)
    <3>1. WrittenBytes(e) \in Nat /\ ReceivedBytes(e) \in 0 .. WrittenBytes(e)
      BY Amounts
    <3>2. WrittenBytes(e)' \in Nat /\ ReceivedBytes(e)' \in 0 .. WrittenBytes(e)'
      BY ReceivedFits
    <3>. QED  BY <2>1, <3>1, <3>2
  <2>3. CASE Early(e)
    <3>1. WrittenBytes(e) = 0
      BY <2>3, Amounts DEF WrittenBytes
    <3>. QED  BY <2>2, <3>1
  <2>4. CASE ~Early(e)
    <3>. nextBufferIndex \in [Ends -> Nat] /\ cur_ack \in [Ends -> Nat]
      BY DEF TunnelInv, TypeOK
    <3>. cur_ack' \in [Ends -> Nat]
      BY NextTyped DEF TunnelInv, TypeOK
    <3>1. /\ Base(e) \in Nat \ {0} /\ nextBufferIndex[e] \in Nat /\ cur_ack[Peer(e)] \in Nat
          /\ cur_ack'[Peer(e)] \in Nat
      BY DEF Base
    <3>2. nextBufferIndex[e] # 0
      BY <2>4, <3>1, Amounts
    <3>3. cur_ack'[Peer(e)] >= cur_ack[Peer(e)] \/ cur_ack'[Peer(e)] > nextBufferIndex[e]
      BY <2>4, AckForward DEF StreamInv
    <3>4. ReceivedBytes(e)' >= ReceivedBytes(e)
      <4>. DEFINE Clip(k, n) == IF k <= Base(e) THEN 0 ELSE (IF k < n THEN k ELSE n) - Base(e)
      <4>1. \A k, l, n \in Nat : n >= Base(e) /\ (l >= k \/ l > n) => Clip(l, n) >= Clip(k, n)
        BY <3>1
      <4>2. ReceivedBytes(e) = Clip(cur_ack[Peer(e)], nextBufferIndex[e])
        BY <3>2 DEF ReceivedBytes
      <4>3. ReceivedBytes(e)' = Clip(cur_ack'[Peer(e)], nextBufferIndex[e])
        BY <2>1, <2>4, <3>2 DEF ReceivedBytes, Base
      <4>4. nextBufferIndex[e] >= Base(e)
        BY <2>4, Amounts
      <4>. HIDE DEF Clip
      <4>. QED  BY ONLY <3>1, <3>3, <4>1, <4>2, <4>3, <4>4
    <3>5. cur_ack'[Peer(e)] = cur_ack[Peer(e)] => ReceivedBytes(e)' = ReceivedBytes(e)
      BY <2>1, <2>4 DEF ReceivedBytes, Base
    <3>. QED  BY <2>2, <3>4, <3>5
  <2>. QED  BY <2>3, <2>4
<1>2. PICK f \in Ends : \A g \in Ends \ {f} : cur_ack'[g] = cur_ack[g]
  BY AckOfOne DEF TunnelInv
<1>3. Peer(f) \in Ends /\ \A e \in Ends \ {Peer(f)} : Peer(e) \in Ends \ {f}
  BY DEF Peer, Ends
<1>4. \A e \in Ends \ {Peer(f)} : ReceivedBytes(e)' = ReceivedBytes(e)
  BY <1>1, <1>2, <1>3
<1>5. CASE ReceivedBytes(Peer(f))' = ReceivedBytes(Peer(f))
  BY <1>4, <1>5
<1>6. CASE ReceivedBytes(Peer(f))' # ReceivedBytes(Peer(f))
  <2>1. ReceivedBytes(Peer(f))' > ReceivedBytes(Peer(f))
    BY <1>1, <1>3, <1>6
  <2>. QED  BY <1>3, <1>4, <2>1
<1>. QED  BY <1>5, <1>6

\* What the reader at the other end of e has been given, and where call w ends, in the stream.
OutputOf(e) == [i \in DOMAIN got[Peer(e)] |-> got[Peer(e)][i] - ISN[e]]
PlaceOf(w) == IF writeIndex[w] = 0 THEN 0 ELSE writeIndex[w] + Size[w] - Base(Caller[w])

\* A step that leaves a part of the stream alone.
SameWritten == \A e \in Ends : WrittenBytes(e)' = WrittenBytes(e)
SameReceived == \A e \in Ends : ReceivedBytes(e)' = ReceivedBytes(e)
SameOutput == \A e \in Ends : OutputOf(e)' = OutputOf(e)
SameCalls == \A w \in Calls : Outcome(w)' = Outcome(w) /\ PlaceOf(w)' = PlaceOf(w)

\* The steps of the stream, by what they do at each end and to each call: bytes are submitted,
LEMMA StreamSubmits ==
    ASSUME NEW w \in Calls, Outcome(w) = "idle", SameReceived, SameOutput,
           \A e \in Ends : WrittenBytes(e)' =
               IF e = Caller[w] THEN WrittenBytes(e) + Size[w] ELSE WrittenBytes(e),
           \A v \in Calls : Outcome(v)' = IF v = w THEN "pending" ELSE Outcome(v),
           \A v \in Calls : PlaceOf(v)' =
               IF v = w THEN WrittenBytes(Caller[w]) + Size[w] ELSE PlaceOf(v)
    PROVE  Stream!Submit(w)
<1>. USE Numbers
<1>. QED
  BY DEF Stream!Submit, WrittenBytes, PlaceOf, OutputOf, SameReceived, SameOutput

\* a call whose bytes are all received is confirmed,
LEMMA StreamConfirms ==
    ASSUME NEW w \in Calls, Outcome(w) = "pending", PlaceOf(w) <= ReceivedBytes(Caller[w]),
           SameWritten, SameReceived, SameOutput,
           \A v \in Calls : Outcome(v)' = (IF v = w THEN "ok" ELSE Outcome(v)) /\ PlaceOf(v)' = PlaceOf(v)
    PROVE  Stream!Confirm(w)
<1>. USE Numbers
<1>. QED
  BY DEF Stream!Confirm, WrittenBytes, PlaceOf, OutputOf, SameWritten, SameReceived, SameOutput

\* a call fails,
LEMMA StreamFails ==
    ASSUME NEW w \in Calls, Outcome(w) \in {"idle", "pending"}, SameWritten, SameReceived, SameOutput,
           \A v \in Calls : Outcome(v)' = (IF v = w THEN "failed" ELSE Outcome(v)) /\ PlaceOf(v)' = PlaceOf(v)
    PROVE  Stream!Fail(w)
<1>. USE Numbers
<1>. QED
  BY DEF Stream!Fail, WrittenBytes, PlaceOf, OutputOf, SameWritten, SameReceived, SameOutput

\* more of what was written is received,
LEMMA StreamReceives ==
    ASSUME NEW f \in Ends, SameWritten, SameOutput, SameCalls,
           ReceivedBytes(f) \in Nat, WrittenBytes(f) \in Nat,
           ReceivedBytes(f)' \in Nat, ReceivedBytes(f) < ReceivedBytes(f)',
           ReceivedBytes(f)' <= WrittenBytes(f),
           \A e \in Ends \ {f} : ReceivedBytes(e)' = ReceivedBytes(e)
    PROVE  Stream!Receive(f)
<1>. DEFINE rec == [e \in Ends |-> ReceivedBytes(e)]
            wri == [e \in Ends |-> WrittenBytes(e)]
<1>1. ReceivedBytes(f)' \in (rec[f] + 1) .. wri[f]
  OBVIOUS
<1>2. rec' = [rec EXCEPT ![f] = ReceivedBytes(f)']
  OBVIOUS
<1>3. /\ rec[f] < wri[f]
      /\ \E n \in (rec[f] + 1) .. wri[f] : rec' = [rec EXCEPT ![f] = n]
  <2>1. rec[f] < wri[f]
    OBVIOUS
  <2>. HIDE DEF rec, wri
  <2>2. \E n \in (rec[f] + 1) .. wri[f] : rec' = [rec EXCEPT ![f] = n]
    BY <1>1, <1>2
  <2>. QED  BY <2>1, <2>2
<1>4. wri' = wri
  BY DEF SameWritten
<1>5. [e \in Ends |-> OutputOf(e)]' = [e \in Ends |-> OutputOf(e)]
  BY DEF SameOutput
<1>6. /\ [v \in Calls |-> Outcome(v)]' = [v \in Calls |-> Outcome(v)]
      /\ [v \in Calls |-> PlaceOf(v)]' = [v \in Calls |-> PlaceOf(v)]
  BY DEF SameCalls
<1>. QED
  BY ONLY <1>3, <1>4, <1>5, <1>6 DEF Stream!Receive, WrittenBytes, PlaceOf, OutputOf

\* or nothing that the applications see happens.
LEMMA StreamStays ==
    ASSUME SameWritten, SameReceived, SameOutput, SameCalls
    PROVE  UNCHANGED Stream!streamVars
BY DEF Stream!streamVars, WrittenBytes, PlaceOf, OutputOf, SameWritten, SameReceived, SameOutput, SameCalls

\* A reader that has been given the bytes in order has been given the first ones.
LEMMA InOrder ==
    ASSUME NEW s \in Seq(Nat), NEW b \in Nat, \A i \in DOMAIN s : s[i] = b + i
    PROVE  /\ [i \in DOMAIN s |-> s[i] - b] = [i \in 1..Len(s) |-> i]
           /\ Len([i \in DOMAIN s |-> s[i] - b]) = Len(s)
<1>1. DOMAIN s = 1..Len(s) /\ Len(s) \in Nat
  BY LenProperties
<1>2. \A i \in 1..Len(s) : s[i] - b = i
  BY <1>1
<1>3. [i \in DOMAIN s |-> s[i] - b] = [i \in 1..Len(s) |-> i]
  BY <1>1, <1>2
<1>4. Len([i \in 1..Len(s) |-> i]) = Len(s)
  <2>. DEFINE m == Len(s)
  <2>1. m \in Nat
    BY <1>1
  <2>. HIDE DEF m
  <2>2. [i \in 1..m |-> i] \in Seq(Nat) /\ Len([i \in 1..m |-> i]) = m
    BY ONLY <2>1
  <2>. QED  BY <2>2 DEF m
<1>. QED  BY <1>3, <1>4

\* The reader of what f writes is given more of what it has received.
LEMMA StreamConsumes ==
    ASSUME NEW f \in Ends, SameWritten, SameReceived, SameCalls, NEW m \in Nat, NEW n \in Nat,
           ReceivedBytes(f) \in Nat, Len(OutputOf(f)) = m, m < n, n <= ReceivedBytes(f),
           OutputOf(f)' = [i \in 1..n |-> i],
           \A e \in Ends \ {f} : OutputOf(e)' = OutputOf(e)
    PROVE  Stream!Consume(f)
<1>. DEFINE out == [e \in Ends |-> OutputOf(e)]
            rec == [e \in Ends |-> ReceivedBytes(e)]
<1>1. n \in (Len(out[f]) + 1) .. rec[f] /\ Len(out[f]) < rec[f]
  OBVIOUS
<1>2. out' = [out EXCEPT ![f] = [i \in 1..n |-> i]]
  OBVIOUS
<1>3. /\ Len(out[f]) < rec[f]
      /\ \E k \in (Len(out[f]) + 1) .. rec[f] : out' = [out EXCEPT ![f] = [i \in 1..k |-> i]]
  <2>. HIDE DEF out, rec
  <2>. QED  BY ONLY <1>1, <1>2
<1>4. rec' = rec
  BY DEF SameReceived
<1>5. [e \in Ends |-> WrittenBytes(e)]' = [e \in Ends |-> WrittenBytes(e)]
  BY DEF SameWritten
<1>6. /\ [v \in Calls |-> Outcome(v)]' = [v \in Calls |-> Outcome(v)]
      /\ [v \in Calls |-> PlaceOf(v)]' = [v \in Calls |-> PlaceOf(v)]
  BY DEF SameCalls
<1>. QED
  BY ONLY <1>3, <1>4, <1>5, <1>6 DEF Stream!Consume, WrittenBytes, PlaceOf, OutputOf

\* Read takes bytes out of the stream, or none.
LEMMA ReadConsumes ==
    ASSUME Orderly, TunnelInv, TunnelInv', StreamInv', NEW e \in Ends,
           ReadNothing(Peer(e)) \/ \E len \in ReadLens : ReadData(Peer(e), len)
    PROVE  Stream!Consume(e) \/ UNCHANGED Stream!streamVars
<1>. USE Numbers
<1>. DEFINE f == Peer(e)
            m == Len(got[f])
            n == Len(got'[f])
<1>1. f \in Ends /\ Peer(f) = e /\ \A g \in Ends \ {e} : Peer(g) \in Ends \ {f}
  BY DEF Peer, Ends
<1>2. UNCHANGED <<cur_ack, nextBufferIndex, writePc, writeIndex>>
  BY DEF ReadNothing, ReadData
<1>3. SameWritten /\ SameReceived /\ SameCalls
  BY <1>2 DEF SameWritten, SameReceived, SameCalls, WrittenBytes, ReceivedBytes, Outcome, PlaceOf
<1>4. got[f] \in Seq(Nat) /\ got'[f] \in Seq(Nat) /\ ISN[e] \in Nat
  <2>1. got \in [Ends -> Seq(Nat)]
    BY DEF TunnelInv, TypeOK
  <2>2. got' \in [Ends -> Seq(Nat)]
    BY DEF TunnelInv, TypeOK
  <2>. QED  BY <1>1, <2>1, <2>2
<1>5. m \in Nat /\ n \in Nat
  BY <1>4, LenProperties
<1>6. /\ \A i \in DOMAIN got[f] : got[f][i] = ISN[e] + i
      /\ \A i \in DOMAIN got'[f] : got'[f][i] = ISN[e] + i
  <2>1. ReadsInOrder /\ ReadsInOrder'
    BY DEF TunnelInv, ReaderInv
  <2>. QED  BY <1>1, <2>1 DEF ReadsInOrder
<1>7. /\ OutputOf(e) = [i \in 1..m |-> i] /\ Len(OutputOf(e)) = m
      /\ OutputOf(e)' = [i \in 1..n |-> i]
  <2>1. OutputOf(e) = [i \in 1..m |-> i] /\ Len(OutputOf(e)) = m
    BY <1>4, <1>6, InOrder DEF OutputOf
  <2>2. OutputOf(e)' = [i \in 1..n |-> i]
    <3>1. [i \in DOMAIN got'[f] |-> got'[f][i] - ISN[e]] = [i \in 1..n |-> i]
      BY <1>4, <1>6, InOrder
    <3>. QED  BY <3>1 DEF OutputOf
  <2>. QED  BY <2>1, <2>2
<1>8. ASSUME NEW g \in Ends \ {e} PROVE OutputOf(g)' = OutputOf(g)
  <2>1. \E k : got' = [got EXCEPT ![f] = k]
    BY DEF ReadNothing, ReadData, ReadReturns
  <2>2. got \in [Ends -> Seq(Nat)]
    BY DEF TunnelInv, TypeOK
  <2>3. got'[Peer(g)] = got[Peer(g)]
    BY <1>1, <1>8, <2>1, <2>2
  <2>. QED  BY <2>3 DEF OutputOf
<1>9. m <= n
  <2>0. TypeOK /\ EarlyInv /\ DataInv
    BY DEF TunnelInv
  <2>1. /\ Started(f) /\ UNCHANGED <<openPc, synHandled>>
        /\ \E upto \in Nat : upto >= head_seq[f] /\ \E fault : ReadReturns(f, upto, fault)
    BY <1>1, <2>0, ReaderReads
  <2>2. Started(f)'
    BY <2>1 DEF Started
  <2>3. head_seq[f] = ISN[e] + 1 + m /\ head_seq'[f] = ISN[e] + 1 + n
    BY <1>1, <2>1, <2>2 DEF TunnelInv, ReaderInv
  <2>4. head_seq \in [Ends -> Nat]
    BY DEF TunnelInv, TypeOK
  <2>5. head_seq'[f] >= head_seq[f]
    BY <1>1, <2>1, <2>4 DEF ReadReturns
  <2>. HIDE DEF m, n
  <2>. QED  BY ONLY <1>4, <1>5, <2>3, <2>5
<1>10. CASE m = n
  <2>1. OutputOf(e)' = OutputOf(e)
    BY <1>7, <1>10
  <2>2. SameOutput
    BY <1>8, <2>1 DEF SameOutput
  <2>. QED  BY <1>3, <2>2, StreamStays
<1>11. CASE m # n
  <2>1. m < n
    BY <1>5, <1>9, <1>11
  <2>2. got'[f] # <<>>
    BY <1>5, <2>1
  <2>3. Base(e) + n <= cur_ack[f] /\ Base(e) + n <= nextBufferIndex[e]
    BY <1>2, <2>2 DEF StreamInv, OutOk, Base
  <2>4. Base(e) \in Nat \ {0} /\ nextBufferIndex[e] \in Nat
    <3>. nextBufferIndex \in [Ends -> Nat]
      BY DEF TunnelInv, TypeOK
    <3>. QED  BY DEF Base
  <2>. HIDE DEF m, n
  <2>5. nextBufferIndex[e] # 0
    BY ONLY <1>5, <2>3, <2>4
  <2>6. ~Early(e)
    BY <2>5, Amounts
  <2>7. Base(e) + n \in Nat /\ Base(e) <= Base(e) + n /\ (Base(e) + n) - Base(e) = n
    BY ONLY <1>5, <2>4
  <2>8. n <= ReceivedBytes(e)
    BY <2>3, <2>6, <2>7, Counted DEF f
  <2>9. ReceivedBytes(e) \in Nat
    BY Amounts
  <2>10. OutputOf(e)' = [i \in 1..n |-> i] /\ Len(OutputOf(e)) = m
    BY <1>7
  <2>. QED  BY <1>3, <1>5, <1>8, <2>1, <2>8, <2>9, <2>10, StreamConsumes
<1>. QED  BY <1>10, <1>11

\* AppendToBuffers puts the bytes of a call at the end of the stream, or the call fails.
LEMMA AppendSubmits ==
    ASSUME Orderly, TunnelInv, StreamInv, [Next]_vars, NEW w \in Calls, WriteAppend(w)
    PROVE  Stream!Submit(w) \/ Stream!Fail(w)
<1>. USE Numbers
<1>. DEFINE e == Caller[w]
<1>1. e \in Ends /\ Peer(e) \in Ends /\ Size[w] \in Nat \ {0}
  OBVIOUS
<1>2. TypeOK /\ EarlyInv
  BY DEF TunnelInv
<1>3. /\ nextBufferIndex \in [Ends -> Nat] /\ cur_ack \in [Ends -> Nat]
      /\ writePc \in [Calls -> {"idle", "checked", "appended", "waiting", "ok", "failed"}]
      /\ writeIndex \in [Calls -> Nat]
  BY <1>2 DEF TypeOK
<1>4. /\ writePc[w] = "checked" /\ openPc[e] = "ok" /\ UNCHANGED cur_ack
      /\ \A f \in Ends \ {e} : nextBufferIndex'[f] = nextBufferIndex[f]
      /\ \/ /\ nextBufferIndex' = nextBufferIndex
            /\ writePc' = [writePc EXCEPT ![w] = "failed"] /\ writeIndex' = writeIndex
         \/ /\ nextBufferIndex'[e] = nextBufferIndex[e] + Size[w]
            /\ writePc' = [writePc EXCEPT ![w] = "appended"]
            /\ writeIndex' = [writeIndex EXCEPT ![w] = nextBufferIndex[e]]
  BY <1>2, Appended
<1>5. SameOutput
  BY DEF WriteAppend, SameOutput, OutputOf
<1>6. Outcome(w) = "idle"
  BY <1>4 DEF Outcome
<1>7. CASE /\ nextBufferIndex' = nextBufferIndex
           /\ writePc' = [writePc EXCEPT ![w] = "failed"] /\ writeIndex' = writeIndex
  <2>1. SameWritten /\ SameReceived
    BY <1>4, <1>7 DEF SameWritten, SameReceived, WrittenBytes, ReceivedBytes
  <2>2. ASSUME NEW v \in Calls
        PROVE  Outcome(v)' = (IF v = w THEN "failed" ELSE Outcome(v)) /\ PlaceOf(v)' = PlaceOf(v)
    BY <1>3, <1>7 DEF Outcome, PlaceOf
  <2>. QED  BY <1>5, <1>6, <2>1, <2>2, StreamFails
<1>8. CASE /\ nextBufferIndex'[e] = nextBufferIndex[e] + Size[w]
           /\ writePc' = [writePc EXCEPT ![w] = "appended"]
           /\ writeIndex' = [writeIndex EXCEPT ![w] = nextBufferIndex[e]]
  <2>1. ~Early(e)
    BY <1>1, <1>4, NotClosing
  <2>2. nextBufferIndex[e] \in Nat /\ nextBufferIndex[e] >= Base(e)
    BY <1>1, <2>1, Amounts
  <2>3. ~CloseBegun(e)
    BY <1>4 DEF TunnelInv, OrderlyInv, CallsInv, NoWrite, Resting
  <2>4. cur_ack[Peer(e)] <= nextBufferIndex[e]
    <3>1. cur_ack[Peer(e)] <= Pos(e)
      BY <1>1, <2>1, <2>3 DEF TunnelInv, OrderlyInv, AcksOk, Limit
    <3>2. Pos(e) <= nextBufferIndex[e]
      BY <1>1 DEF StreamInv, Behind
    <3>3. Pos(e) \in Nat /\ cur_ack[Peer(e)] \in Nat
      <4>. currBufferIndex \in [Ends -> Nat] /\ currBufferOffset \in [Ends -> Nat]
        BY <1>2 DEF TypeOK
      <4>. QED  BY <1>1, <1>3 DEF Pos
    <3>. QED  BY ONLY <2>2, <3>1, <3>2, <3>3
  <2>5. Base(e) \in Nat \ {0} /\ cur_ack[Peer(e)] \in Nat
    BY <1>1, <1>3 DEF Base
  <2>6. /\ WrittenBytes(e) = nextBufferIndex[e] - Base(e)
        /\ WrittenBytes(e)' = (nextBufferIndex[e] + Size[w]) - Base(e)
    BY <1>1, <1>8, <2>2, <2>5 DEF WrittenBytes, Base
  <2>7. WrittenBytes(e)' = WrittenBytes(e) + Size[w]
    BY ONLY <1>1, <2>2, <2>5, <2>6
  <2>8. ReceivedBytes(e)' = ReceivedBytes(e)
    <3>1. ReceivedBytes(e) = IF cur_ack[Peer(e)] <= Base(e) THEN 0 ELSE cur_ack[Peer(e)] - Base(e)
      BY ONLY <2>2, <2>4, <2>5 DEF ReceivedBytes
    <3>2. ReceivedBytes(e)' = IF cur_ack[Peer(e)] <= Base(e) THEN 0 ELSE cur_ack[Peer(e)] - Base(e)
      BY ONLY <1>1, <1>4, <1>8, <2>2, <2>4, <2>5 DEF ReceivedBytes, Base
    <3>. QED  BY <3>1, <3>2
  <2>9. ASSUME NEW f \in Ends
        PROVE  /\ WrittenBytes(f)' = IF f = e THEN WrittenBytes(f) + Size[w] ELSE WrittenBytes(f)
               /\ ReceivedBytes(f)' = ReceivedBytes(f)
    <3>1. CASE f = e
      BY <2>7, <2>8, <3>1
    <3>2. CASE f # e
      <4>1. nextBufferIndex'[f] = nextBufferIndex[f] /\ cur_ack' = cur_ack
        BY <1>4, <3>2
      <4>. QED  BY <3>2, <4>1 DEF WrittenBytes, ReceivedBytes, Base
    <3>. QED  BY <3>1, <3>2
  <2>10. PlaceOf(w)' = WrittenBytes(e) + Size[w]
    <3>1. writeIndex'[w] = nextBufferIndex[e] /\ nextBufferIndex[e] # 0
      BY <1>3, <1>8, <2>2, <2>5
    <3>2. PlaceOf(w)' = nextBufferIndex[e] + Size[w] - Base(e)
      BY <3>1 DEF PlaceOf, Base
    <3>. QED  BY ONLY <1>1, <2>2, <2>5, <2>6, <3>2
  <2>11. ASSUME NEW v \in Calls
         PROVE  /\ Outcome(v)' = IF v = w THEN "pending" ELSE Outcome(v)
                /\ PlaceOf(v)' = IF v = w THEN WrittenBytes(e) + Size[w] ELSE PlaceOf(v)
    <3>1. Outcome(v)' = IF v = w THEN "pending" ELSE Outcome(v)
      BY <1>3, <1>8 DEF Outcome
    <3>2. CASE v = w
      BY <2>10, <3>1, <3>2
    <3>3. CASE v # w
      <4>1. PlaceOf(v)' = PlaceOf(v)
        BY <1>3, <1>8, <3>3 DEF PlaceOf, Base
      <4>. QED  BY <3>1, <3>3, <4>1
    <3>. QED  BY <3>2, <3>3
  <2>. QED  BY <1>5, <1>6, <2>9, <2>11, StreamSubmits DEF SameReceived
<1>. QED  BY <1>4, <1>7, <1>8

\* The other steps of a call of Write end it, or nobody sees them.
LEMMA CallMoves ==
    ASSUME Orderly, TunnelInv, StreamInv, NEW w \in Calls, Writing(w), ~WriteAppend(w)
    PROVE  Stream!Confirm(w) \/ Stream!Fail(w) \/ UNCHANGED Stream!streamVars
<1>. USE Numbers
<1>. writePc \in [Calls -> {"idle", "checked", "appended", "waiting", "ok", "failed"}]
  BY DEF TunnelInv, TypeOK
<1>1. UNCHANGED <<cur_ack, nextBufferIndex, writeIndex, got>>
  BY DEF Writing, WriteStart, WriteSpawn, WriteSpawnRefused, WriteFinish, WriteAborted, WriteTimeout,
         CancelFromBuffers
<1>2. SameWritten /\ SameReceived /\ SameOutput /\ \A v \in Calls : PlaceOf(v)' = PlaceOf(v)
  BY <1>1 DEF SameWritten, SameReceived, SameOutput, WrittenBytes, ReceivedBytes, OutputOf, PlaceOf
<1>3. CASE WriteStart(w) \/ WriteSpawn(w)
  <2>1. \A v \in Calls : Outcome(v)' = Outcome(v)
    BY <1>3 DEF WriteStart, WriteSpawn, Outcome
  <2>. QED  BY <1>2, <2>1, StreamStays DEF SameCalls
<1>4. CASE GiveUp(w)
  <2>1. Outcome(w) = "pending" /\ writePc' = [writePc EXCEPT ![w] = "failed"]
    BY <1>4 DEF GiveUp, WriteSpawnRefused, WriteAborted, WriteTimeout, Outcome
  <2>2. \A v \in Calls : Outcome(v)' = IF v = w THEN "failed" ELSE Outcome(v)
    BY <2>1 DEF Outcome
  <2>. QED  BY <1>2, <2>1, <2>2, StreamFails
<1>5. CASE WriteFinish(w)
  <2>. DEFINE e == Caller[w]
              last == writeIndex[w] + Size[w]
  <2>1. /\ Outcome(w) = "pending" /\ Pending(w) /\ BufferOf(w) = {}
        /\ writePc' = [writePc EXCEPT ![w] = "ok"]
    BY <1>5 DEF WriteFinish, Outcome, Pending
  <2>2. \A v \in Calls : Outcome(v)' = IF v = w THEN "ok" ELSE Outcome(v)
    BY <2>1 DEF Outcome
  <2>3. last <= nextBufferIndex[e] /\ last <= cur_ack[Peer(e)]
    BY <2>1 DEF StreamInv, PlaceOk
  <2>4. /\ writeIndex[w] \in Nat /\ writeIndex[w] > ISN[e] /\ Size[w] \in Nat \ {0}
        /\ Base(e) \in Nat \ {0} /\ Base(e) = ISN[e] + 1 /\ ISN[e] \in Nat
    <3>1. writeIndex \in [Calls -> Nat]
      BY DEF TunnelInv, TypeOK
    <3>2. writeIndex[w] > ISN[e]
      BY <2>1 DEF TunnelInv, ConfirmInv, WroteInv
    <3>. QED  BY <3>1, <3>2 DEF Base
  <2>5. last \in Nat /\ Base(e) <= last /\ writeIndex[w] # 0
    BY ONLY <2>4
  <2>6. e \in Ends /\ ~Early(e)
    <3>1. nextBufferIndex \in [Ends -> Nat]
      BY DEF TunnelInv, TypeOK
    <3>2. nextBufferIndex[e] # 0
      BY <2>3, <2>4, <2>5, <3>1
    <3>. QED  BY <3>2, Amounts
  <2>7. last - Base(e) <= ReceivedBytes(e)
    <3>. HIDE DEF last, e
    <3>. QED  BY <2>3, <2>5, <2>6, Counted
  <2>8. PlaceOf(w) <= ReceivedBytes(e)
    <3>1. PlaceOf(w) = last - Base(e)
      BY ONLY <2>4, <2>5 DEF PlaceOf
    <3>. QED  BY ONLY <2>7, <3>1
  <2>9. \A v \in Calls : Outcome(v)' = (IF v = w THEN "ok" ELSE Outcome(v)) /\ PlaceOf(v)' = PlaceOf(v)
    BY <1>2, <2>2
  <2>10. Stream!Confirm(w)
    BY ONLY w \in Calls, <1>2, <2>1, <2>8, <2>9, StreamConfirms
  <2>. QED  BY <2>10
<1>. QED  BY <1>3, <1>4, <1>5 DEF Writing, GiveUp

\* The windows start as an empty stream.
LEMMA StreamStarts == Init => Stream!Init
<1>. SUFFICES ASSUME Init PROVE Stream!Init
  OBVIOUS
<1>. USE Numbers
<1>1. ASSUME NEW e \in Ends
      PROVE  /\ WrittenBytes(e) = 0 /\ ReceivedBytes(e) = 0
             /\ [i \in DOMAIN got[Peer(e)] |-> got[Peer(e)][i] - ISN[e]] = <<>>
  <2>1. nextBufferIndex[e] = 0 /\ cur_ack[Peer(e)] = 0 /\ got[Peer(e)] = <<>>
    BY DEF Init
  <2>2. WrittenBytes(e) = 0
    BY <2>1 DEF WrittenBytes
  <2>3. ReceivedBytes(e) = 0
    BY <2>1 DEF ReceivedBytes, Base
  <2>4. got[Peer(e)] \in Seq(Nat) /\ ISN[e] \in Nat
    BY <2>1
  <2>5. \A i \in DOMAIN got[Peer(e)] : got[Peer(e)][i] = ISN[e] + i
    BY <2>1
  <2>6. [i \in DOMAIN got[Peer(e)] |-> got[Peer(e)][i] - ISN[e]] = [i \in 1..0 |-> i]
    BY <2>1, <2>4, <2>5, InOrder
  <2>7. [i \in 1..0 |-> i] = <<>>
    OBVIOUS
  <2>. QED  BY <2>2, <2>3, <2>6, <2>7
<1>2. ASSUME NEW w \in Calls PROVE Outcome(w) = "idle" /\ PlaceOf(w) = 0
  <2>1. writePc[w] = "idle" /\ writeIndex[w] = 0
    BY DEF Init
  <2>. QED  BY <2>1 DEF Outcome, PlaceOf
<1>. QED  BY <1>1, <1>2 DEF Stream!Init, WrittenBytes, PlaceOf

\* Every step of the tunnel is a step of the stream, or nothing that the applications see.
LEMMA StreamSteps ==
    ASSUME Orderly, TunnelInv, TunnelInv', StreamInv, StreamInv', [Next]_vars
    PROVE  [Stream!Next]_(Stream!streamVars)
<1>. USE Numbers
<1>1. ASSUME NEW w \in Calls, WriteAppend(w) PROVE [Stream!Next]_(Stream!streamVars)
  BY <1>1, AppendSubmits DEF Stream!Next
<1>2. ASSUME NEW w \in Calls, Writing(w), ~WriteAppend(w) PROVE [Stream!Next]_(Stream!streamVars)
  BY <1>2, CallMoves DEF Stream!Next
<1>3. ASSUME NEW g \in Ends, ReadNothing(g) \/ \E len \in ReadLens : ReadData(g, len)
      PROVE  [Stream!Next]_(Stream!streamVars)
  <2>1. Peer(g) \in Ends /\ Peer(Peer(g)) = g
    BY DEF Peer, Ends
  <2>2. Stream!Consume(Peer(g)) \/ UNCHANGED Stream!streamVars
    BY <1>3, <2>1, ReadConsumes
  <2>. QED  BY <2>1, <2>2 DEF Stream!Next
<1>4. CASE got' = got /\ \A w \in Calls : ~Writing(w)
  <2>1. \A w \in Calls : ~WriteAppend(w)
    BY <1>4 DEF Writing
  <2>2. UNCHANGED writeVars
    BY <1>4, WriteSteps
  <2>3. SameCalls
    BY <2>2 DEF SameCalls, Outcome, PlaceOf
  <2>4. SameOutput
    BY <1>4 DEF SameOutput, OutputOf
  <2>5. SameWritten
    BY <2>1, WrittenStays DEF SameWritten
  <2>6. CASE \A e \in Ends : ReceivedBytes(e)' = ReceivedBytes(e)
    BY <2>3, <2>4, <2>5, <2>6, StreamStays DEF SameReceived
  <2>7. ASSUME NEW f \in Ends, ReceivedBytes(f)' > ReceivedBytes(f),
               \A e \in Ends \ {f} : ReceivedBytes(e)' = ReceivedBytes(e)
        PROVE  [Stream!Next]_(Stream!streamVars)
    <3>1. ReceivedBytes(f) \in Nat /\ WrittenBytes(f) \in Nat
      BY Amounts
    <3>2. ReceivedBytes(f)' \in 0 .. WrittenBytes(f)'
      BY ReceivedFits
    <3>3. WrittenBytes(f)' = WrittenBytes(f)
      BY <2>5 DEF SameWritten
    <3>4. /\ ReceivedBytes(f)' \in Nat /\ ReceivedBytes(f)' <= WrittenBytes(f)
          /\ ReceivedBytes(f) < ReceivedBytes(f)'
      BY <2>7, <3>1, <3>2, <3>3
    <3>5. Stream!Receive(f)
      BY <2>3, <2>4, <2>5, <2>7, <3>1, <3>4, StreamReceives
    <3>. QED  BY <3>5 DEF Stream!Next
  <2>. QED  BY <2>1, <2>6, <2>7, ReceivedMoves
<1>5. \/ \E g \in Ends : ReadNothing(g) \/ \E len \in ReadLens : ReadData(g, len)
      \/ got' = got
  <2>1. ASSUME NEW h \in handling, HandleData(h) PROVE got' = got
    BY <2>1 DEF HandleData
  <2>. QED  BY <2>1, RecvSteps
<1>. QED  BY <1>1, <1>2, <1>3, <1>4, <1>5

\* Vtunnel: in an orderly tunnel the two windows, their threads and the packets implement a
\* stream of bytes in each direction.
THEOREM Implements == ASSUME Orderly PROVE Spec => ImplementsByteStream
<1>1. Init => Stream!Init
  BY StreamStarts
<1>2. ASSUME Orderly, TunnelInv, TunnelInv', StreamInv, StreamInv', [Next]_vars
      PROVE  [Stream!Next]_(Stream!streamVars)
  BY <1>2, StreamSteps
<1>3. Spec => []TunnelInv
  BY TunnelAlways
<1>4. Spec => []StreamInv
  BY StreamAlways
<1>. QED  BY <1>1, <1>2, <1>3, <1>4, PTL DEF Spec, Stream!Spec, ImplementsByteStream

-----------------------------------------------------------------------------
(* The FIN *)

\* Every byte comes after the SYN.
SeqInv == \A e \in Ends : \A s \in DataOf(e) : s.seq > ISN[e]

\* handleAck works on acknowledgements.
AckHandlers == \A h \in handling : h.pc \in {"ack", "segments", "buffers"} => h.pkt.type = "ACK"

\* A piece of data that was not there is the next one of a buffer.
LEMMA DataComes ==
    ASSUME Orderly, TunnelInv, TunnelInv', [Next]_vars, NEW e \in Ends, NEW x \in DataOf(e)'
    PROVE  x \in DataOf(e) \/ (x.seq = Pos(e) /\ sendBuffers[e] # {})
<1>. USE Numbers
<1>0. /\ TypeOK /\ EarlyInv /\ LifeInv /\ DataInv /\ OrderlyInv /\ OrderlyInv' /\ DataHandlers
      /\ Peer(e) \in Ends /\ \A g \in Ends : Peer(g) = Peer(e) => g = e
  BY DEF TunnelInv, Peer, Ends
<1>1. ASSUME NEW s \in retrySegments'[e], s.type = "DATA"
      PROVE  s \in retrySegments[e] \/ (s.seq = Pos(e) /\ sendBuffers[e] # {})
  <2>1. s \in sendSegments'[e]
    BY <1>0, <1>1 DEF OrderlyInv, SegmentsOk
  <2>2. s \in sendSegments[e] => s \in retrySegments[e]
    BY <1>0, <1>1 DEF OrderlyInv, SegmentsOk
  <2>. QED  BY <1>0, <1>1, <2>1, <2>2, SentBefore
<1>2. ASSUME NEW p \in net', p.type = "DATA", p.to = Peer(e)
      PROVE  PieceOf(p) \in DataOf(e) \/ (p.seq = Pos(e) /\ sendBuffers[e] # {})
  <2>1. CASE p \in net
    BY <1>2, <2>1 DEF DataOf
  <2>2. ASSUME NEW g \in Ends, NewPacket(p, g), p \notin net
        PROVE  PieceOf(p) \in DataOf(e) \/ (p.seq = Pos(e) /\ sendBuffers[e] # {})
    <3>1. g = e
      BY <1>0, <1>2, <2>2 DEF NewPacket
    <3>2. CASE WriterSend(e)
      <4>1. PICK b \in sendBuffers[e] : \E len \in Nat : WriterSent(e, b, len)
        BY <1>0, <3>2, WriterSends
      <4>2. PICK len \in Nat : net' = net \cup {PacketOf(e, "DATA", Pos(e), cur_ack[e], len)}
        BY <4>1 DEF WriterSent
      <4>3. p = PacketOf(e, "DATA", Pos(e), cur_ack[e], len)
        BY <2>2, <4>2
      <4>. QED  BY <4>1, <4>3 DEF PacketOf
    <3>3. ASSUME NEW s \in retrySegments[e], p.type = s.type, p.seq = s.seq, p.len = s.len
          PROVE  PieceOf(p) \in DataOf(e)
      <4>1. PieceOf(p) = PieceOf(s)
        BY <3>3 DEF PieceOf
      <4>. QED  BY <1>2, <3>3, <4>1 DEF DataOf
    <3>. QED  BY <1>2, <2>2, <3>1, <3>2, <3>3 DEF NewPacket
  <2>. QED  BY <1>0, <2>1, <2>2, NewPackets
<1>3. ASSUME NEW g \in handling', g.pkt.type = "DATA", g.pkt.to = Peer(e)
      PROVE  PieceOf(g.pkt) \in DataOf(e)
  <2>1. \/ \E h \in handling : g.pkt = h.pkt
        \/ \E p \in net : g.pkt = p
    BY <1>0, HandlerMoves
  <2>. QED  BY <1>3, <2>1 DEF DataOf
<1>4. ASSUME NEW s \in recvSegments'[Peer(e)] PROVE s \in DataOf(e)
  <2>0. recvSegments \in [Ends -> SUBSET Piece] /\ recvSegments[Peer(e)] \subseteq DataOf(e)
    BY <1>0 DEF TypeOK, DataOf
  <2>1. CASE UNCHANGED <<recvSegments, got>>
    BY <1>4, <2>0, <2>1
  <2>2. ASSUME NEW f \in Ends, ReadNothing(f) \/ \E len \in ReadLens : ReadData(f, len)
        PROVE  s \in DataOf(e)
    <3>1. \E upto, fault : ReadReturns(f, upto, fault)
      BY <1>0, <2>2, ReaderReads
    <3>2. recvSegments'[Peer(e)] \subseteq recvSegments[Peer(e)]
      BY <1>0, <2>0, <3>1 DEF ReadReturns
    <3>. QED  BY <1>4, <2>0, <3>2
  <2>3. ASSUME NEW h \in handling, HandleData(h) PROVE s \in DataOf(e)
    <3>. DEFINE f == h.pkt.to
                y == PieceOf(h.pkt)
    <3>1. /\ f \in Ends /\ y \in DataOf(Peer(f))
          /\ recvSegments' = recvSegments \/ recvSegments' = [recvSegments EXCEPT ![f] = @ \cup {y}]
      BY <1>0, <2>3, DataQueued
    <3>. HIDE DEF f, y
    <3>2. s \in recvSegments[Peer(e)] \/ (f = Peer(e) /\ s = y)
      BY <1>0, <1>4, <2>0, <3>1
    <3>3. f = Peer(e) => Peer(f) = e
      BY DEF Peer, Ends
    <3>. QED  BY <2>0, <3>1, <3>2, <3>3
  <2>. QED  BY <1>0, <2>1, <2>2, <2>3, RecvSteps
<1>5. \/ \E s \in retrySegments'[e] : s.type = "DATA" /\ x = PieceOf(s)
      \/ \E p \in net' : p.type = "DATA" /\ p.to = Peer(e) /\ x = PieceOf(p)
      \/ \E g \in handling' : g.pkt.type = "DATA" /\ g.pkt.to = Peer(e) /\ x = PieceOf(g.pkt)
      \/ x \in recvSegments'[Peer(e)]
  BY DEF DataOf
<1>6. ASSUME NEW s \in retrySegments'[e], s.type = "DATA", x = PieceOf(s)
      PROVE  x \in DataOf(e) \/ (x.seq = Pos(e) /\ sendBuffers[e] # {})
  BY <1>1, <1>6 DEF DataOf, PieceOf
<1>7. ASSUME NEW p \in net', p.type = "DATA", p.to = Peer(e), x = PieceOf(p)
      PROVE  x \in DataOf(e) \/ (x.seq = Pos(e) /\ sendBuffers[e] # {})
  BY <1>2, <1>7 DEF PieceOf
<1>. QED  BY <1>3, <1>4, <1>5, <1>6, <1>7

\* writerThread sends nothing before the tunnel is open.
LEMMA SeqKept ==
    ASSUME Orderly, TunnelInv, TunnelInv', SeqInv, [Next]_vars
    PROVE  SeqInv'
<1>. SUFFICES ASSUME NEW e \in Ends, NEW x \in DataOf(e)' PROVE x.seq > ISN[e]
  BY DEF SeqInv
<1>1. CASE x \in DataOf(e)
  BY <1>1 DEF SeqInv
<1>2. CASE x.seq = Pos(e) /\ sendBuffers[e] # {}
  <2>1. ~Early(e)
    BY <1>2, OneBuffer DEF TunnelInv
  <2>2. Pos(e) > ISN[e]
    BY <2>1 DEF TunnelInv, OrderlyInv, OpenedInv
  <2>. QED  BY <1>2, <2>2
<1>. QED  BY <1>1, <1>2, DataComes

\* A handler keeps its packet, and handleAck is for an ACK.
LEMMA AckHandlersKept == ASSUME TypeOK, AckHandlers, [Next]_vars PROVE AckHandlers'
<1>. SUFFICES ASSUME NEW g \in handling', g.pc \in {"ack", "segments", "buffers"}
              PROVE  g.pkt.type = "ACK"
  BY DEF AckHandlers
<1>1. CASE g \in handling
  BY <1>1 DEF AckHandlers
<1>2. ASSUME NEW p \in net, NEW l \in Links, ReceiveAckOrData(p, l), g.pkt = p,
             g.pc = FirstStep(p.to, p.type)
      PROVE  g.pkt.type = "ACK"
  BY <1>2 DEF ReceiveAckOrData, FirstStep
<1>3. ASSUME NEW h \in handling, g.pkt = h.pkt, AckCompare(h) \/ AckSegments(h)
      PROVE  g.pkt.type = "ACK"
  BY <1>3 DEF AckCompare, AckSegments, AckHandlers
<1>. QED  BY <1>1, <1>2, <1>3, HandlerMoves

\* Only the tunnel of a server is ever half open.
LEMMA ClientOpens ==
    ASSUME TypeOK, [Next]_vars, state[Client] # "HALF_OPEN"
    PROVE  state'[Client] # "HALF_OPEN"
<1>. USE Numbers
<1>. state \in [Ends -> {"NULL", "OPENING", "HALF_OPEN", "OPEN", "CLOSING", "CLOSE_WAIT", "CLOSED"}]
  BY DEF TypeOK
<1>1. CASE UNCHANGED <<state, mutex, openPc, closePc, forced>>
  BY <1>1
<1>2. CASE Opening
  BY <1>2 DEF Opening, OpenRefused, OpenStart, OpenFinish, OpenAborted, OpenTimeout
<1>3. CASE Accepting
  BY <1>3 DEF Accepting, TakeSyn, HandleSyn, WaitForOpenStart, WaitForOpenFinish, WaitForOpenTimeout
<1>4. ASSUME NEW f \in Ends, Closing(f) PROVE state'[Client] # "HALF_OPEN"
  BY <1>4 DEF Closing, CloseClosed, CloseAfterFin, CloseBegin, CloseFin, CloseDone,
     CloseTimeout, ForceClose, ForceCloseBegin, ForceCloseFin, Remove
<1>5. ASSUME NEW p \in net, NEW l \in Links, ReceiveFin(p, l) \/ ReceiveFinAck(p, l)
      PROVE  state'[Client] # "HALF_OPEN"
  BY <1>5 DEF ReceiveFin, ReceiveFinAck
<1>6. ASSUME NEW h \in handling, Establish(h) PROVE state'[Client] # "HALF_OPEN"
  BY <1>6 DEF Establish
<1>. QED  BY <1>1, <1>2, <1>3, <1>4, <1>5, <1>6, ControlSteps DEF ControlStep

\* As long as the server has not seen the end of the handshake, the client has not been told of any
\* byte, what it sends says so, and the server takes none of it for the expected one.
Waits ==
    /\ ~Early(Client) => cur_ack[Client] = ISN[Server] + 1 /\ cur_seq[Client] <= ISN[Client] + 1
    /\ \A p \in net : p.type = "DATA" /\ p.to = Server => p.ack = ISN[Server] + 1
    /\ \A h \in handling : h.pkt.type = "DATA" /\ h.pkt.to = Server =>
        /\ h.pkt.ack = ISN[Server] + 1
        /\ h.pc \in {"recheck", "data"} => h.pkt.seq # ISN[Client] + 1
    /\ synHandled > 0 => cur_ack[Server] = ISN[Client] + 1

ServerWaits == state[Client] # "HALF_OPEN" /\ (Early(Server) /\ ~CloseBegun(Client) => Waits)

\* The numbers of the client while the server waits.
LEMMA WaitsNumbers ==
    ASSUME Orderly, TunnelInv, StreamInv, ServerWaits, [Next]_vars, Waits,
           Early(Server), ~CloseBegun(Client), Early(Server)', ~CloseBegun(Client)'
    PROVE  /\ ~Early(Client)' => cur_ack'[Client] = ISN[Server] + 1 /\ cur_seq'[Client] <= ISN[Client] + 1
           /\ synHandled' > 0 => cur_ack'[Server] = ISN[Client] + 1
<1>. USE Numbers
<1>0. /\ TypeOK /\ EarlyInv /\ LifeInv /\ DataInv /\ DataHandlers /\ OrderlyInv /\ SynAckInv
      /\ cur_ack \in [Ends -> Nat] /\ cur_seq \in [Ends -> Nat] /\ synHandled \in Nat
      /\ handling \subseteq Handling /\ net \subseteq Packet
  BY DEF TunnelInv, TypeOK
<1>1. ~CloseBegun(Server) /\ openPc[Server] # "ok"
  BY NotClosing
<1>2. ASSUME NEW p \in net, NEW l \in Links PROVE ~ReceiveFin(p, l)
  <2>1. p.to \in Ends /\ Peer(Client) = Server /\ Peer(Server) = Client
    BY <1>0 DEF Packet, Peer
  <2>2. FinOk(Client) /\ FinOk(Server)
    BY DEF StreamInv
  <2>. QED  BY <1>1, <2>1, <2>2 DEF FinOk, ReceiveFin, Ends
<1>3. ASSUME NEW h \in handling, HandleData(h) PROVE cur_ack' = cur_ack
  <2>1. h.pkt.to \in Ends
    BY <1>0, HandledPacket, TypeGroups
  <2>2. h.pkt.to # Client
    <3>1. PieceOf(h.pkt) \in DataOf(Peer(h.pkt.to))
      BY <1>0, <1>3, HandledAck
    <3>2. Peer(Client) = Server
      BY DEF Peer
    <3>. QED  BY <1>0, <1>1, <3>1, <3>2 DEF DataInv
  <2>3. h.pkt.to = Server /\ h.pkt.type = "DATA" /\ h.pc = "data"
    BY <1>0, <1>3, <2>1, <2>2 DEF Ends, HandleData, DataHandlers
  <2>4. synHandled > 0
    BY <1>0 DEF EarlyInv, BeforeSyn
  <2>5. h.pkt.seq # cur_ack[Server]
    BY <2>3, <2>4 DEF Waits
  <2>. QED  BY <1>3, <2>3, <2>5 DEF HandleData, ExpectAfter
<1>4. ~Early(Client)' /\ Early(Client) => OpenFinish
  <2>1. ASSUME NEW h \in handling, Establish(h), h.pkt.to = Client PROVE ~Early(Client)
    <3>1. HalfOpen(Client) /\ forced = 0
      BY <1>0, <2>1 DEF LifeInv, HandlerOpens, Establish, Orderly, TypeOK
    <3>. QED  BY <3>1 DEF HalfOpen, ServerWaits
  <2>. QED  BY <1>0, <2>1, EarlyEnds
<1>5. CASE OpenFinish
  <2>1. PICK p \in openQueue : FirstSequence(Client, p.ack) /\ ExpectFrom(Client, p.seq)
                               /\ p.ack = cur_seq[Client] + 1
    BY <1>5 DEF OpenFinish
  <2>2. p.seq = ISN[Server]
    BY <1>0, <2>1 DEF SynAckInv
  <2>3. cur_seq[Client] = ISN[Client]
    BY <1>0, <1>5 DEF OpenFinish, OrderlyInv, OpenedInv, Early
  <2>4. cur_ack'[Client] = ISN[Server] + 1 /\ cur_seq'[Client] = ISN[Client] + 1
        /\ cur_ack'[Server] = cur_ack[Server]
    BY <1>0, <2>1, <2>2, <2>3 DEF FirstSequence, ExpectFrom
  <2>5. synHandled' = synHandled
    BY <1>5 DEF OpenFinish
  <2>. QED  BY <2>4, <2>5 DEF Waits
<1>6. CASE HandleSyn
  <2>1. cur_ack'[Server] = ISN[Client] + 1 /\ cur_ack'[Client] = cur_ack[Client]
        /\ cur_seq' = cur_seq /\ state' = state
    BY <1>0, <1>6 DEF HandleSyn, ExpectFrom
  <2>. QED  BY <2>1 DEF Waits, Early
<1>7. CASE ~OpenFinish /\ ~HandleSyn
  <2>1. cur_ack' = cur_ack
    BY <1>2, <1>3, <1>7, AckSteps
  <2>2. synHandled' = synHandled
    BY <1>7, SynSteps DEF TakeSyn, QueueSyn
  <2>3. ASSUME ~Early(Client)' PROVE cur_seq'[Client] <= ISN[Client] + 1
    <3>1. ~Early(Client) /\ cur_seq[Client] <= ISN[Client] + 1
      BY <1>4, <1>7, <2>3 DEF Waits
    <3>2. ASSUME NEW h \in handling, AckSegments(h), h.pkt.to = Client
          PROVE  cur_seq'[Client] <= ISN[Client] + 1
      <4>1. cur_seq'[Client] = h.pkt.ack
        BY <1>0, <3>2 DEF AckSegments
      <4>2. h.pkt.ack <= cur_ack[Server] /\ cur_ack[Server] = ISN[Client] + 1
        <5>1. synHandled > 0
          BY <1>0 DEF EarlyInv, BeforeSyn
        <5>2. ToldLess(Client) /\ Peer(Client) = Server
          BY DEF StreamInv, Peer
        <5>. QED  BY <3>2, <5>1, <5>2 DEF Waits, ToldLess
      <4>. QED  BY <4>1, <4>2
    <3>3. ASSUME NEW h \in handling, AckSegments(h), h.pkt.to # Client
          PROVE  cur_seq'[Client] = cur_seq[Client]
      BY <1>0, <3>3 DEF AckSegments
    <3>4. ASSUME NEW h \in handling, Establish(h) PROVE cur_seq'[Client] = cur_seq[Client]
      <4>1. h.pkt.to # Client
        <5>1. HalfOpen(h.pkt.to) /\ forced = 0
          BY <1>0, <3>4 DEF LifeInv, HandlerOpens, Establish, Orderly, TypeOK
        <5>. QED  BY <5>1, <3>1 DEF HalfOpen, ServerWaits
      <4>. QED  BY <1>0, <3>4, <4>1 DEF Establish, FirstSequence
    <3>5. (\E w \in Calls : WriteAppend(w)) \/ (\E f \in Ends : WriterSend(f)) => cur_seq' = cur_seq
      BY DEF WriteAppend, WriterSend
    <3>. QED  BY <1>7, <3>1, <3>2, <3>3, <3>4, <3>5, NumberSteps
  <2>4. ~Early(Client)' => ~Early(Client)
    BY <1>4, <1>7
  <2>. QED  BY <2>1, <2>2, <2>3, <2>4 DEF Waits
<1>. QED  BY <1>5, <1>6, <1>7

\* What the client sends while the server waits, and what the server makes of it.
LEMMA WaitsPackets ==
    ASSUME Orderly, TunnelInv, StreamInv, ServerWaits, [Next]_vars, Waits,
           Early(Server), ~CloseBegun(Client), Early(Server)', ~CloseBegun(Client)'
    PROVE  /\ \A p \in net' : p.type = "DATA" /\ p.to = Server => p.ack = ISN[Server] + 1
           /\ \A h \in handling' : h.pkt.type = "DATA" /\ h.pkt.to = Server =>
                /\ h.pkt.ack = ISN[Server] + 1
                /\ h.pc \in {"recheck", "data"} => h.pkt.seq # ISN[Client] + 1
<1>. USE Numbers
<1>0. /\ TypeOK /\ EarlyInv /\ LifeInv /\ DataInv /\ DataHandlers /\ OrderlyInv
      /\ cur_ack \in [Ends -> Nat] /\ cur_seq \in [Ends -> Nat] /\ synHandled \in Nat
      /\ handling \subseteq Handling /\ net \subseteq Packet
  BY DEF TunnelInv, TypeOK
<1>1. ASSUME NEW p \in net', p.type = "DATA", p.to = Server PROVE p.ack = ISN[Server] + 1
  <2>1. CASE p \in net
    BY <1>1, <2>1 DEF Waits
  <2>2. ASSUME NEW f \in Ends, NewPacket(p, f) PROVE p.ack = ISN[Server] + 1
    <3>1. f = Client
      BY <1>1, <2>2 DEF NewPacket, Peer
    <3>2. /\ p.ack = cur_ack[Client]
          /\ WriterSend(Client) \/ \E s \in retrySegments[Client] : s.type = "DATA"
      BY <1>1, <2>2, <3>1 DEF NewPacket
    <3>3. openPc[Client] = "ok"
      <4>1. WriterSend(Client) => openPc[Client] = "ok"
        BY <1>0, WriterSends
      <4>2. (\E s \in retrySegments[Client] : s.type = "DATA") => DataOf(Client) # {}
        BY DEF DataOf
      <4>. QED  BY <1>0, <3>2, <4>1, <4>2 DEF DataInv
    <3>4. ~Early(Client)
      BY <1>0, <3>3, OrderlySteps
    <3>. QED  BY <3>2, <3>4 DEF Waits
  <2>. QED  BY <1>0, <2>1, <2>2, NewPackets
<1>2. ASSUME NEW g \in handling', g.pkt.type = "DATA", g.pkt.to = Server
      PROVE  /\ g.pkt.ack = ISN[Server] + 1
             /\ g.pc \in {"recheck", "data"} => g.pkt.seq # ISN[Client] + 1
  <2>1. CASE g \in handling
    BY <1>2, <2>1 DEF Waits
  <2>2. ASSUME NEW p \in net, NEW l \in Links, ReceiveAckOrData(p, l), g.pkt = p,
               g.pc = FirstStep(p.to, p.type)
        PROVE  g.pkt.ack = ISN[Server] + 1 /\ g.pc \notin {"recheck", "data"}
    <3>1. state[Server] \in Accepts("DATA") /\ g.pkt.ack = ISN[Server] + 1
      BY <1>2, <2>2 DEF ReceiveAckOrData, Waits
    <3>2. state[Server] = "HALF_OPEN"
      BY <1>0, <3>1 DEF Accepts, Early, LifeInv, StatesFit
    <3>. QED  BY <1>2, <2>2, <3>1, <3>2 DEF FirstStep
  <2>3. ASSUME NEW h \in handling, g.pkt = h.pkt
        PROVE  /\ g.pkt.ack = ISN[Server] + 1
               /\ h.pc \in {"recheck", "data"} => g.pkt.seq # ISN[Client] + 1
    BY <1>2, <2>3 DEF Waits
  <2>4. ASSUME NEW h \in handling, g.pkt = h.pkt, ThreeWayCheck(h), g.pc = "recheck", g \notin handling
        PROVE  g.pkt.seq # ISN[Client] + 1
    <3>1. cur_seq[Server] = ISN[Server] /\ cur_ack[Server] = ISN[Client] + 1
      BY <1>0 DEF OrderlyInv, OpenedInv, EarlyInv, BeforeSyn, Waits
    <3>2. h.pkt.ack = cur_seq[Server] + 1 /\ h.pkt.to = Server
      BY <1>2, <2>3, <2>4, <3>1
    <3>3. ASSUME h.pkt.seq = cur_ack[Server] PROVE FALSE
      <4>. DEFINE r == [h EXCEPT !.pc = "establish"]
      <4>1. handling' = (handling \ {h}) \cup {r}
        BY <2>4, <3>2, <3>3 DEF ThreeWayCheck, Advance
      <4>2. r.pc = "establish"
        BY <1>0 DEF Handling
      <4>. HIDE DEF r
      <4>. QED  BY <2>4, <4>1, <4>2
    <3>. QED  BY <2>4, <3>1, <3>3
  <2>5. ASSUME NEW h \in handling, g.pkt = h.pkt, Establish(h) PROVE FALSE
    <3>1. state'[Server] = "OPEN"
      BY <1>0, <1>2, <2>5 DEF Establish, TypeOK
    <3>. QED  BY <3>1 DEF Early
  <2>6. \A h \in handling : Recheck(h) => h.pc = "recheck"
    BY DEF Recheck
  <2>. QED  BY <1>0, <2>1, <2>2, <2>3, <2>4, <2>5, <2>6, HandlerMoves
<1>. QED  BY <1>1, <1>2

\* The server waits until the handshake ends.
LEMMA WaitsKept == ASSUME Orderly, TunnelInv, StreamInv, ServerWaits, [Next]_vars PROVE ServerWaits'
<1>1. state'[Client] # "HALF_OPEN"
  BY ClientOpens DEF TunnelInv, ServerWaits
<1>2. ASSUME Early(Server)', ~CloseBegun(Client)' PROVE Waits'
  <2>1. Client \in Ends /\ Server \in Ends
    BY Numbers
  <2>2. Early(Server) /\ ~CloseBegun(Client)
    BY <1>2, <2>1, OrderlySteps, CloseStays DEF TunnelInv
  <2>3. Waits
    BY <2>2 DEF ServerWaits
  <2>. QED  BY <1>2, <2>2, <2>3, WaitsNumbers, WaitsPackets DEF Waits
<1>. QED  BY <1>1, <1>2 DEF ServerWaits

\* e closes, and waits for the peer or is about to.
Closes(e) == CloseBegun(e) /\ state[e] # "CLOSED"

\* f takes no data any more.
Deaf(f) ==
    /\ state[f] \in {"CLOSING", "CLOSED"} /\ (f = Client \/ mutex[f] # "close")
    /\ \A h \in handling : h.pkt.to = f => h.pc \notin {"threeway", "establish", "recheck", "data"}

\* An end that closes has had all its acknowledgements: it is told of no later number, because its
\* peer can say one only after the FIN, and then answers no data.
AllTold(e) == Closes(e) =>
    /\ nextBufferIndex[e] <= cur_seq[e]
    /\ \A p \in net : p.to = e /\ p.type = "ACK" => p.ack <= cur_seq[e]
    /\ \A h \in handling : h.pkt.to = e /\ h.pkt.type = "ACK" => h.pkt.ack <= cur_seq[e]
    /\ cur_ack[Peer(e)] <= cur_seq[e] \/ DataOf(e) = {} \/ Deaf(Peer(e))
    /\ Early(Peer(e)) => DataOf(e) = {}

\* A close begins with its FIN still to be sent, or ends at once.
LEMMA CloseStarts ==
    ASSUME TypeOK, [Next]_vars, NEW e \in Ends, ~CloseBegun(e), CloseBegun(e)', state'[e] # "CLOSED"
    PROVE  CloseBegin(e)
<1>. /\ mutex \in [Ends -> {"free", "close", "force"}]
     /\ closePc \in [Ends -> {"idle", "waiting", "woken", "done"}]
     /\ state \in [Ends -> {"NULL", "OPENING", "HALF_OPEN", "OPEN", "CLOSING", "CLOSE_WAIT", "CLOSED"}]
  BY DEF TypeOK
<1>0. mutex[e] # "close" /\ closePc[e] = "idle"
  BY DEF CloseBegun
<1>1. SUFFICES ASSUME closePc'[e] # "idle" PROVE FALSE
  BY <1>0, CloseBegins DEF CloseBegun
<1>2. ~Opening
  BY <1>0, <1>1 DEF Opening, OpenRefused, OpenStart, OpenFinish, OpenAborted, OpenTimeout
<1>3. ~Accepting
  BY <1>0, <1>1 DEF Accepting, TakeSyn, HandleSyn, WaitForOpenStart, WaitForOpenFinish, WaitForOpenTimeout
<1>4. ASSUME NEW p \in net, NEW l \in Links PROVE ~ReceiveFin(p, l) /\ ~ReceiveFinAck(p, l)
  BY <1>0, <1>1 DEF ReceiveFin, ReceiveFinAck, WakeCloser
<1>5. ASSUME NEW h \in handling PROVE ~Establish(h)
  BY <1>0, <1>1 DEF Establish
<1>6. ASSUME NEW f \in Ends, Closing(f) PROVE FALSE
  <2>1. CloseClosed(f) \/ CloseAfterFin(f) \/ CloseFin(f) \/ CloseDone(f) \/ CloseTimeout(f)
    BY <1>0, <1>1, <1>6 DEF Closing, CloseBegin, ForceClose, ForceCloseBegin, ForceCloseFin, Remove
  <2>2. f = e
    BY <1>0, <1>1, <2>1 DEF CloseClosed, CloseAfterFin, CloseFin, CloseDone, CloseTimeout
  <2>. QED  BY <1>0, <2>1, <2>2 DEF CloseClosed, CloseAfterFin, CloseFin, CloseDone, CloseTimeout
<1>. QED  BY <1>0, <1>1, <1>2, <1>3, <1>4, <1>5, <1>6, ControlSteps DEF ControlStep

\* An end that has sent all it was given sends no more data.
LEMMA DataStays ==
    ASSUME Orderly, TunnelInv, TunnelInv', [Next]_vars, NEW e \in Ends, sendBuffers[e] = {}
    PROVE  DataOf(e)' \subseteq DataOf(e)
BY DataComes

\* A close finds everything acknowledged.
LEMMA AllToldFirst ==
    ASSUME Orderly, TunnelInv, TunnelInv', StreamInv, ServerWaits, SeqInv, [Next]_vars,
           NEW e \in Ends, CloseBegin(e)
    PROVE  AllTold(e)'
<1>. USE Numbers
<1>0. /\ TypeOK /\ EarlyInv /\ LifeInv /\ DataInv /\ OrderlyInv /\ LenInv
      /\ cur_ack \in [Ends -> Nat] /\ cur_seq \in [Ends -> Nat] /\ nextBufferIndex \in [Ends -> Nat]
      /\ handling \subseteq Handling /\ net \subseteq Packet
  BY DEF TunnelInv, TypeOK, ConfirmInv
<1>1. /\ state[e] = "OPEN" /\ ~CloseBegun(e) /\ NoWrite(e) /\ ~Early(e)
      /\ UNCHANGED <<cur_seq, nextBufferIndex, net, handling, cur_ack>>
  BY DEF CloseBegin, MayClose, Orderly, CloseBegun, Free, Early, Abort, Clear
<1>2. sendBuffers[e] = {}
  BY <1>0, <1>1 DEF OrderlyInv, BuffersOk, NoWrite, Resting
<1>3. nextBufferIndex[e] <= cur_seq[e] /\ Pos(e) <= nextBufferIndex[e]
  BY <1>1, <1>2 DEF StreamInv, AllAcked, Healthy, Behind
<1>4. Pos(e) \in Nat
  BY <1>0, PosTyped
<1>5. /\ cur_ack[Peer(e)] <= Pos(e)
      /\ \A p \in net : p.to = e => p.ack <= Pos(e)
      /\ \A h \in handling : h.pkt.to = e => h.pkt.ack <= Pos(e)
  BY <1>0, <1>1 DEF OrderlyInv, AcksOk, Limit
<1>6. \A n \in Nat : n <= Pos(e) => n <= cur_seq[e]
  BY <1>0, <1>3, <1>4
<1>7. /\ \A p \in net : p.ack \in Nat
      /\ \A h \in handling : h.pkt.ack \in Nat
  BY <1>0 DEF Packet, Handling
<1>8. DataOf(e)' \subseteq DataOf(e)
  BY <1>2, DataStays
<1>9. ASSUME Early(Peer(e))' PROVE DataOf(e) = {}
  <2>1. Early(Peer(e))
    BY <1>0, <1>9, OrderlySteps
  <2>2. e = Client /\ Peer(e) = Server
    BY <1>1, <2>1 DEF StreamInv, FirstInv, Peer, Ends
  <2>3. cur_seq[e] <= ISN[e] + 1
    BY <1>1, <2>1, <2>2 DEF ServerWaits, Waits
  <2>4. ASSUME NEW x \in DataOf(e) PROVE FALSE
    <3>1. x.seq \in Nat /\ x.len \in Nat
      BY <1>0, DataTyped DEF Piece
    <3>2. x.len > 0 /\ x.seq > ISN[e] /\ x.seq + x.len <= Pos(e)
      BY <1>0 DEF LenInv, SeqInv, DataInv, EndOf
    <3>3. Pos(e) <= cur_seq[e]
      BY <1>4, <1>6
    <3>. QED  BY <1>0, <1>4, <2>3, <3>1, <3>2, <3>3
  <2>. QED  BY <2>4
<1>. QED  BY <1>0, <1>1, <1>3, <1>5, <1>6, <1>7, <1>8, <1>9 DEF AllTold

\* An end stays deaf: it leaves CLOSING for CLOSED only, and takes no data in either.
LEMMA DeafKept ==
    ASSUME Orderly, TunnelInv, [Next]_vars, NEW f \in Ends, Deaf(f)
    PROVE  Deaf(f)'
<1>. USE Numbers
<1>0. /\ TypeOK /\ EarlyInv /\ LifeInv
      /\ state \in [Ends -> {"NULL", "OPENING", "HALF_OPEN", "OPEN", "CLOSING", "CLOSE_WAIT", "CLOSED"}]
      /\ mutex \in [Ends -> {"free", "close", "force"}] /\ handling \subseteq Handling
      /\ net \subseteq Packet
  BY DEF TunnelInv, TypeOK
<1>1. state[f] \in {"CLOSING", "CLOSED"} /\ (f = Client \/ mutex[f] # "close")
  BY DEF Deaf
<1>2. state'[f] \in {"CLOSING", "CLOSED"}
  <2>1. CASE UNCHANGED <<state, mutex, openPc, closePc, forced>>
    BY <1>1, <2>1
  <2>2. CASE Opening
    BY <1>0, <1>1, <2>2 DEF Opening, OpenRefused, OpenStart, OpenFinish, OpenAborted, OpenTimeout
  <2>3. CASE Accepting
    BY <1>0, <1>1, <2>3 DEF Accepting, TakeSyn, HandleSyn, WaitForOpenStart, WaitForOpenFinish,
       WaitForOpenTimeout
  <2>4. ASSUME NEW g \in Ends, Closing(g) PROVE state'[f] \in {"CLOSING", "CLOSED"}
    <3>1. ~CloseFin(g) => state' = state \/ \E s \in {"CLOSING", "CLOSED"} : state' = [state EXCEPT ![g] = s]
      <4>1. CASE CloseBegin(g) /\ g # Client
        <5>1. state' = [state EXCEPT ![g] = @]
          BY <4>1 DEF CloseBegin
        <5>. QED  BY <1>0, <5>1
      <4>2. CASE CloseBegin(g) /\ g = Client
        BY <4>2 DEF CloseBegin
      <4>3. CASE CloseClosed(g) \/ CloseAfterFin(g) \/ CloseDone(g) \/ CloseTimeout(g)
        BY <4>3 DEF CloseClosed, CloseAfterFin, CloseDone, CloseTimeout
      <4>4. CASE ForceClose(g) \/ ForceCloseBegin(g) \/ ForceCloseFin(g) \/ Remove(g)
        BY <4>4 DEF ForceClose, ForceCloseBegin, ForceCloseFin, Remove
      <4>. QED  BY <2>4, <4>1, <4>2, <4>3, <4>4 DEF Closing
    <3>2. CASE CloseFin(g)
      <4>1. mutex[g] = "close" /\ (g = f => g = Client)
        BY <1>1, <3>2 DEF CloseFin
      <4>. QED  BY <1>0, <1>1, <3>2, <4>1 DEF CloseFin
    <3>. QED  BY <1>0, <1>1, <3>1, <3>2
  <2>5. ASSUME NEW p \in net, NEW l \in Links, ReceiveFin(p, l) \/ ReceiveFinAck(p, l)
        PROVE  state'[f] \in {"CLOSING", "CLOSED"}
    BY <1>0, <1>1, <2>5 DEF ReceiveFin, ReceiveFinAck
  <2>6. ASSUME NEW h \in handling, Establish(h) PROVE state'[f] \in {"CLOSING", "CLOSED"}
    <3>1. h.pkt.to # f
      BY <2>6 DEF Deaf, Establish
    <3>. QED  BY <1>0, <1>1, <2>6, <3>1 DEF Establish
  <2>. QED  BY <2>1, <2>2, <2>3, <2>4, <2>5, <2>6, ControlSteps DEF ControlStep
<1>3. f = Client \/ mutex'[f] # "close"
  <2>1. ASSUME mutex[f] # "close", mutex'[f] = "close" PROVE FALSE
    BY <1>0, <1>1, <2>1, CloseBegins DEF CloseBegin
  <2>. QED  BY <1>1, <2>1
<1>4. ASSUME NEW g \in handling', g.pkt.to = f
      PROVE  g.pc \notin {"threeway", "establish", "recheck", "data"}
  <2>1. CASE g \in handling
    BY <1>4, <2>1 DEF Deaf
  <2>2. ASSUME NEW p \in net, NEW l \in Links, ReceiveAckOrData(p, l), g.pkt = p,
               g.pc = FirstStep(p.to, p.type)
        PROVE  g.pc = "ack"
    <3>1. p.type = "ACK" /\ state[f] = "CLOSING"
      BY <1>1, <1>4, <2>2 DEF ReceiveAckOrData, Accepts
    <3>. QED  BY <1>4, <2>2, <3>1 DEF FirstStep
  <2>3. ASSUME NEW h \in handling, g.pkt = h.pkt, ThreeWayCheck(h) \/ Establish(h) \/ Recheck(h)
        PROVE  FALSE
    BY <1>4, <2>3 DEF Deaf, ThreeWayCheck, Establish, Recheck
  <2>. QED  BY <1>0, <2>1, <2>2, <2>3, HandlerMoves
<1>. QED  BY <1>2, <1>3, <1>4 DEF Deaf

\* handleFin leaves an end that was open deaf.
LEMMA DeafAfterFin ==
    ASSUME Orderly, TunnelInv, NEW p \in net, NEW l \in Links, ReceiveFin(p, l), ~Early(p.to)
    PROVE  Deaf(p.to)'
<1>. USE Numbers
<1>0. /\ state \in [Ends -> {"NULL", "OPENING", "HALF_OPEN", "OPEN", "CLOSING", "CLOSE_WAIT", "CLOSED"}]
      /\ p.to \in Ends /\ handling \subseteq Handling
  BY DEF TunnelInv, TypeOK, Packet
<1>1. state'[p.to] \in {"CLOSING", "CLOSED"}
  BY <1>0 DEF ReceiveFin, Early
<1>2. mutex'[p.to] # "close"
  BY DEF ReceiveFin, Arrives, Free
<1>3. \A h \in handling : h.pkt.to # p.to
  <2>1. \A h \in handling : h.link \in Links
    BY <1>0 DEF Handling
  <2>. QED  BY <2>1 DEF ReceiveFin, Arrives, Orderly, OneLink
<1>4. handling' = handling
  BY DEF ReceiveFin
<1>. QED  BY <1>1, <1>2, <1>3, <1>4 DEF Deaf

\* Nothing moves the numbers of an end that closes.
LEMMA NumberStays ==
    ASSUME Orderly, TunnelInv, StreamInv, AckHandlers, [Next]_vars, NEW e \in Ends, Closes(e), AllTold(e)
    PROVE  /\ cur_seq'[e] = cur_seq[e] /\ nextBufferIndex'[e] = nextBufferIndex[e]
           /\ ~Early(e) /\ openPc[e] = "ok"
<1>. USE Numbers
<1>0. /\ TypeOK /\ EarlyInv /\ LifeInv /\ OrderlyInv /\ OpenedInv
      /\ cur_seq \in [Ends -> Nat] /\ handling \subseteq Handling
  BY DEF TunnelInv, TypeOK, OrderlyInv
<1>1. CloseBegun(e) /\ openPc[e] = "ok"
  BY <1>0 DEF Closes, CloseBegun, EarlyInv, Callers
<1>2. ~Early(e)
  BY <1>0, <1>1, OrderlySteps
<1>3. CASE OpenFinish
  <2>1. PICK p \in openQueue : FirstSequence(Client, p.ack)
    BY <1>3 DEF OpenFinish
  <2>2. Early(Client)
    BY <1>3 DEF OpenFinish, Early
  <2>. QED  BY <1>0, <1>1, <1>2, <2>1, <2>2, IndexStays DEF FirstSequence
<1>4. ASSUME NEW h \in handling, Establish(h) PROVE cur_seq'[e] = cur_seq[e]
  <2>1. FirstSequence(h.pkt.to, h.pkt.ack) /\ h.pkt.to \in Ends
    BY <1>0, <1>4, HandledPacket, TypeGroups DEF Establish
  <2>2. h.pkt.to # e
    BY <1>0, <1>2, <1>4, <2>1, FirstNumbers
  <2>. QED  BY <1>0, <2>1, <2>2 DEF FirstSequence
<1>5. ASSUME NEW h \in handling, AckSegments(h) PROVE cur_seq'[e] = cur_seq[e]
  <2>1. h.pkt \in Packet /\ h.pkt.to \in Ends /\ h.pkt.ack > cur_seq[h.pkt.to] /\ h.pkt.type = "ACK"
    BY <1>0, <1>5, HandledPacket, TypeGroups DEF StreamInv, HandlersSeq, AckSegments, AckHandlers
  <2>2. h.pkt.ack \in Nat
    BY <2>1 DEF Packet
  <2>3. h.pkt.to # e
    BY <1>0, <2>1, <2>2 DEF AllTold
  <2>. QED  BY <1>0, <1>5, <2>1, <2>3 DEF AckSegments
<1>6. (\E w \in Calls : WriteAppend(w)) \/ (\E f \in Ends : WriterSend(f)) => cur_seq' = cur_seq
  BY DEF WriteAppend, WriterSend
<1>. QED  BY <1>1, <1>2, <1>3, <1>4, <1>5, <1>6, NumberSteps, IndexStays

\* The peer of an end that closes still acknowledges what it was told, or has heard the FIN.
LEMMA PeerTold ==
    ASSUME Orderly, TunnelInv, TunnelInv', StreamInv, AckHandlers, [Next]_vars, NEW e \in Ends,
           Closes(e), AllTold(e)
    PROVE  /\ cur_ack'[Peer(e)] <= cur_seq[e] \/ DataOf(e)' = {} \/ Deaf(Peer(e))'
           /\ Early(Peer(e))' => DataOf(e)' = {}
<1>. USE Numbers
<1>. DEFINE f == Peer(e)
<1>1. f \in Ends /\ Peer(f) = e /\ (f = Client => e = Server) /\ (f = Server => e = Client)
  BY DEF Peer, Ends
<1>0. /\ TypeOK /\ EarlyInv /\ LifeInv /\ DataInv /\ DataHandlers /\ OrderlyInv
      /\ cur_ack \in [Ends -> Nat] /\ cur_ack' \in [Ends -> Nat]
      /\ cur_seq \in [Ends -> Nat] /\ nextBufferIndex \in [Ends -> Nat]
      /\ net \subseteq Packet /\ Pos(e) \in Nat
  BY NextTyped, PosTyped DEF TunnelInv, TypeOK
<1>. HIDE DEF f
<1>2. ~Early(e)
  BY NumberStays
<1>3. DataOf(e) = {} => DataOf(e)' = {}
  <2>1. sendBuffers[e] = {}
    BY NothingBuffered DEF Closes
  <2>. QED  BY <2>1, DataStays
<1>4. Early(f)' => DataOf(e)' = {}
  BY <1>0, <1>1, <1>3, OrderlySteps DEF AllTold, f
<1>5. CASE DataOf(e) = {} \/ Deaf(f)
  BY <1>1, <1>3, <1>4, <1>5, DeafKept DEF f
<1>6. CASE cur_ack[f] <= cur_seq[e] /\ DataOf(e) # {}
  <2>1. CASE cur_ack'[f] = cur_ack[f]
    BY <1>4, <1>6, <2>1 DEF f
  <2>2. CASE OpenFinish
    <3>1. Early(Client)
      BY <2>2 DEF OpenFinish, Early
    <3>2. f # Client
      BY <1>6, <3>1 DEF AllTold, f
    <3>3. \E p \in openQueue : ExpectFrom(Client, p.seq)
      BY <2>2 DEF OpenFinish
    <3>. QED  BY <1>0, <1>1, <2>1, <3>2, <3>3 DEF ExpectFrom
  <2>3. CASE HandleSyn
    <3>1. Early(Client)
      BY <1>0, <2>3, AnsweredOnce DEF StreamInv, FirstInv, Orderly
    <3>2. f # Server
      BY <1>1, <1>2, <3>1
    <3>. QED  BY <1>0, <1>1, <2>1, <2>3, <3>2 DEF HandleSyn, ExpectFrom
  <2>4. ASSUME NEW p \in net, NEW l \in Links, ReceiveFin(p, l)
        PROVE  cur_ack'[f] = cur_ack[f] \/ Deaf(f)'
    <3>1. CASE p.to = f
      BY <1>6, <2>4, <3>1, DeafAfterFin DEF AllTold, f
    <3>2. CASE p.to # f
      BY <1>0, <1>1, <2>4, <3>2 DEF ReceiveFin
    <3>. QED  BY <3>1, <3>2
  <2>5. ASSUME NEW h \in handling, HandleData(h)
        PROVE  cur_ack'[f] = cur_ack[f] \/ cur_ack'[f] <= cur_seq[e]
    <3>1. cur_ack'[f] = cur_ack[f] \/ cur_ack'[f] <= Pos(e)
      BY <1>0, <1>1, <2>5, HandledAck
    <3>2. Pos(e) <= nextBufferIndex[e] /\ nextBufferIndex[e] <= cur_seq[e]
      BY DEF StreamInv, Behind, AllTold
    <3>3. cur_ack'[f] \in Nat /\ cur_seq[e] \in Nat /\ nextBufferIndex[e] \in Nat
      BY <1>0, <1>1
    <3>. QED  BY <1>0, <3>1, <3>2, <3>3
  <2>. QED  BY <1>4, <2>1, <2>2, <2>3, <2>4, <2>5, AckSteps DEF f
<1>. QED  BY <1>5, <1>6 DEF AllTold, f

\* Whoever closes is told nothing new.
LEMMA AllToldKept ==
    ASSUME Orderly, TunnelInv, TunnelInv', StreamInv, ServerWaits, SeqInv, AckHandlers, [Next]_vars,
           NEW e \in Ends, AllTold(e)
    PROVE  AllTold(e)'
<1>. USE Numbers
<1>. DEFINE f == Peer(e)
<1>1. f \in Ends /\ Peer(f) = e /\ (f = Client => e = Server) /\ \A g \in Ends : Peer(g) = e => g = f
  BY DEF Peer, Ends
<1>0. /\ TypeOK /\ EarlyInv /\ LifeInv /\ DataInv /\ DataHandlers /\ OrderlyInv
      /\ state \in [Ends -> {"NULL", "OPENING", "HALF_OPEN", "OPEN", "CLOSING", "CLOSE_WAIT", "CLOSED"}]
      /\ cur_ack \in [Ends -> Nat] /\ cur_ack' \in [Ends -> Nat]
      /\ cur_seq \in [Ends -> Nat] /\ nextBufferIndex \in [Ends -> Nat]
      /\ retrySegments \in [Ends -> SUBSET Segment] /\ Pos(e) \in Nat
  BY NextTyped, PosTyped DEF TunnelInv, TypeOK
<1>. HIDE DEF f
<1>. SUFFICES ASSUME Closes(e)', ~CloseBegin(e) PROVE AllTold(e)'
  BY AllToldFirst DEF AllTold
<1>2. CloseBegun(e)
  BY <1>0, CloseStarts DEF Closes
<1>3. Closes(e)
  <2>1. state[e] # "CLOSED"
    <3>1. Stage[state'[e]] >= Stage[state[e]]
      BY <1>0, StageKept DEF Orderly
    <3>2. state'[e] # "CLOSED"
      BY DEF Closes
    <3>3. state' \in [Ends -> {"NULL", "OPENING", "HALF_OPEN", "OPEN", "CLOSING", "CLOSE_WAIT", "CLOSED"}]
      BY DEF TunnelInv, TypeOK
    <3>4. \A s \in {"NULL", "OPENING", "HALF_OPEN", "OPEN", "CLOSING", "CLOSE_WAIT"} : Stage[s] < 4
      BY DEF Stage
    <3>5. Stage["CLOSED"] = 4 /\ Stage[state'[e]] \in Nat
      BY <3>3 DEF Stage
    <3>. QED  BY <3>1, <3>2, <3>3, <3>4, <3>5
  <2>. QED  BY <1>2, <2>1 DEF Closes
<1>4. cur_seq'[e] = cur_seq[e] /\ nextBufferIndex'[e] = nextBufferIndex[e] /\ ~Early(e)
  BY <1>3, NumberStays
<1>5. /\ nextBufferIndex[e] <= cur_seq[e]
      /\ \A p \in net : p.to = e /\ p.type = "ACK" => p.ack <= cur_seq[e]
      /\ \A h \in handling : h.pkt.to = e /\ h.pkt.type = "ACK" => h.pkt.ack <= cur_seq[e]
      /\ cur_ack[f] <= cur_seq[e] \/ DataOf(e) = {} \/ Deaf(f)
  BY <1>3 DEF AllTold, f
<1>6. ASSUME NEW p \in net', p.to = e, p.type = "ACK" PROVE p.ack <= cur_seq[e]
  <2>1. CASE p \in net
    BY <1>5, <1>6, <2>1
  <2>2. ASSUME NEW g \in Ends, NewPacket(p, g) PROVE p.ack <= cur_seq[e]
    <3>1. g = f
      BY <1>1, <1>6, <2>2 DEF NewPacket
    <3>2. ~(f = Client /\ OpenFinish)
      <4>1. OpenFinish => Early(Client)
        BY DEF OpenFinish, Early
      <4>. QED  BY <1>1, <1>4, <4>1 DEF StreamInv, FirstInv
    <3>3. \A s \in retrySegments[f] : s.type # "ACK"
      BY <1>0, <1>1 DEF Segment
    <3>4. PICK h \in handling : HandleData(h) /\ h.pkt.to = f /\ p.ack = cur_ack'[f]
      BY <1>6, <2>2, <3>1, <3>2, <3>3 DEF NewPacket
    <3>5. /\ PieceOf(h.pkt) \in DataOf(e)
          /\ cur_ack'[f] = cur_ack[f] \/ cur_ack'[f] <= Pos(e)
      BY <1>0, <1>1, <3>4, HandledAck
    <3>6. ~Deaf(f)
      BY <3>4 DEF Deaf, HandleData
    <3>7. Pos(e) <= nextBufferIndex[e]
      BY DEF StreamInv, Behind
    <3>8. cur_ack'[f] \in Nat /\ cur_ack[f] \in Nat /\ cur_seq[e] \in Nat /\ nextBufferIndex[e] \in Nat
      BY <1>0, <1>1
    <3>9. cur_ack[f] <= cur_seq[e]
      BY <1>5, <3>5, <3>6
    <3>. QED  BY <1>0, <1>5, <3>4, <3>5, <3>7, <3>8, <3>9
  <2>. QED  BY <1>0, <2>1, <2>2, NewPackets
<1>7. ASSUME NEW g \in handling', g.pkt.to = e, g.pkt.type = "ACK" PROVE g.pkt.ack <= cur_seq[e]
  <2>1. g \in handling \/ g.pkt \in net \/ \E h \in handling : g.pkt = h.pkt
    BY <1>0, HandlerMoves
  <2>. QED  BY <1>5, <1>7, <2>1
<1>8. /\ cur_ack'[Peer(e)] <= cur_seq[e] \/ DataOf(e)' = {} \/ Deaf(Peer(e))'
      /\ Early(Peer(e))' => DataOf(e)' = {}
  BY <1>3, PeerTold
<1>. QED  BY <1>4, <1>5, <1>6, <1>7, <1>8 DEF AllTold

\* A tunnel that is closed stays closed.
LEMMA ClosedStays ==
    ASSUME Orderly, TunnelInv, TunnelInv', [Next]_vars, NEW e \in Ends, state[e] = "CLOSED"
    PROVE  state'[e] = "CLOSED"
<1>1. Stage[state'[e]] >= Stage[state[e]]
  BY StageKept DEF Orderly, TunnelInv
<1>2. state' \in [Ends -> {"NULL", "OPENING", "HALF_OPEN", "OPEN", "CLOSING", "CLOSE_WAIT", "CLOSED"}]
  BY DEF TunnelInv, TypeOK
<1>3. \A s \in {"NULL", "OPENING", "HALF_OPEN", "OPEN", "CLOSING", "CLOSE_WAIT"} : Stage[s] < 4
  BY DEF Stage
<1>4. Stage["CLOSED"] = 4 /\ Stage[state'[e]] \in Nat
  BY <1>2 DEF Stage
<1>. QED  BY <1>1, <1>2, <1>3, <1>4

\* Open has been called, or the server has answered a SYN that waits for its service thread.
Opened(e) == openPc[e] \in {"waiting", "ok"} \/ (e = Server /\ synHandled > 0 /\ openPc[e] = "idle")

\* retryThread runs from the first segment of an end until the tunnel is closed, or its open failed.
Retries(e) ==
    /\ Opened(e) => state[e] = "CLOSED" \/ retrier[e] = "running"
    /\ retrier[e] = "joined" => state[e] = "CLOSED" \/ openPc[e] = "failed"
    /\ closePc[e] \in {"woken", "done"} => state[e] = "CLOSED"
    /\ closePc[e] # "idle" => ~Healthy(e)

\* The steps that start or stop retryThread.
LEMMA RetrierSteps ==
    ASSUME [Next]_vars
    PROVE  \/ OpenStart \/ HandleSyn
           \/ \E e \in Ends : CloseAfterFin(e) \/ ForceClose(e) \/ Remove(e)
           \/ \E p \in net, l \in Links : ReceiveFinAck(p, l)
           \/ retrier' = retrier
<1>1. CASE UNCHANGED vars
  BY <1>1 DEF vars
<1>2. CASE Opening /\ ~OpenStart
  BY <1>2 DEF Opening, OpenRefused, OpenFinish, OpenAborted, OpenTimeout
<1>3. CASE Accepting /\ ~HandleSyn
  BY <1>3 DEF Accepting, TakeSyn, WaitForOpenStart, WaitForOpenFinish, WaitForOpenTimeout
<1>4. ASSUME NEW w \in Calls, Writing(w) PROVE retrier' = retrier
  BY <1>4 DEF Writing, WriteStart, WriteAppend, WriteSpawn, WriteSpawnRefused, WriteFinish,
     WriteAborted, WriteTimeout
<1>5. ASSUME NEW e \in Ends, Reading(e) \/ Working(e) PROVE retrier' = retrier
  BY <1>5 DEF Reading, ReadStart, ReadWait, ReadWake, ReadFails, ReadNothing, ReadData,
     Working, WriterSend, WriterExit, RetrySend
<1>6. ASSUME NEW e \in Ends, Closing(e), ~CloseAfterFin(e), ~ForceClose(e), ~Remove(e)
      PROVE  retrier' = retrier
  BY <1>6 DEF Closing, CloseClosed, CloseBegin, CloseFin, CloseDone, CloseTimeout,
     ForceCloseBegin, ForceCloseFin
<1>7. ASSUME NEW p \in net, NEW l \in Links, Receiving(p, l), ~ReceiveFinAck(p, l)
      PROVE  retrier' = retrier
  BY <1>7 DEF Receiving, DropPacket, ReceiveAckOrData, ReceiveSynAck, ReceiveFin
<1>8. ASSUME NEW p \in net, QueueSyn(p) \/ Lose(p) \/ DropUnknown(p) PROVE retrier' = retrier
  BY <1>8 DEF QueueSyn, Lose, DropUnknown
<1>9. ASSUME NEW h \in handling, Handle(h) PROVE retrier' = retrier
  BY <1>9 DEF Handle, ThreeWayCheck, Establish, Recheck, AckCompare, AckSegments, AckBuffers, HandleData
<1>. QED  BY <1>1, <1>2, <1>3, <1>4, <1>5, <1>6, <1>7, <1>8, <1>9 DEF Next

\* An open that failed has failed; nobody opens again.
LEMMA OpensOnce ==
    ASSUME TypeOK, [Next]_vars, NEW e \in Ends
    PROVE  /\ openPc[e] = "failed" => openPc'[e] = "failed"
           /\ ~OpenStart /\ ~HandleSyn /\ Opened(e)' => Opened(e)
<1>. USE Numbers
<1>. openPc \in [Ends -> {"idle", "waiting", "ok", "failed"}] /\ synHandled \in Nat
  BY DEF TypeOK
<1>1. ~HandleSyn => synHandled' = synHandled
  BY SynSteps DEF TakeSyn, QueueSyn
<1>2. CASE openPc' = openPc
  BY <1>1, <1>2 DEF Opened
<1>3. CASE Opening
  <2>1. openPc[Client] # "failed"
    BY <1>3 DEF Opening, OpenRefused, OpenStart, OpenFinish, OpenAborted, OpenTimeout
  <2>2. /\ \E pc : openPc' = [openPc EXCEPT ![Client] = pc]
        /\ ~OpenStart /\ openPc'[Client] \in {"waiting", "ok"} => openPc[Client] = "waiting"
    BY <1>3 DEF Opening, OpenRefused, OpenStart, OpenFinish, OpenAborted, OpenTimeout
  <2>3. synHandled' = synHandled
    BY <1>3 DEF Opening, OpenRefused, OpenStart, OpenFinish, OpenAborted, OpenTimeout
  <2>. QED  BY <2>1, <2>2, <2>3 DEF Opened
<1>4. CASE Accepting
  <2>1. CASE TakeSyn \/ HandleSyn
    BY <1>2, <2>1 DEF TakeSyn, HandleSyn
  <2>2. CASE WaitForOpenStart \/ WaitForOpenFinish \/ WaitForOpenTimeout
    <3>1. openPc[Server] # "failed" /\ Opened(Server) /\ synHandled' = synHandled
      BY <2>2 DEF WaitForOpenStart, WaitForOpenFinish, WaitForOpenTimeout, Opened
    <3>2. \E pc : openPc' = [openPc EXCEPT ![Server] = pc]
      BY <2>2 DEF WaitForOpenStart, WaitForOpenFinish, WaitForOpenTimeout
    <3>. QED  BY <3>1, <3>2 DEF Opened
  <2>. QED  BY <1>4, <2>1, <2>2 DEF Accepting
<1>5. ASSUME NEW f \in Ends, Closing(f) PROVE openPc' = openPc
  BY <1>5 DEF Closing, CloseClosed, CloseAfterFin, CloseBegin, CloseFin, CloseDone,
     CloseTimeout, ForceClose, ForceCloseBegin, ForceCloseFin, Remove
<1>6. ASSUME NEW p \in net, NEW l \in Links, ReceiveFin(p, l) \/ ReceiveFinAck(p, l)
      PROVE  openPc' = openPc
  BY <1>6 DEF ReceiveFin, ReceiveFinAck
<1>7. ASSUME NEW h \in handling, Establish(h) PROVE openPc' = openPc
  BY <1>7 DEF Establish
<1>. QED  BY <1>2, <1>3, <1>4, <1>5, <1>6, <1>7, ControlSteps DEF ControlStep

\* closePc moves with a call of Close, or is woken by a FIN or a FIN_ACK.
LEMMA CloserMoves ==
    ASSUME Orderly, TunnelInv, [Next]_vars, NEW e \in Ends
    PROVE  /\ closePc'[e] \in {"woken", "done"} =>
                closePc[e] \in {"woken", "done"} \/ state'[e] = "CLOSED"
           /\ closePc'[e] = "waiting" => closePc[e] = "waiting" \/ CloseFin(e)
<1>. USE Numbers
<1>0. /\ TypeOK /\ EarlyInv /\ LifeInv
      /\ state \in [Ends -> {"NULL", "OPENING", "HALF_OPEN", "OPEN", "CLOSING", "CLOSE_WAIT", "CLOSED"}]
      /\ closePc \in [Ends -> {"idle", "waiting", "woken", "done"}]
  BY DEF TunnelInv, TypeOK
<1>1. CASE closePc' = closePc
  BY <1>1
<1>2. CASE Opening
  BY <1>1, <1>2 DEF Opening, OpenRefused, OpenStart, OpenFinish, OpenAborted, OpenTimeout
<1>3. CASE Accepting
  BY <1>1, <1>3 DEF Accepting, TakeSyn, HandleSyn, WaitForOpenStart, WaitForOpenFinish,
     WaitForOpenTimeout
<1>4. ASSUME NEW f \in Ends, Closing(f)
      PROVE  /\ closePc'[e] \in {"woken", "done"} =>
                  closePc[e] \in {"woken", "done"} \/ state'[e] = "CLOSED"
             /\ closePc'[e] = "waiting" => closePc[e] = "waiting" \/ CloseFin(e)
  <2>1. CASE CloseClosed(f) \/ CloseAfterFin(f) \/ CloseTimeout(f)
    BY <1>0, <2>1 DEF CloseClosed, CloseAfterFin, CloseTimeout
  <2>2. CASE CloseDone(f)
    BY <1>0, <2>2 DEF CloseDone
  <2>3. CASE CloseFin(f)
    <3>1. closePc' = [closePc EXCEPT ![f] = "waiting"]
      BY <2>3 DEF CloseFin
    <3>. QED  BY <1>0, <2>3, <3>1
  <2>4. CASE CloseBegin(f) \/ ForceClose(f) \/ ForceCloseBegin(f) \/ ForceCloseFin(f) \/ Remove(f)
    BY <1>1, <2>4 DEF CloseBegin, ForceClose, ForceCloseBegin, ForceCloseFin, Remove
  <2>. QED  BY <1>4, <2>1, <2>2, <2>3, <2>4 DEF Closing
<1>5. ASSUME NEW p \in net, NEW l \in Links, ReceiveFin(p, l) \/ ReceiveFinAck(p, l)
      PROVE  /\ closePc'[e] \in {"woken", "done"} =>
                  closePc[e] \in {"woken", "done"} \/ state'[e] = "CLOSED"
             /\ closePc'[e] = "waiting" => closePc[e] = "waiting" \/ CloseFin(e)
  BY <1>0, <1>5 DEF ReceiveFin, ReceiveFinAck, WakeCloser
<1>6. ASSUME NEW h \in handling, Establish(h) PROVE closePc' = closePc
  BY <1>6 DEF Establish
<1>. QED  BY <1>1, <1>2, <1>3, <1>4, <1>5, <1>6, ControlSteps DEF ControlStep

\* The thread of an end that needs it is not stopped.
LEMMA RetriesKept ==
    ASSUME Orderly, TunnelInv, TunnelInv', [Next]_vars, NEW e \in Ends, Retries(e)
    PROVE  Retries(e)'
<1>. USE Numbers
<1>0. /\ TypeOK /\ EarlyInv /\ LifeInv
      /\ state \in [Ends -> {"NULL", "OPENING", "HALF_OPEN", "OPEN", "CLOSING", "CLOSE_WAIT", "CLOSED"}]
      /\ retrier \in [Ends -> {"idle", "running", "joined"}]
      /\ closePc \in [Ends -> {"idle", "waiting", "woken", "done"}]
      /\ closePc' \in [Ends -> {"idle", "waiting", "woken", "done"}]
  BY DEF TunnelInv, TypeOK
<1>1. state[e] = "CLOSED" => state'[e] = "CLOSED"
  BY ClosedStays
<1>2. openPc[e] = "failed" => openPc'[e] = "failed"
  BY <1>0, OpensOnce
<1>3. closePc'[e] \in {"woken", "done"} => state'[e] = "CLOSED"
  BY <1>1, CloserMoves DEF Retries
<1>4. ASSUME closePc'[e] # "idle" PROVE ~Healthy(e)'
  <2>1. CASE closePc[e] # "idle"
    BY <1>0, <2>1, OrderlySteps DEF Retries
  <2>2. CASE closePc'[e] = "waiting" /\ closePc[e] = "idle"
    <3>1. CloseFin(e)
      BY <2>2, CloserMoves
    <3>. QED  BY <1>0, <3>1 DEF CloseFin, Healthy, Early
  <2>3. CASE closePc'[e] \in {"woken", "done"}
    BY <1>3, <2>3 DEF Healthy, Early
  <2>. QED  BY <1>0, <1>4, <2>1, <2>2, <2>3
<1>5. CASE OpenStart
  <2>1. retrier' = [retrier EXCEPT ![Client] = "running"] /\ openPc' = [openPc EXCEPT ![Client] = "waiting"]
        /\ synHandled' = synHandled
    BY <1>5 DEF OpenStart
  <2>2. /\ Opened(e)' => state'[e] = "CLOSED" \/ retrier'[e] = "running"
        /\ retrier'[e] = "joined" => state'[e] = "CLOSED" \/ openPc'[e] = "failed"
    BY <1>0, <1>1, <1>2, <2>1 DEF Retries, Opened
  <2>. QED  BY <1>3, <1>4, <2>2 DEF Retries
<1>6. CASE HandleSyn
  <2>1. /\ retrier' = [retrier EXCEPT ![Server] = IF @ = "idle" THEN "running" ELSE @]
        /\ openPc' = openPc
    BY <1>6 DEF HandleSyn
  <2>2. openPc[Server] = "idle"
    BY <1>0, <1>6, AnsweredOnce DEF EarlyInv, BeforeSyn, Orderly
  <2>3. e # Server => (Opened(e)' => Opened(e))
    BY <2>1 DEF Opened
  <2>4. /\ Opened(e)' => state'[e] = "CLOSED" \/ retrier'[e] = "running"
        /\ retrier'[e] = "joined" => state'[e] = "CLOSED" \/ openPc'[e] = "failed"
    <3>1. CASE e = Server
      <4>1. retrier[e] = "joined" => state[e] = "CLOSED"
        BY <2>2, <3>1 DEF Retries
      <4>. QED  BY <1>0, <1>1, <2>1, <3>1, <4>1
    <3>2. CASE e # Server
      <4>1. retrier'[e] = retrier[e]
        BY <1>0, <2>1, <3>2
      <4>. QED  BY <1>1, <1>2, <2>3, <3>2, <4>1 DEF Retries
    <3>. QED  BY <3>1, <3>2
  <2>. QED  BY <1>3, <1>4, <2>4 DEF Retries
<1>7. CASE ~OpenStart /\ ~HandleSyn
  <2>1. \/ retrier'[e] = retrier[e]
        \/ retrier'[e] # "running" /\ (state'[e] = "CLOSED" \/ openPc'[e] = "failed")
    <3>1. ASSUME NEW f \in Ends, CloseAfterFin(f) \/ ForceClose(f)
          PROVE  retrier'[e] = retrier[e] \/ (retrier'[e] # "running" /\ state'[e] = "CLOSED")
      <4>1. CloseAfterFin(f)
        BY <1>0, <3>1, OrderlySteps
      <4>. QED  BY <1>0, <4>1 DEF CloseAfterFin, StopWorkerThreads, Joined
    <3>2. ASSUME NEW f \in Ends, Remove(f)
          PROVE  \/ retrier'[e] = retrier[e]
                 \/ retrier'[e] # "running" /\ (state'[e] = "CLOSED" \/ openPc'[e] = "failed")
      <4>1. /\ retrier' = [retrier EXCEPT ![f] = Joined(@)]
            /\ openPc[f] = "failed" \/ closePc[f] = "done"
        BY <3>2 DEF Remove, StopWorkerThreads
      <4>2. f = e => state'[e] = "CLOSED" \/ openPc'[e] = "failed"
        BY <1>1, <1>2, <4>1 DEF Retries
      <4>. QED  BY <1>0, <4>1, <4>2 DEF Joined
    <3>3. ASSUME NEW p \in net, NEW l \in Links, ReceiveFinAck(p, l)
          PROVE  retrier'[e] = retrier[e] \/ (retrier'[e] # "running" /\ state'[e] = "CLOSED")
      BY <1>0, <3>3 DEF ReceiveFinAck, StopWorkerThreads, Joined
    <3>. QED  BY <1>7, <3>1, <3>2, <3>3, RetrierSteps
  <2>2. Opened(e)' => Opened(e) /\ openPc'[e] # "failed"
    BY <1>0, <1>7, OpensOnce DEF Opened
  <2>3. /\ Opened(e)' => state'[e] = "CLOSED" \/ retrier'[e] = "running"
        /\ retrier'[e] = "joined" => state'[e] = "CLOSED" \/ openPc'[e] = "failed"
    BY <1>1, <1>2, <2>1, <2>2 DEF Retries
  <2>. QED  BY <1>3, <1>4, <2>3 DEF Retries
<1>. QED  BY <1>5, <1>6, <1>7

\* A closer that waits on an open end, half or not closed, has its FIN queued.
FinWaits(e) ==
    closePc[e] = "waiting" /\ state[e] # "CLOSED" => \E s \in retrySegments[e] : s.type = "FIN"

\* Nothing takes the FIN from the queue but the close of the tunnel.
LEMMA FinWaitsKept ==
    ASSUME Orderly, TunnelInv, TunnelInv', StreamInv, AckHandlers, [Next]_vars, NEW e \in Ends,
           AllTold(e), Retries(e), FinWaits(e)
    PROVE  FinWaits(e)'
<1>. USE Numbers
<1>. SUFFICES ASSUME closePc'[e] = "waiting", state'[e] # "CLOSED"
              PROVE  \E s \in retrySegments'[e] : s.type = "FIN"
  BY DEF FinWaits
<1>0. /\ TypeOK /\ EarlyInv /\ LifeInv
      /\ state \in [Ends -> {"NULL", "OPENING", "HALF_OPEN", "OPEN", "CLOSING", "CLOSE_WAIT", "CLOSED"}]
      /\ retrySegments \in [Ends -> SUBSET Segment] /\ cur_seq \in [Ends -> Nat]
      /\ handling \subseteq Handling /\ net \subseteq Packet
  BY DEF TunnelInv, TypeOK
<1>1. CASE CloseFin(e)
  <2>1. retrySegments' = [retrySegments EXCEPT ![e] = @ \cup {ControlSegment("FIN", cur_seq[e], 0)}]
    BY <1>1 DEF CloseFin, SendFin, InsertSegment
  <2>2. ControlSegment("FIN", cur_seq[e], 0).type = "FIN"
    BY DEF ControlSegment
  <2>3. ControlSegment("FIN", cur_seq[e], 0) \in retrySegments'[e]
    BY <1>0, <2>1
  <2>. QED  BY <2>2, <2>3
<1>2. CASE ~CloseFin(e)
  <2>1. closePc[e] = "waiting" /\ state[e] # "CLOSED"
    BY <1>2, CloserMoves, ClosedStays
  <2>2. PICK s \in retrySegments[e] : s.type = "FIN"
    BY <2>1 DEF FinWaits
  <2>3. /\ CloseBegun(e) /\ Closes(e) /\ openPc[e] = "ok" /\ cur_seq'[e] = cur_seq[e]
        /\ state[e] \in {"CLOSING", "CLOSE_WAIT"}
    <3>1. CloseBegun(e) /\ Closes(e) /\ ~Healthy(e)
      BY <2>1 DEF CloseBegun, Closes, Retries
    <3>. QED  BY <1>0, <2>1, <3>1, NumberStays DEF Healthy, Early
  <2>4. ASSUME NEW g \in Ends, NEW seg, InsertSegment(g, seg) PROVE s \in retrySegments'[e]
    BY <1>0, <2>2, <2>4 DEF InsertSegment
  <2>5. ASSUME NEW g \in Ends \ {e}, NEW segs, EraseSegments(g, segs) PROVE s \in retrySegments'[e]
    BY <1>0, <2>2, <2>5 DEF EraseSegments
  <2>6. ASSUME OpenStart \/ HandleSyn PROVE s \in retrySegments'[e]
    BY <2>2, <2>4, <2>6 DEF OpenStart, HandleSyn
  <2>7. ASSUME NEW g \in Ends, CloseFin(g) \/ ForceCloseFin(g) PROVE s \in retrySegments'[e]
    BY <2>4, <2>7 DEF CloseFin, ForceCloseFin, SendFin
  <2>8. ASSUME NEW g \in Ends, WriterSend(g) PROVE s \in retrySegments'[e]
    <3>1. PICK b \in sendBuffers[g] : \E len \in Nat : WriterSent(g, b, len)
      BY <1>0, <2>8, WriterSends
    <3>. QED  BY <2>4, <3>1 DEF WriterSent
  <2>9. ASSUME NEW h \in handling, AckSegments(h) PROVE s \in retrySegments'[e]
    <3>1. h.pkt.to \in Ends /\ h.pkt \in Packet
      BY <1>0, HandledPacket, TypeGroups
    <3>2. h.pkt.ack > cur_seq[h.pkt.to] /\ h.pkt.ack \in Nat
      BY <2>9, <3>1 DEF StreamInv, HandlersSeq, AckSegments, Packet
    <3>3. h.pkt.to # e
      BY <1>0, <2>3, <2>9, <3>1, <3>2 DEF AckSegments
    <3>. QED  BY <2>5, <2>9, <3>1, <3>3 DEF AckSegments
  <2>10. ASSUME NEW w \in Calls, GiveUp(w) PROVE s \in retrySegments'[e]
    <3>1. Caller[w] \in Ends \ {e} /\ CancelFromBuffers(Caller[w], writeIndex[w])
      BY <2>3, <2>10, GivesUpLate
    <3>. QED  BY <2>5, <3>1 DEF CancelFromBuffers
  <2>11. ASSUME NEW g \in Ends, ClearStep(g), Clear(g) PROVE s \in retrySegments'[e]
    <3>1. g # e
      <4>1. ~CloseAfterFin(e) /\ ~CloseBegin(e)
        BY <2>1 DEF CloseAfterFin, CloseBegin, MayClose
      <4>2. ASSUME NEW p \in net, NEW l \in Links, p.to = e, ReceiveFin(p, l) \/ ReceiveFinAck(p, l)
            PROVE  state'[e] = "CLOSED"
        BY <1>0, <2>3, <4>2 DEF ReceiveFin, ReceiveFinAck
      <4>. QED  BY <1>0, <2>11, <4>1, <4>2, OrderlySteps DEF ClearStep
    <3>. QED  BY <2>5, <2>11, <3>1 DEF Clear
  <2>12. ASSUME NEW g \in Ends, CancelCtrlPktFromSegments(g), openPc[g] # "ok"
         PROVE  s \in retrySegments'[e]
    BY <2>3, <2>5, <2>12 DEF CancelCtrlPktFromSegments
  <2>13. s \in retrySegments'[e]
    BY <1>0, <2>2, <2>6, <2>7, <2>8, <2>9, <2>10, <2>11, <2>12, SegmentSteps
  <2>. QED  BY <2>2, <2>13
<1>. QED  BY <1>1, <1>2

\* What holds of the close of a tunnel.
FinInv ==
    /\ SeqInv /\ AckHandlers /\ ServerWaits
    /\ \A e \in Ends : AllTold(e) /\ Retries(e) /\ FinWaits(e)

\* No step breaks it.
LEMMA FinInvKept ==
    ASSUME Orderly, TunnelInv, TunnelInv', StreamInv, FinInv, [Next]_vars PROVE FinInv'
<1>1. SeqInv' /\ AckHandlers' /\ ServerWaits'
  BY SeqKept, AckHandlersKept, WaitsKept DEF FinInv, TunnelInv
<1>2. \A e \in Ends : AllTold(e)' /\ Retries(e)' /\ FinWaits(e)'
  BY AllToldKept, RetriesKept, FinWaitsKept DEF FinInv
<1>. QED  BY <1>1, <1>2 DEF FinInv

\* Nobody has begun to close.
LEMMA FinInvStarts == ASSUME Init PROVE FinInv
<1>. USE Numbers
<1>1. SeqInv
  BY DEF Init, SeqInv, DataOf
<1>2. AckHandlers
  BY DEF Init, AckHandlers
<1>3. ServerWaits
  BY NumbersAssumption DEF Init, ServerWaits, Waits, Early
<1>4. ASSUME NEW e \in Ends PROVE AllTold(e) /\ Retries(e) /\ FinWaits(e)
  <2>1. ~CloseBegun(e) /\ closePc[e] = "idle" /\ openPc[e] = "idle" /\ retrier[e] = "idle" /\ synHandled = 0
    BY DEF Init, CloseBegun
  <2>. QED  BY <2>1 DEF AllTold, Closes, Retries, Opened, FinWaits
<1>. QED  BY <1>1, <1>2, <1>3, <1>4 DEF FinInv

\* With orderly applications, whoever waits for the answer to its FIN has the FIN queued and a
\* thread that sends it again: closeTunnel, handleAck and stopWorkerThreads never leave a closer
\* that nobody will tell.  An acknowledgement cannot take the FIN from the queue, because the peer
\* takes no data once it has heard the FIN.
THEOREM FinIsScheduled == ASSUME Orderly PROVE Spec => []FinScheduled
<1>1. Init => FinInv
  BY FinInvStarts
<1>2. TunnelInv /\ TunnelInv' /\ StreamInv /\ FinInv /\ [Next]_vars => FinInv'
  BY FinInvKept
<1>3. TunnelInv /\ FinInv => FinScheduled
  <2>. SUFFICES ASSUME TunnelInv, FinInv, NEW e \in Ends, closePc[e] = "waiting",
                       state[e] \in {"CLOSING", "CLOSE_WAIT"}
                PROVE  retrier[e] = "running" /\ \E s \in retrySegments[e] : s.type = "FIN"
    BY DEF FinScheduled
  <2>1. openPc[e] = "ok"
    BY DEF TunnelInv, EarlyInv, Callers
  <2>2. retrier[e] = "running"
    BY <2>1 DEF FinInv, Retries, Opened
  <2>. QED  BY <2>2 DEF FinInv, FinWaits
<1>. QED  BY <1>1, <1>2, <1>3, TunnelAlways, StreamAlways, PTL DEF Spec
=============================================================================
