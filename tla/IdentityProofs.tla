--------------------------- MODULE IdentityProofs ---------------------------
(* The bytes of a geometry are its shape, for every listing of any length: *)
(* a relisting keeps them (SameShapeKeepsItsGeoid), the two recipes agree  *)
(* on them (TwinsAlwaysAgree), and listings of different shapes do not     *)
(* share them (DistinctShapesStayApart). In four parts:                    *)
(*   - induction, orders and the loops of the recipes, up to TwinRings:    *)
(*     both canonical rings are Canonical(Kept(ring));                     *)
(*   - relisting: start, direction, a vertex repeated in its cell, order   *)
(*     of holes, points and parts, up to RelistedIs;                       *)
(*   - the invariant IInv and the two theorems it gives;                   *)
(*   - reading the bytes back: a ring from its words (CanonicalTells), the *)
(*     cells it goes through from what is kept (CycleIsKept), a polygon    *)
(*     from its rings and a geometry from its polygons by codes, bytes     *)
(*     that tell where they end (JoinsTell).                               *)
EXTENDS GeometryIdentity, SequenceTheorems, WellFoundedInduction, TLAPS

(***************************************************************************)
(* Induction on the natural numbers, by least counterexample               *)
(***************************************************************************)

(* A set of naturals that is not empty has a least member.                 *)
LEMMA NatLeast ==
  ASSUME NEW T, T \subseteq Nat, T # {}
  PROVE  \E x \in T : \A y \in T : x <= y
<1>1. IsWellFoundedOn(OpToRel(<, Nat), Nat)
  BY NatLessThanWellFounded
<1>2. PICK x \in T : \A y \in T : ~(<<y, x>> \in OpToRel(<, Nat))
  BY <1>1, WFMin
<1>3. \A y \in T : ~(y < x)
  BY <1>2 DEF OpToRel
<1> QED BY <1>3

(* What 0 has and each number hands on, all up to n have.                  *)
LEMMA UpTo ==
  ASSUME NEW n \in Nat, NEW S, 0 \in S, \A i \in 1 .. n : i - 1 \in S => i \in S
  PROVE  \A i \in 0 .. n : i \in S
<1> DEFINE T == {i \in 0 .. n : i \notin S}
<1>1. SUFFICES ASSUME T # {} PROVE FALSE
  OBVIOUS
<1>2. PICK x \in T : \A y \in T : x <= y
  <2>1. T \subseteq Nat
    OBVIOUS
  <2> HIDE DEF T
  <2> QED BY <1>1, <2>1, NatLeast
<1>3. x \in 1 .. n /\ x - 1 \in 0 .. n /\ x - 1 \notin T
  BY <1>2
<1> QED BY <1>2, <1>3

(* What a loop that makes n steps computes.                                *)
IsLoop(g, S, c, n, step) ==
  /\ g \in [0 .. n -> S]
  /\ g[0] = c
  /\ \A i \in 1 .. n : g[i] = step[i][g[i - 1]]

(* A loop of n steps has a result.                                         *)
LEMMA Iterate ==
  ASSUME NEW S, NEW c \in S, NEW n \in Nat, NEW step \in [1 .. n -> [S -> S]]
  PROVE  \E g : IsLoop(g, S, c, n, step)
<1> DEFINE Done(m, g) == g[0] = c /\ \A i \in 1 .. m : g[i] = step[i][g[i - 1]]
           T == {m \in 0 .. n : \E g \in [0 .. m -> S] : Done(m, g)}
<1>1. 0 \in T
  <2> DEFINE g == [i \in 0 .. 0 |-> c]
  <2>1. g \in [0 .. 0 -> S] /\ Done(0, g)
    OBVIOUS
  <2> HIDE DEF g
  <2> QED BY <2>1
<1>2. ASSUME NEW m \in 1 .. n, m - 1 \in T PROVE m \in T
  <2>1. PICK g \in [0 .. m - 1 -> S] : Done(m - 1, g)
    BY <1>2
  <2> DEFINE h == [i \in 0 .. m |-> IF i = m THEN step[m][g[m - 1]] ELSE g[i]]
  <2>2. g[m - 1] \in S /\ step[m] \in [S -> S]
    OBVIOUS
  <2>3. step[m][g[m - 1]] \in S
    BY <2>2
  <2>4. h \in [0 .. m -> S]
    BY <2>3
  <2>5. Done(m, h)
    <3>1. h[0] = c
      BY <2>1
    <3>2. ASSUME NEW i \in 1 .. m PROVE h[i] = step[i][h[i - 1]]
      <4>1. CASE i = m
        BY <4>1
      <4>2. CASE i # m
        <5>1. i \in 1 .. m - 1 /\ i - 1 \in 0 .. m /\ i - 1 # m /\ i \in 0 .. m
          BY <4>2
        <5> QED BY <5>1, <2>1, <4>2
      <4> QED BY <4>1, <4>2
    <3> QED BY <3>1, <3>2
  <2> HIDE DEF h, Done
  <2> QED BY <2>4, <2>5
<1>3. \A m \in 1 .. n : m - 1 \in T => m \in T
  BY <1>2
<1>4. \A m \in 0 .. n : m \in T
  <2> HIDE DEF T
  <2> QED BY <1>1, <1>3, UpTo
<1> QED BY <1>4 DEF IsLoop

(* There is one such result.                                               *)
InStep(g, h, n) ==
  /\ g[0] = h[0]
  /\ \A i \in 1 .. n : g[i - 1] = h[i - 1] => g[i] = h[i]

LEMMA SameIterate ==
  ASSUME NEW n \in Nat, NEW g, NEW h, InStep(g, h, n)
  PROVE  \A i \in 0 .. n : g[i] = h[i]
<1> DEFINE T == {i \in 0 .. n : g[i] = h[i]}
<1>1. 0 \in T /\ \A i \in 1 .. n : i - 1 \in T => i \in T
  BY DEF InStep
<1>2. \A i \in 0 .. n : i \in T
  <2> HIDE DEF T
  <2> QED BY <1>1, UpTo
<1> QED BY <1>2

(***************************************************************************)
(* The element-wise order is a strict total order                          *)
(***************************************************************************)

Smaller(s, t, n) ==
  /\ n \in 1 .. Len(t)
  /\ \A i \in 1 .. n - 1 : i <= Len(s) /\ s[i] = t[i]
  /\ n <= Len(s) => s[n] < t[n]

(* Less: smaller at the first difference, or a proper beginning.           *)
LEMMA LexBy ==
  ASSUME NEW s \in Seq(Int), NEW t \in Seq(Int)
  PROVE  LexLess(s, t) <=> \E n \in Nat : Smaller(s, t, n)
<1>1. DOMAIN s = 1 .. Len(s) /\ DOMAIN t = 1 .. Len(t) /\ Len(s) \in Nat /\ Len(t) \in Nat
  OBVIOUS
<1>2. \A n \in DOMAIN t : n \in Nat /\ \A i \in 1 .. n - 1 : i \in DOMAIN s <=> i <= Len(s)
  BY <1>1
<1>3. \A n \in DOMAIN t : n \in DOMAIN s <=> n <= Len(s)
  BY <1>1
<1> QED BY <1>1, <1>2, <1>3 DEF LexLess, Smaller

(* Nothing is less than itself.                                            *)
LEMMA LexIrreflexive ==
  ASSUME NEW s \in Seq(Int)
  PROVE  ~LexLess(s, s)
BY DEF LexLess

(* What is less than something less is less.                               *)
LEMMA LexTransitive ==
  ASSUME NEW s \in Seq(Int), NEW t \in Seq(Int), NEW u \in Seq(Int), LexLess(s, t), LexLess(t, u)
  PROVE  LexLess(s, u)
<1>1. PICK m \in Nat : Smaller(s, t, m)
  BY LexBy
<1>2. PICK n \in Nat : Smaller(t, u, n)
  BY LexBy
<1>3. Len(s) \in Nat /\ Len(t) \in Nat /\ Len(u) \in Nat
  OBVIOUS
<1>4. CASE m < n
  <2>1. m <= Len(t) /\ t[m] = u[m] /\ m <= Len(u)
    BY <1>1, <1>2, <1>3, <1>4 DEF Smaller
  <2>2. \A i \in 1 .. m - 1 : i <= Len(s) /\ s[i] = t[i] /\ t[i] = u[i]
    BY <1>1, <1>2, <1>3, <1>4 DEF Smaller
  <2>3. Smaller(s, u, m)
    BY <1>1, <1>3, <2>1, <2>2 DEF Smaller
  <2> QED BY <2>3, LexBy
<1>5. CASE n <= m
  <2>1. \A i \in 1 .. n - 1 : i <= Len(s) /\ s[i] = t[i] /\ t[i] = u[i]
    BY <1>1, <1>2, <1>3, <1>5 DEF Smaller
  <2>2. n \in 1 .. Len(u) /\ n \in 1 .. Len(t) /\ t[n] < u[n]
    BY <1>1, <1>2, <1>3, <1>5 DEF Smaller
  <2>3. n <= Len(s) => s[n] \in Int /\ t[n] \in Int /\ u[n] \in Int
    BY <2>2, ElementOfSeq
  <2>4. n <= Len(s) => s[n] = t[n] \/ s[n] < t[n]
    BY <1>1, <1>5, <2>2 DEF Smaller
  <2>5. n <= Len(s) => s[n] < u[n]
    BY <2>2, <2>3, <2>4
  <2>6. Smaller(s, u, n)
    BY <2>1, <2>2, <2>5 DEF Smaller
  <2> QED BY <2>6, LexBy
<1> QED BY <1>4, <1>5

(* Of two different sequences one is less.                                 *)
LEMMA LexTotal ==
  ASSUME NEW s \in Seq(Int), NEW t \in Seq(Int), s # t
  PROVE  LexLess(s, t) \/ LexLess(t, s)
<1> DEFINE T == {i \in Nat : 1 <= i /\ i <= Len(s) /\ i <= Len(t) /\ s[i] # t[i]}
<1>1. Len(s) \in Nat /\ Len(t) \in Nat
  OBVIOUS
<1>2. CASE T = {}
  <2>1. \A i \in Nat : 1 <= i /\ i <= Len(s) /\ i <= Len(t) => s[i] = t[i]
    BY <1>2
  <2>2. CASE Len(s) < Len(t)
    <3>1. Smaller(s, t, Len(s) + 1)
      BY <1>1, <2>1, <2>2 DEF Smaller
    <3> QED BY <1>1, <3>1, LexBy
  <2>3. CASE Len(t) < Len(s)
    <3>1. Smaller(t, s, Len(t) + 1)
      BY <1>1, <2>1, <2>3 DEF Smaller
    <3> QED BY <1>1, <3>1, LexBy
  <2>4. CASE Len(t) = Len(s)
    <3>1. \A i \in 1 .. Len(s) : s[i] = t[i]
      BY <1>1, <2>1, <2>4
    <3>2. s = t
      BY <3>1, <2>4, SeqEqual
    <3> QED BY <3>2
  <2> HIDE DEF T
  <2> QED BY <1>1, <2>2, <2>3, <2>4
<1>3. CASE T # {}
  <2>1. PICK n \in T : \A i \in T : n <= i
    <3>1. T \subseteq Nat
      OBVIOUS
    <3> HIDE DEF T
    <3> QED BY <1>3, <3>1, NatLeast
  <2>2. n \in 1 .. Len(s) /\ n \in 1 .. Len(t) /\ s[n] # t[n]
    OBVIOUS
  <2>3. s[n] \in Int /\ t[n] \in Int
    BY <2>2, ElementOfSeq
  <2>4. \A i \in 1 .. n - 1 : i <= Len(s) /\ i <= Len(t) /\ s[i] = t[i]
    BY <1>1, <2>1
  <2> HIDE DEF T
  <2>5. CASE s[n] < t[n]
    <3>1. Smaller(s, t, n)
      BY <2>2, <2>4, <2>5 DEF Smaller
    <3> QED BY <2>2, <3>1, LexBy
  <2>6. CASE t[n] < s[n]
    <3>1. Smaller(t, s, n)
      BY <2>2, <2>4, <2>6 DEF Smaller
    <3> QED BY <2>2, <3>1, LexBy
  <2> QED BY <2>2, <2>3, <2>5, <2>6
<1> QED BY <1>2, <1>3

(* Among finitely many sequences, one is least.                            *)
LEMMA LeastExists ==
  ASSUME NEW n \in Nat, NEW a, NEW I, I \subseteq 1 .. n, I # {}, \A i \in I : a[i] \in Seq(Int)
  PROVE  \E i \in I : \A k \in I : ~LexLess(a[k], a[i])
<1> DEFINE Least(i, m) == i \in I /\ i <= m /\ \A k \in I : k <= m => ~LexLess(a[k], a[i])
           T == {m \in 0 .. n : (\E k \in I : k <= m) => \E i \in I : Least(i, m)}
<1>1. 0 \in T
  OBVIOUS
<1>2. ASSUME NEW m \in 1 .. n, m - 1 \in T
      PROVE  m \in T
  <2>0. (\E k \in I : k <= m - 1) => \E i \in I : Least(i, m - 1)
    BY <1>2
  <2>5. SUFFICES ASSUME \E k \in I : k <= m
                 PROVE  \E i \in I : Least(i, m)
    OBVIOUS
  <2>4. \A k \in I : k \in Nat /\ (k <= m <=> k <= m - 1 \/ k = m)
    OBVIOUS
  <2> HIDE DEF T
  <2>1. CASE m \notin I
    <3>1. PICK i \in I : Least(i, m - 1)
      BY <2>0, <2>1, <2>4, <2>5
    <3>2. Least(i, m)
      BY <2>1, <2>4, <3>1
    <3> QED BY <3>2
  <2>2. CASE m \in I /\ ~\E k \in I : k <= m - 1
    <3>1. \A k \in I : k <= m => k = m
      BY <2>2, <2>4
    <3>2. ~LexLess(a[m], a[m])
      BY <2>2, LexIrreflexive
    <3>3. Least(m, m)
      BY <2>2, <2>4, <3>1, <3>2
    <3> QED BY <2>2, <3>3
  <2>3. CASE m \in I /\ \E k \in I : k <= m - 1
    <3>1. PICK i \in I : Least(i, m - 1)
      BY <2>0, <2>3
    <3>2. i <= m - 1 /\ \A k \in I : k <= m - 1 => ~LexLess(a[k], a[i])
      BY <3>1
    <3>4. CASE LexLess(a[m], a[i])
      <4>1. ~LexLess(a[m], a[m])
        BY <2>3, LexIrreflexive
      <4>2. ASSUME NEW k \in I, k <= m - 1 PROVE ~LexLess(a[k], a[m])
        BY <3>2, <3>4, <4>2, <2>3, LexTransitive
      <4>3. \A k \in I : k <= m => ~LexLess(a[k], a[m])
        BY <4>1, <4>2, <2>4
      <4>4. Least(m, m)
        BY <4>3, <2>3, <2>4
      <4> QED BY <4>4, <2>3
    <3>5. CASE ~LexLess(a[m], a[i])
      <4>1. \A k \in I : k <= m => ~LexLess(a[k], a[i])
        BY <3>2, <3>5, <2>4
      <4>2. Least(i, m)
        BY <4>1, <3>2, <2>4
      <4> QED BY <4>2
    <3> QED BY <3>4, <3>5
  <2> QED BY <2>1, <2>2, <2>3
<1>3. \A m \in 1 .. n : m - 1 \in T => m \in T
  BY <1>2
<1>4. \A m \in 0 .. n : m \in T
  <2> HIDE DEF T
  <2> QED BY <1>1, <1>3, UpTo
<1>5. (\E k \in I : k <= n) /\ \A k \in I : k <= n
  <2>1. \A k \in I : k \in 1 .. n
    OBVIOUS
  <2>2. \A k \in I : k <= n
    BY <2>1
  <2>3. \E k : k \in I
    OBVIOUS
  <2> QED BY <2>2, <2>3
<1>6. (\E k \in I : k <= n) => \E i \in I : Least(i, n)
  <2>1. n \in T
    <3> HIDE DEF T
    <3> QED BY <1>4
  <2> QED BY <2>1
<1>7. PICK i \in I : Least(i, n)
  <2> HIDE DEF T, Least
  <2> QED BY <1>5, <1>6
<1> QED BY <1>5, <1>7

LEMMA PairIsSeq ==
  ASSUME NEW p \in Int \X Int
  PROVE  p \in Seq(Int) /\ Len(p) = 2
<1>1. p = <<p[1], p[2]>>
  OBVIOUS
<1>2. <<p[1], p[2]>> \in Seq(Int) /\ Len(<<p[1], p[2]>>) = 2
  OBVIOUS
<1> QED BY <1>1, <1>2

(***************************************************************************)
(* The loops of the two recipes, step by step                              *)
(***************************************************************************)

LagStep(q, i, before) ==
  IF i = 1 \/ q[i] # q[i - 1] THEN Append(before, q[i]) ELSE before

(* The SQL recipe drops duplicates with one comparison a step.             *)
LEMMA LagSteps ==
  ASSUME NEW P, NEW q \in Seq(P)
  PROVE  \E kept \in [0 .. Len(q) -> Seq(P)] :
           /\ kept[0] = <<>>
           /\ \A i \in 1 .. Len(q) : kept[i] = LagStep(q, i, kept[i - 1])
           /\ LagDistinct(q) = kept[Len(q)]
<1> DEFINE n == Len(q)
           step == [i \in 1 .. n |-> [k \in Seq(P) |-> LagStep(q, i, k)]]
           h == CHOOSE kept : kept =
                  [i \in 0 .. n |->
                    IF i = 0 THEN <<>>
                    ELSE IF i = 1 \/ q[i] # q[i - 1] THEN Append(kept[i - 1], q[i])
                         ELSE kept[i - 1]]
<1>1. n \in Nat /\ <<>> \in Seq(P)
  OBVIOUS
<1>2. step \in [1 .. n -> [Seq(P) -> Seq(P)]]
  <2>1. ASSUME NEW i \in 1 .. n, NEW k \in Seq(P) PROVE LagStep(q, i, k) \in Seq(P)
    <3>1. q[i] \in P
      BY ElementOfSeq
    <3> QED BY <3>1, AppendProperties DEF LagStep
  <2> QED BY <2>1
<1>3. PICK g \in [0 .. n -> Seq(P)] :
        g[0] = <<>> /\ \A i \in 1 .. n : g[i] = step[i][g[i - 1]]
  <2> DEFINE S == Seq(P)
             c == <<>>
  <2>1. n \in Nat /\ c \in S /\ step \in [1 .. n -> [S -> S]]
    BY <1>1, <1>2
  <2>2. \E g : IsLoop(g, S, c, n, step)
    <3> HIDE DEF step, n, S, c
    <3> QED BY <2>1, Iterate
  <2> QED BY <2>2 DEF IsLoop
<1>4. \A i \in 1 .. n : g[i] = LagStep(q, i, g[i - 1])
  <2> SUFFICES ASSUME NEW i \in 1 .. n PROVE g[i] = LagStep(q, i, g[i - 1])
    OBVIOUS
  <2>1. g[i - 1] \in Seq(P)
    BY <1>1
  <2> QED BY <1>3, <2>1
<1>5. g = [i \in 0 .. n |->
            IF i = 0 THEN <<>>
            ELSE IF i = 1 \/ q[i] # q[i - 1] THEN Append(g[i - 1], q[i])
                 ELSE g[i - 1]]
  <2>1. \A i \in 0 .. n : i = 0 \/ i \in 1 .. n
    BY <1>1
  <2>2. ASSUME NEW i \in 0 .. n
        PROVE  g[i] = IF i = 0 THEN <<>>
                      ELSE IF i = 1 \/ q[i] # q[i - 1] THEN Append(g[i - 1], q[i])
                           ELSE g[i - 1]
    BY <1>3, <1>4, <2>1 DEF LagStep
  <2> HIDE DEF n
  <2> QED BY <2>2
<1>6. h = [i \in 0 .. n |->
            IF i = 0 THEN <<>>
            ELSE IF i = 1 \/ q[i] # q[i - 1] THEN Append(h[i - 1], q[i])
                 ELSE h[i - 1]]
  <2> HIDE DEF n
  <2> QED BY <1>5
<1>7. LagDistinct(q) = h[n]
  BY DEF LagDistinct
<1> HIDE DEF h, n
<1>8. h[0] = <<>> /\ \A i \in 1 .. n : h[i] = LagStep(q, i, h[i - 1])
  <2>1. 0 \in 0 .. n /\ \A i \in 1 .. n : i \in 0 .. n /\ i # 0
    BY <1>1
  <2> QED BY <1>6, <2>1 DEF LagStep
<1>9. \A i \in 0 .. n : g[i] = h[i]
  <2>1. InStep(g, h, n)
    BY <1>3, <1>4, <1>8 DEF InStep
  <2> QED BY <1>1, <2>1, SameIterate
<1>10. LagDistinct(q) = g[n]
  BY <1>1, <1>7, <1>9
<1> QED BY <1>3, <1>4, <1>10 DEF n

(* What one step leaves: the new vertex is last, neighbours differ.        *)
LEMMA LagStepped ==
  ASSUME NEW P, NEW q \in Seq(P), NEW i \in 1 .. Len(q), NEW before \in Seq(P),
         i = 1 \/ (Len(before) >= 1 /\ before[Len(before)] = q[i - 1]),
         \A j \in 1 .. Len(before) - 1 : before[j] # before[j + 1],
         i = 1 => before = <<>>,
         NEW after, after = LagStep(q, i, before)
  PROVE  /\ after \in Seq(P)
         /\ Len(after) \in {Len(before), Len(before) + 1}
         /\ Len(after) >= 1
         /\ after[Len(after)] = q[i]
         /\ \A j \in 1 .. Len(before) : after[j] = before[j]
         /\ \A j \in 1 .. Len(after) - 1 : after[j] # after[j + 1]
<1>1. q[i] \in P /\ Len(before) \in Nat
  BY ElementOfSeq
<1>2. CASE i # 1 /\ q[i] = q[i - 1]
  BY <1>1, <1>2 DEF LagStep
<1>3. CASE i = 1 \/ q[i] # q[i - 1]
  <2>1. after = Append(before, q[i])
    BY <1>3 DEF LagStep
  <2>2. /\ after \in Seq(P)
        /\ Len(after) = Len(before) + 1
        /\ \A j \in 1 .. Len(before) : after[j] = before[j]
        /\ after[Len(before) + 1] = q[i]
    BY <1>1, <2>1, AppendProperties
  <2>3. Len(before) >= 1 => before[Len(before)] # q[i]
    <3>1. CASE i = 1
      BY <3>1
    <3>2. CASE i # 1
      BY <3>2, <1>3
    <3> QED BY <3>1, <3>2
  <2>4. ASSUME NEW j \in 1 .. Len(after) - 1 PROVE after[j] # after[j + 1]
    <3>1. CASE j = Len(before)
      BY <1>1, <2>2, <2>3, <3>1
    <3>2. CASE j # Len(before)
      <4>1. j \in 1 .. Len(before) - 1 /\ j \in 1 .. Len(before) /\ j + 1 \in 1 .. Len(before)
        BY <1>1, <2>2, <3>2
      <4> QED BY <2>2, <4>1
    <3> QED BY <3>1, <3>2
  <2> QED BY <1>1, <2>2, <2>4
<1> QED BY <1>2, <1>3

(* So after every step.                                                    *)
IsLag(kept, q, P) ==
  /\ kept \in [0 .. Len(q) -> Seq(P)]
  /\ kept[0] = <<>>
  /\ \A i \in 1 .. Len(q) : kept[i] = LagStep(q, i, kept[i - 1])

LEMMA LagKeeps ==
  ASSUME NEW P, NEW q \in Seq(P), NEW kept, IsLag(kept, q, P)
  PROVE  \A i \in 1 .. Len(q) :
           /\ Len(kept[i]) >= 1
           /\ kept[i][Len(kept[i])] = q[i]
           /\ Len(kept[i]) \in {Len(kept[i - 1]), Len(kept[i - 1]) + 1}
           /\ \A j \in 1 .. Len(kept[i - 1]) : kept[i][j] = kept[i - 1][j]
           /\ \A j \in 1 .. Len(kept[i]) - 1 : kept[i][j] # kept[i][j + 1]
<1> DEFINE n == Len(q)
           Good(i) == /\ Len(kept[i]) >= 1
                      /\ kept[i][Len(kept[i])] = q[i]
                      /\ Len(kept[i]) \in {Len(kept[i - 1]), Len(kept[i - 1]) + 1}
                      /\ \A j \in 1 .. Len(kept[i - 1]) : kept[i][j] = kept[i - 1][j]
                      /\ \A j \in 1 .. Len(kept[i]) - 1 : kept[i][j] # kept[i][j + 1]
           T == {i \in 0 .. n : i = 0 \/ Good(i)}
<1>1. n \in Nat /\ 0 \in T
  OBVIOUS
<1>2. ASSUME NEW i \in 1 .. n, i - 1 \in T PROVE i \in T
  <2>1. kept[i - 1] \in Seq(P) /\ kept[i] = LagStep(q, i, kept[i - 1])
    BY <1>1 DEF IsLag
  <2>2. /\ i = 1 \/ (Len(kept[i - 1]) >= 1 /\ kept[i - 1][Len(kept[i - 1])] = q[i - 1])
        /\ \A j \in 1 .. Len(kept[i - 1]) - 1 : kept[i - 1][j] # kept[i - 1][j + 1]
        /\ i = 1 => kept[i - 1] = <<>>
    <3>1. CASE i = 1
      BY <3>1 DEF IsLag
    <3>2. CASE i # 1
      <4>1. i - 1 # 0
        BY <1>1, <3>2
      <4>2. Good(i - 1)
        BY <1>2, <4>1
      <4> HIDE DEF T
      <4> QED BY <3>2, <4>2
    <3> QED BY <3>1, <3>2
  <2>3. Good(i)
    <3> DEFINE before == kept[i - 1]
               after == kept[i]
    <3>1. /\ before \in Seq(P)
          /\ after = LagStep(q, i, before)
          /\ i = 1 \/ (Len(before) >= 1 /\ before[Len(before)] = q[i - 1])
          /\ \A j \in 1 .. Len(before) - 1 : before[j] # before[j + 1]
          /\ i = 1 => before = <<>>
      BY <2>1, <2>2
    <3> HIDE DEF before, after
    <3>2. /\ Len(after) \in {Len(before), Len(before) + 1}
          /\ Len(after) >= 1
          /\ after[Len(after)] = q[i]
          /\ \A j \in 1 .. Len(before) : after[j] = before[j]
          /\ \A j \in 1 .. Len(after) - 1 : after[j] # after[j + 1]
      BY <3>1, LagStepped
    <3> QED BY <3>2 DEF before, after
  <2> QED BY <2>3
<1>3. \A i \in 1 .. n : i - 1 \in T => i \in T
  BY <1>2
<1>4. \A i \in 0 .. n : i \in T
  <2> HIDE DEF T, n
  <2> QED BY <1>1, <1>3, UpTo
<1>5. ASSUME NEW i \in 1 .. n PROVE Good(i)
  <2>1. i \in 0 .. n /\ i # 0
    BY <1>1
  <2>2. i \in T
    BY <1>4, <2>1
  <2> QED BY <2>1, <2>2
<1> QED BY <1>5

(* Python compares with the last vertex kept, SQL with the one listed      *)
(* before: they are the same position.                                     *)
LEMMA ForwardIsLag ==
  ASSUME NEW P, NEW q \in Seq(P)
  PROVE  Forward(q) = LagDistinct(q)
<1> DEFINE n == Len(q)
           h == CHOOSE kept : kept =
                  [i \in 0 .. n |->
                    IF i = 0 THEN <<>>
                    ELSE IF kept[i - 1] # <<>> /\ q[i] = Last(kept[i - 1]) THEN kept[i - 1]
                         ELSE Append(kept[i - 1], q[i])]
           Step(i, k) == IF k # <<>> /\ q[i] = Last(k) THEN k ELSE Append(k, q[i])
<1>1. PICK g \in [0 .. n -> Seq(P)] :
        /\ g[0] = <<>>
        /\ \A i \in 1 .. n : g[i] = LagStep(q, i, g[i - 1])
        /\ LagDistinct(q) = g[n]
  BY LagSteps
<1>2. n \in Nat
  OBVIOUS
<1>3. ASSUME NEW i \in 1 .. n PROVE g[i] = Step(i, g[i - 1])
  <2>1. CASE i = 1
    <3>1. g[i - 1] = <<>>
      BY <1>1, <2>1
    <3>2. g[i] = Append(g[i - 1], q[i])
      BY <1>1, <2>1 DEF LagStep
    <3> QED BY <3>1, <3>2
  <2>2. CASE i # 1
    <3>0. i - 1 \in 1 .. n /\ i - 1 \in 0 .. n
      BY <1>2, <2>2
    <3>1. i - 1 \in 1 .. n /\ g[i - 1] \in Seq(P)
      BY <3>0
    <3>2. Len(g[i - 1]) >= 1 /\ g[i - 1][Len(g[i - 1])] = q[i - 1]
      <4>1. IsLag(g, q, P)
        BY <1>1 DEF IsLag
      <4> QED BY <3>1, <4>1, LagKeeps
    <3>3. g[i - 1] # <<>> /\ Last(g[i - 1]) = q[i - 1]
      BY <3>1, <3>2 DEF Last
    <3> QED BY <1>1, <2>2, <3>3 DEF LagStep
  <2> QED BY <2>1, <2>2
<1>4. g = [i \in 0 .. n |->
            IF i = 0 THEN <<>>
            ELSE IF g[i - 1] # <<>> /\ q[i] = Last(g[i - 1]) THEN g[i - 1]
                 ELSE Append(g[i - 1], q[i])]
  <2>1. \A i \in 0 .. n : i = 0 \/ i \in 1 .. n
    BY <1>2
  <2> HIDE DEF n
  <2> QED BY <1>1, <1>3, <2>1
<1>5. h = [i \in 0 .. n |->
            IF i = 0 THEN <<>>
            ELSE IF h[i - 1] # <<>> /\ q[i] = Last(h[i - 1]) THEN h[i - 1]
                 ELSE Append(h[i - 1], q[i])]
  <2> HIDE DEF n
  <2> QED BY <1>4
<1>6. Forward(q) = h[n]
  BY DEF Forward
<1> HIDE DEF h, n
<1>7. h[0] = <<>> /\ \A i \in 1 .. n : h[i] = Step(i, h[i - 1])
  <2>1. 0 \in 0 .. n /\ \A i \in 1 .. n : i \in 0 .. n /\ i # 0
    BY <1>2
  <2> QED BY <1>5, <2>1
<1> HIDE DEF Step
<1>8. InStep(g, h, n)
  BY <1>1, <1>3, <1>7 DEF InStep
<1>9. \A i \in 0 .. n : g[i] = h[i]
  BY <1>2, <1>8, SameIterate
<1> QED BY <1>1, <1>2, <1>6, <1>9

(***************************************************************************)
(* Consecutive duplicates removed: k is what is left of q when a walk      *)
(* along q stays in a place of k or goes on to the next one.               *)
(***************************************************************************)

Traces(f, q, k) ==
  /\ f \in [1 .. Len(q) -> 1 .. Len(k)]
  /\ f[1] = 1
  /\ f[Len(q)] = Len(k)
  /\ \A i \in 1 .. Len(q) - 1 : f[i + 1] = f[i] \/ f[i + 1] = f[i] + 1
  /\ \A i \in 1 .. Len(q) : q[i] = k[f[i]]
  /\ \A j \in 1 .. Len(k) - 1 : k[j] # k[j + 1]

(* What is left of q is traced by a walk along q.                          *)
LEMMA LagTraced ==
  ASSUME NEW P, NEW q \in Seq(P), Len(q) >= 1
  PROVE  LagDistinct(q) \in Seq(P) /\ \E f : Traces(f, q, LagDistinct(q))
<1> DEFINE n == Len(q)
<1>1. PICK g \in [0 .. n -> Seq(P)] :
        /\ g[0] = <<>>
        /\ \A i \in 1 .. n : g[i] = LagStep(q, i, g[i - 1])
        /\ LagDistinct(q) = g[n]
  BY LagSteps
<1>2. \A i \in 1 .. n :
        /\ Len(g[i]) >= 1
        /\ g[i][Len(g[i])] = q[i]
        /\ Len(g[i]) \in {Len(g[i - 1]), Len(g[i - 1]) + 1}
        /\ \A j \in 1 .. Len(g[i - 1]) : g[i][j] = g[i - 1][j]
        /\ \A j \in 1 .. Len(g[i]) - 1 : g[i][j] # g[i][j + 1]
  <2>1. IsLag(g, q, P)
    BY <1>1 DEF IsLag
  <2> QED BY <2>1, LagKeeps
<1>3. n \in Nat /\ n >= 1
  OBVIOUS
<1>4. \A i \in 0 .. n : g[i] \in Seq(P) /\ Len(g[i]) \in Nat
  OBVIOUS
<1> DEFINE Known(i) == \A m \in 1 .. i : Len(g[m]) <= Len(g[i]) /\ g[i][Len(g[m])] = q[m]
           T == {i \in 0 .. n : Known(i)}
<1> HIDE DEF n
<1>5. 0 \in T
  BY <1>3
<1>6. ASSUME NEW i \in 1 .. n, i - 1 \in T PROVE i \in T
  <2>1. i - 1 \in 0 .. n /\ i \in 0 .. n
    BY <1>3
  <2>2. ASSUME NEW m \in 1 .. i PROVE Len(g[m]) <= Len(g[i]) /\ g[i][Len(g[m])] = q[m]
    <3>1. CASE m = i
      BY <3>1, <1>2, <1>4, <2>1
    <3>2. CASE m # i
      <4>1. m \in 1 .. i - 1 /\ m \in 1 .. n /\ m \in 0 .. n
        BY <3>2, <1>3
      <4>2. Len(g[m]) <= Len(g[i - 1]) /\ g[i - 1][Len(g[m])] = q[m] /\ Len(g[m]) >= 1
        BY <4>1, <1>2, <1>6
      <4>3. Len(g[m]) \in 1 .. Len(g[i - 1]) /\ Len(g[i - 1]) <= Len(g[i])
        BY <4>1, <4>2, <1>2, <1>4, <2>1
      <4>4. g[i][Len(g[m])] = g[i - 1][Len(g[m])]
        BY <4>3, <1>2
      <4> QED BY <4>2, <4>3, <4>4, <4>1, <1>4, <2>1
    <3> QED BY <3>1, <3>2
  <2> QED BY <2>1, <2>2
<1>7. \A i \in 1 .. n : i - 1 \in T => i \in T
  BY <1>6
<1>8. \A i \in 0 .. n : i \in T
  <2> HIDE DEF T
  <2> QED BY <1>3, <1>5, <1>7, UpTo
<1>9. Known(n)
  BY <1>3, <1>8
<1> DEFINE f == [i \in 1 .. n |-> Len(g[i])]
           k == g[n]
<1>10. k \in Seq(P)
  BY <1>3, <1>4
<1>11. f \in [1 .. n -> 1 .. Len(k)]
  <2>1. ASSUME NEW i \in 1 .. n PROVE Len(g[i]) \in 1 .. Len(k)
    <3>1. i \in 0 .. n
      BY <1>3
    <3> QED BY <3>1, <1>2, <1>4, <1>9
  <2> QED BY <2>1
<1>12. f[1] = 1
  <2>1. 1 \in 1 .. n
    BY <1>3
  <2>2. g[1 - 1] = <<>>
    BY <1>1
  <2>3. Len(g[1]) \in {Len(g[1 - 1]), Len(g[1 - 1]) + 1} /\ Len(g[1]) >= 1
    BY <2>1, <1>2
  <2>4. Len(g[1]) = 1
    BY <2>2, <2>3
  <2> QED BY <2>1, <2>4
<1>13. f[n] = Len(k)
  BY <1>3
<1>14. ASSUME NEW i \in 1 .. n - 1 PROVE f[i + 1] = f[i] \/ f[i + 1] = f[i] + 1
  <2>1. i \in 1 .. n /\ i + 1 \in 1 .. n /\ (i + 1) - 1 = i
    BY <1>3
  <2>2. Len(g[i + 1]) \in {Len(g[(i + 1) - 1]), Len(g[(i + 1) - 1]) + 1}
    BY <2>1, <1>2
  <2> QED BY <2>1, <2>2
<1>15. \A i \in 1 .. n : q[i] = k[f[i]]
  BY <1>9
<1>16. \A j \in 1 .. Len(k) - 1 : k[j] # k[j + 1]
  BY <1>2, <1>3
<1>17. Traces(f, q, k)
  <2> HIDE DEF f, k
  <2> QED BY <1>11, <1>12, <1>13, <1>14, <1>15, <1>16 DEF Traces, n
<1> QED BY <1>1, <1>10, <1>17

LEMMA LongerPrefix ==
  ASSUME NEW P, NEW k \in Seq(P), NEW m \in 0 .. Len(k) - 1
  PROVE  SubSeq(k, 1, m + 1) = Append(SubSeq(k, 1, m), k[m + 1])
<1>1. m + 1 \in 1 .. Len(k) /\ 1 \in 1 .. Len(k) /\ (m + 1) - 1 = m
  OBVIOUS
<1>2. SubSeq(k, 1, m + 1) = SubSeq(k, 1, m) \o <<k[m + 1]>>
  BY <1>1, SubSeqRecursiveSecond
<1>3. SubSeq(k, 1, m) \in Seq(P) /\ k[m + 1] \in P
  BY <1>1, SubSeqProperties, ElementOfSeq
<1> QED BY <1>2, <1>3, AppendIsConcat

(* Whatever a walk along q traces is what is left of q.                    *)
LEMMA TracedIsLag ==
  ASSUME NEW P, NEW q \in Seq(P), Len(q) >= 1, NEW k \in Seq(P), NEW f, Traces(f, q, k)
  PROVE  LagDistinct(q) = k
<1> DEFINE n == Len(q)
           at(i) == IF i = 0 THEN 0 ELSE f[i]
           h == [i \in 0 .. n |-> SubSeq(k, 1, at(i))]
<1>1. PICK g \in [0 .. n -> Seq(P)] :
        /\ g[0] = <<>>
        /\ \A i \in 1 .. n : g[i] = LagStep(q, i, g[i - 1])
        /\ LagDistinct(q) = g[n]
  BY LagSteps
<1>2. n \in Nat /\ n >= 1 /\ Len(k) \in Nat
  OBVIOUS
<1>3. \A i \in 1 .. n : f[i] \in 1 .. Len(k) /\ q[i] = k[f[i]]
  BY DEF Traces
<1>4. ASSUME NEW i \in 1 .. n PROVE h[i] = LagStep(q, i, h[i - 1])
  <2>1. i \in 0 .. n /\ i - 1 \in 0 .. n /\ f[i] \in 1 .. Len(k) /\ q[i] = k[f[i]]
    BY <1>2, <1>3
  <2>2. h[i] = SubSeq(k, 1, f[i])
    BY <2>1
  <2>3. CASE i = 1
    <3>1. f[i] = 1 /\ h[i - 1] = SubSeq(k, 1, 0)
      BY <2>1, <2>3 DEF Traces
    <3>2. SubSeq(k, 1, 0 + 1) = Append(SubSeq(k, 1, 0), k[0 + 1])
      <4>1. 0 \in 0 .. Len(k) - 1
        BY <1>2, <2>1
      <4> QED BY <4>1, LongerPrefix
    <3> HIDE DEF h
    <3> QED BY <2>1, <2>2, <2>3, <3>1, <3>2 DEF LagStep
  <2>4. CASE i # 1
    <3>1. i - 1 \in 1 .. n /\ i - 1 \in 1 .. n - 1 /\ (i - 1) + 1 = i
      BY <1>2, <2>4
    <3>2. h[i - 1] = SubSeq(k, 1, f[i - 1]) /\ q[i - 1] = k[f[i - 1]] /\ f[i - 1] \in 1 .. Len(k)
      BY <3>1, <2>1, <1>3
    <3>3. f[(i - 1) + 1] = f[i - 1] \/ f[(i - 1) + 1] = f[i - 1] + 1
      BY <3>1 DEF Traces
    <3>4. CASE f[i] = f[i - 1]
      <4>1. q[i] = q[i - 1]
        BY <2>1, <3>2, <3>4
      <4> QED BY <2>2, <2>4, <3>2, <3>4, <4>1 DEF LagStep
    <3>5. CASE f[i] = f[i - 1] + 1
      <4>1. f[i - 1] \in 1 .. Len(k) - 1
        BY <1>2, <2>1, <3>2, <3>5
      <4>2. q[i] # q[i - 1]
        BY <2>1, <3>2, <3>5, <4>1 DEF Traces
      <4>3. SubSeq(k, 1, f[i - 1] + 1) = Append(SubSeq(k, 1, f[i - 1]), k[f[i - 1] + 1])
        <5>1. f[i - 1] \in 0 .. Len(k) - 1
          BY <1>2, <4>1
        <5> QED BY <5>1, LongerPrefix
      <4>4. h[i] = Append(h[i - 1], q[i])
        BY <2>1, <2>2, <3>2, <3>5, <4>3
      <4> HIDE DEF h
      <4> QED BY <2>4, <4>2, <4>4 DEF LagStep
    <3> QED BY <3>1, <3>3, <3>4, <3>5
  <2> QED BY <2>3, <2>4
<1>5. h[0] = <<>>
  BY <1>2
<1>6. InStep(g, h, n)
  <2> HIDE DEF h, n
  <2> QED BY <1>1, <1>4, <1>5 DEF InStep
<1>7. \A i \in 0 .. n : g[i] = h[i]
  <2>1. n \in Nat
    BY <1>2
  <2> HIDE DEF h, n, at
  <2> QED BY <1>6, <2>1, SameIterate
<1>8. h[n] = SubSeq(k, 1, Len(k))
  <2>1. f[n] = Len(k) /\ n \in 0 .. n /\ n # 0
    BY <1>2 DEF Traces
  <2> QED BY <2>1
<1>9. SubSeq(k, 1, Len(k)) = k
  BY SubSeqFull
<1>10. g[n] = h[n]
  <2> HIDE DEF h
  <2> QED BY <1>2, <1>7
<1> QED BY <1>1, <1>8, <1>9, <1>10

(***************************************************************************)
(* Rotations                                                               *)
(***************************************************************************)

Cells == Int \X Int

(* The place in u of the j-th vertex of RotateTo(u, i), when u has n.      *)
Around(n, i, j) == IF i + j - 1 <= n THEN i + j - 1 ELSE i + j - 1 - n

LEMMA AroundIn ==
  ASSUME NEW n \in Nat, NEW i \in 1 .. n, NEW j \in 1 .. n
  PROVE  Around(n, i, j) \in 1 .. n
BY DEF Around

(* A rotation lists the same vertices, each one in its new place.          *)
LEMMA RotateProperties ==
  ASSUME NEW P, NEW u \in Seq(P), NEW i \in 1 .. Len(u)
  PROVE  /\ RotateTo(u, i) \in Seq(P)
         /\ Len(RotateTo(u, i)) = Len(u)
         /\ \A j \in 1 .. Len(u) : RotateTo(u, i)[j] = u[Around(Len(u), i, j)]
<1> DEFINE n == Len(u)
           a == SubSeq(u, i, n)
           b == SubSeq(u, 1, i - 1)
<1>1. n \in Nat /\ i \in Int /\ i - 1 \in Int /\ n \in Int /\ 1 \in Int
  OBVIOUS
<1>2. (\A j \in i .. n : u[j] \in P) /\ (\A j \in 1 .. i - 1 : u[j] \in P)
  BY ElementOfSeq
<1>3. /\ a \in Seq(P)
      /\ Len(a) = n - i + 1
      /\ \A j \in 1 .. n - i + 1 : a[j] = u[i + j - 1]
  BY <1>1, <1>2, SubSeqProperties
<1>4. /\ b \in Seq(P)
      /\ Len(b) = i - 1
      /\ \A j \in 1 .. i - 1 : b[j] = u[j]
  <2>1. /\ b \in Seq(P)
        /\ Len(b) = IF 1 <= i - 1 THEN (i - 1) - 1 + 1 ELSE 0
        /\ \A j \in 1 .. (i - 1) - 1 + 1 : b[j] = u[1 + j - 1]
    BY <1>1, <1>2, SubSeqProperties
  <2>2. \A j \in 1 .. i - 1 : 1 + j - 1 = j
    OBVIOUS
  <2> QED BY <2>1, <2>2
<1> HIDE DEF a, b, n
<1>5. /\ a \o b \in Seq(P)
      /\ Len(a \o b) = Len(a) + Len(b)
      /\ \A j \in 1 .. Len(a) + Len(b) : (a \o b)[j] = IF j <= Len(a) THEN a[j] ELSE b[j - Len(a)]
  BY <1>3, <1>4, ConcatProperties
<1>6. Len(a \o b) = n
  BY <1>1, <1>3, <1>4, <1>5
<1>7. ASSUME NEW j \in 1 .. n PROVE (a \o b)[j] = u[Around(n, i, j)]
  <2>1. (a \o b)[j] = IF j <= Len(a) THEN a[j] ELSE b[j - Len(a)]
    BY <1>1, <1>5, <1>6
  <2>2. CASE j <= n - i + 1
    <3>1. (a \o b)[j] = u[i + j - 1]
      BY <1>1, <1>3, <2>1, <2>2
    <3>2. Around(n, i, j) = i + j - 1
      BY <1>1, <2>2 DEF Around
    <3> QED BY <3>1, <3>2
  <2>3. CASE ~(j <= n - i + 1)
    <3>1. j - (n - i + 1) \in 1 .. i - 1
      BY <1>1, <2>3
    <3>2. (a \o b)[j] = u[j - (n - i + 1)]
      BY <1>3, <1>4, <2>1, <2>3, <3>1
    <3>3. Around(n, i, j) = j - (n - i + 1)
      BY <1>1, <2>3 DEF Around
    <3> QED BY <3>2, <3>3
  <2> QED BY <2>2, <2>3
<1>8. RotateTo(u, i) = a \o b
  BY DEF RotateTo, a, b, n
<1> QED BY <1>5, <1>6, <1>7, <1>8 DEF n

LEMMA RotateByOne ==
  ASSUME NEW P, NEW u \in Seq(P), Len(u) >= 1
  PROVE  RotateTo(u, 1) = u
<1>1. 1 \in 1 .. Len(u)
  OBVIOUS
<1>2. /\ RotateTo(u, 1) \in Seq(P)
      /\ Len(RotateTo(u, 1)) = Len(u)
      /\ \A j \in 1 .. Len(u) : RotateTo(u, 1)[j] = u[Around(Len(u), 1, j)]
  BY <1>1, RotateProperties
<1>3. \A j \in 1 .. Len(u) : Around(Len(u), 1, j) = j
  BY DEF Around
<1> QED BY <1>2, <1>3, SeqEqual

(***************************************************************************)
(* Coordinates                                                             *)
(***************************************************************************)

(* The coordinates of the vertices, one after the other.                   *)
LEMMA CoordinatesProperties ==
  ASSUME NEW u \in Seq(Cells)
  PROVE  /\ Coordinates(u) \in Seq(Int)
         /\ Len(Coordinates(u)) = 2 * Len(u)
         /\ \A i \in 1 .. Len(u) :
              Coordinates(u)[2 * i - 1] = u[i][1] /\ Coordinates(u)[2 * i] = u[i][2]
<1> DEFINE n == 2 * Len(u)
           e(j) == u[(j + 1) \div 2][2 - (j % 2)]
<1>1. Len(u) \in Nat /\ n \in Nat
  OBVIOUS
<1>2. ASSUME NEW j \in 1 .. n PROVE e(j) \in Int
  <2>1. (j + 1) \div 2 \in 1 .. Len(u) /\ 2 - (j % 2) \in 1 .. 2
    OBVIOUS
  <2>2. u[(j + 1) \div 2] \in Cells
    BY <2>1, ElementOfSeq
  <2>3. \A p \in Cells : \A d \in 1 .. 2 : p[d] \in Int
    BY DEF Cells
  <2> QED BY <2>1, <2>2, <2>3
<1>3. Coordinates(u) = [j \in 1 .. n |-> e(j)]
  BY DEF Coordinates
<1>4. [j \in 1 .. n |-> e(j)] \in Seq(Int) /\ Len([j \in 1 .. n |-> e(j)]) = n
  <2> HIDE DEF e, n
  <2> QED BY <1>1, <1>2
<1>5. ASSUME NEW i \in 1 .. Len(u)
      PROVE  Coordinates(u)[2 * i - 1] = u[i][1] /\ Coordinates(u)[2 * i] = u[i][2]
  <2>1. 2 * i - 1 \in 1 .. n /\ 2 * i \in 1 .. n
    BY <1>1
  <2>2. (2 * i - 1 + 1) \div 2 = i /\ (2 * i + 1) \div 2 = i
        /\ 2 - ((2 * i - 1) % 2) = 1 /\ 2 - ((2 * i) % 2) = 2
    BY <1>1
  <2> QED BY <1>3, <2>1, <2>2
<1> QED BY <1>3, <1>4, <1>5

LEMMA SamePair ==
  ASSUME NEW p \in Cells, NEW r \in Cells, p[1] = r[1], p[2] = r[2]
  PROVE  p = r
BY DEF Cells

(* They tell the vertices.                                                 *)
LEMMA CoordinatesInjective ==
  ASSUME NEW u \in Seq(Cells), NEW v \in Seq(Cells), Coordinates(u) = Coordinates(v)
  PROVE  u = v
<1>1. Len(u) = Len(v) /\ Len(u) \in Nat
  <2>1. Len(Coordinates(u)) = 2 * Len(u) /\ Len(Coordinates(v)) = 2 * Len(v)
    BY CoordinatesProperties
  <2> QED BY <2>1
<1>2. ASSUME NEW i \in 1 .. Len(u) PROVE u[i] = v[i]
  <2>1. Coordinates(u)[2 * i - 1] = u[i][1] /\ Coordinates(u)[2 * i] = u[i][2]
    BY CoordinatesProperties
  <2>2. Coordinates(v)[2 * i - 1] = v[i][1] /\ Coordinates(v)[2 * i] = v[i][2]
    BY <1>1, CoordinatesProperties
  <2>3. u[i] \in Cells /\ v[i] \in Cells
    BY <1>1, ElementOfSeq
  <2>4. u[i][1] = v[i][1] /\ u[i][2] = v[i][2]
    BY <2>1, <2>2
  <2> QED BY <2>3, <2>4, SamePair
<1> QED BY <1>1, <1>2, SeqEqual

(***************************************************************************)
(* The least rotation                                                      *)
(***************************************************************************)

(* A ring has a least vertex.                                              *)
LEMMA LeastVertex ==
  ASSUME NEW u \in Seq(Cells), Len(u) >= 1
  PROVE  /\ \E i \in 1 .. Len(u) : u[i] = LeastOf(ToSet(u))
         /\ \A i \in 1 .. Len(u) : ~LexLess(u[i], LeastOf(ToSet(u)))
<1>1. Len(u) \in Nat /\ (1 .. Len(u)) \subseteq 1 .. Len(u) /\ 1 .. Len(u) # {}
  OBVIOUS
<1>2. \A i \in 1 .. Len(u) : u[i] \in Seq(Int)
  BY ElementOfSeq, PairIsSeq DEF Cells
<1>3. PICK i \in 1 .. Len(u) : \A k \in 1 .. Len(u) : ~LexLess(u[k], u[i])
  <2> DEFINE I == 1 .. Len(u)
  <2>1. Len(u) \in Nat /\ I \subseteq 1 .. Len(u) /\ I # {} /\ \A k \in I : u[k] \in Seq(Int)
    BY <1>1, <1>2
  <2>2. \E k \in I : \A m \in I : ~LexLess(u[m], u[k])
    <3> HIDE DEF I
    <3> QED BY <2>1, LeastExists
  <2> QED BY <2>2
<1>4. ToSet(u) = {u[k] : k \in 1 .. Len(u)}
  BY DEF ToSet
<1>5. u[i] \in ToSet(u) /\ \A t \in ToSet(u) : ~LexLess(t, u[i])
  BY <1>3, <1>4
<1>6. LeastOf(ToSet(u)) \in ToSet(u) /\ \A t \in ToSet(u) : ~LexLess(t, LeastOf(ToSet(u)))
  BY <1>5 DEF LeastOf
<1> QED BY <1>4, <1>6

Starts(u) == {i \in 1 .. Len(u) : u[i] = LeastOf(ToSet(u))}

From(u, i) == Coordinates(RotateTo(u, i))

LEMMA FromIsSeq ==
  ASSUME NEW u \in Seq(Cells), NEW i \in 1 .. Len(u)
  PROVE  From(u, i) \in Seq(Int)
BY RotateProperties, CoordinatesProperties DEF From

(* v is a least one of the rotations of u that start at its least vertex.  *)
IsLeastRotation(v, u) ==
  \E i \in Starts(u) : v = RotateTo(u, i) /\ \A k \in Starts(u) : ~LexLess(From(u, k), From(u, i))

(* Two rotations that are least are one: ties list the same ring.          *)
LEMMA OneLeastRotation ==
  ASSUME NEW u \in Seq(Cells), NEW v, NEW w, IsLeastRotation(v, u), IsLeastRotation(w, u)
  PROVE  v = w
<1>1. PICK i \in Starts(u) : v = RotateTo(u, i)
                             /\ \A k \in Starts(u) : ~LexLess(From(u, k), From(u, i))
  BY DEF IsLeastRotation
<1>2. PICK j \in Starts(u) : w = RotateTo(u, j)
                             /\ \A k \in Starts(u) : ~LexLess(From(u, k), From(u, j))
  BY DEF IsLeastRotation
<1>3. i \in 1 .. Len(u) /\ j \in 1 .. Len(u)
  BY DEF Starts
<1>4. From(u, i) = From(u, j)
  BY <1>1, <1>2, <1>3, FromIsSeq, LexTotal
<1>5. v \in Seq(Cells) /\ w \in Seq(Cells) /\ Coordinates(v) = Coordinates(w)
  BY <1>1, <1>2, <1>3, <1>4, RotateProperties DEF From
<1> QED BY <1>5, CoordinatesInjective

(* The Python recipe takes it.                                             *)
LEMMA LeastRotationIsLeast ==
  ASSUME NEW u \in Seq(Cells), Len(u) >= 1
  PROVE  IsLeastRotation(LeastRotation(u), u)
<1> DEFINE n == Len(u)
           a == [i \in 1 .. n |-> From(u, i)]
           I == Starts(u)
           Least(i) == \A k \in I : ~LexLess(From(u, k), From(u, i))
<1>1. n \in Nat /\ I \subseteq 1 .. n /\ I # {}
  BY LeastVertex DEF Starts
<1>2. \A i \in I : a[i] \in Seq(Int) /\ a[i] = From(u, i)
  BY <1>1, FromIsSeq
<1>3. PICK i \in I : \A k \in I : ~LexLess(a[k], a[i])
  <2> HIDE DEF n, a, I
  <2> QED BY <1>1, <1>2, LeastExists
<1>4. Least(i)
  BY <1>2, <1>3
<1> DEFINE start == CHOOSE j \in I : Least(j)
<1>5. start \in I /\ Least(start)
  <2> HIDE DEF I, Least
  <2> QED BY <1>4
<1>6. I = {j \in DOMAIN u : u[j] = LeastOf(ToSet(u))}
  BY DEF Starts
<1>7. LeastRotation(u) = RotateTo(u, start)
  BY <1>6 DEF LeastRotation, From
<1> HIDE DEF start
<1> QED BY <1>5, <1>7 DEF IsLeastRotation

(* Where the SQL recipe starts: the first of the least vertices.           *)
LEMMA FirstLeastIs ==
  ASSUME NEW u \in Seq(Cells), Len(u) >= 1
  PROVE  FirstLeast(u) \in Starts(u) /\ \A i \in Starts(u) : FirstLeast(u) <= i
<1> DEFINE minimum == LeastOf(ToSet(u))
           First(i) == u[i] = minimum /\ \A k \in 1 .. i - 1 : u[k] # minimum
<1>1. Starts(u) \subseteq Nat /\ Starts(u) # {} /\ DOMAIN u = 1 .. Len(u) /\ Len(u) \in Nat
  BY LeastVertex DEF Starts
<1>2. PICK i \in Starts(u) : \A k \in Starts(u) : i <= k
  BY <1>1, NatLeast
<1>3. i \in DOMAIN u /\ First(i)
  <2>1. i \in 1 .. Len(u) /\ u[i] = minimum
    BY DEF Starts
  <2>2. ASSUME NEW k \in 1 .. i - 1 PROVE u[k] # minimum
    <3>1. k \in 1 .. Len(u) /\ ~(i <= k)
      BY <2>1, <1>1
    <3>2. k \notin Starts(u)
      BY <1>2, <3>1
    <3> QED BY <3>1, <3>2 DEF Starts
  <2> QED BY <1>1, <2>1, <2>2
<1> DEFINE first == CHOOSE j \in DOMAIN u : First(j)
<1>4. first \in DOMAIN u /\ First(first)
  <2> HIDE DEF First
  <2> QED BY <1>3
<1>5. FirstLeast(u) = first
  BY DEF FirstLeast
<1> HIDE DEF first
<1>6. ASSUME NEW k \in Starts(u) PROVE first <= k
  <2>1. k \in 1 .. Len(u) /\ u[k] = minimum
    BY DEF Starts
  <2> QED BY <1>1, <1>4, <2>1
<1>7. first \in Starts(u)
  BY <1>1, <1>4 DEF Starts
<1> QED BY <1>5, <1>6, <1>7

BestStep(u, i, before) ==
  IF i <= FirstLeast(u) THEN FirstLeast(u)
  ELSE IF u[i] = u[FirstLeast(u)] /\ LexLess(From(u, i), From(u, before)) THEN i
       ELSE before

(* The tie-break of the SQL recipe, candidate after candidate.             *)
LEMMA BestSteps ==
  ASSUME NEW u \in Seq(Cells), Len(u) >= 1
  PROVE  \E best \in [0 .. Len(u) -> 1 .. Len(u)] :
           /\ best[0] = FirstLeast(u)
           /\ \A i \in 1 .. Len(u) : best[i] = BestStep(u, i, best[i - 1])
           /\ SqlBestStart(u) = best[Len(u)]
<1> DEFINE n == Len(u)
           first == FirstLeast(u)
           S == 1 .. n
           step == [i \in 1 .. n |-> [k \in S |-> BestStep(u, i, k)]]
           h == CHOOSE best : best =
                  [i \in 0 .. n |->
                    IF i <= first THEN first
                    ELSE IF u[i] = u[first] /\ LexLess(From(u, i), From(u, best[i - 1])) THEN i
                         ELSE best[i - 1]]
<1>1. n \in Nat /\ n >= 1 /\ first \in 1 .. n
  BY FirstLeastIs DEF Starts
<1>2. step \in [1 .. n -> [S -> S]]
  <2>1. ASSUME NEW i \in 1 .. n, NEW k \in S PROVE BestStep(u, i, k) \in S
    BY <1>1 DEF BestStep
  <2> QED BY <2>1
<1>3. PICK g \in [0 .. n -> S] : g[0] = first /\ \A i \in 1 .. n : g[i] = step[i][g[i - 1]]
  <2>1. n \in Nat /\ first \in S /\ step \in [1 .. n -> [S -> S]]
    BY <1>1, <1>2
  <2>2. \E g : IsLoop(g, S, first, n, step)
    <3> HIDE DEF step, n, S, first
    <3> QED BY <2>1, Iterate
  <2> QED BY <2>2 DEF IsLoop
<1>4. \A i \in 1 .. n : g[i] = BestStep(u, i, g[i - 1])
  <2> SUFFICES ASSUME NEW i \in 1 .. n PROVE g[i] = BestStep(u, i, g[i - 1])
    OBVIOUS
  <2>1. g[i - 1] \in S
    BY <1>1
  <2> QED BY <1>3, <2>1
<1>5. g = [i \in 0 .. n |->
            IF i <= first THEN first
            ELSE IF u[i] = u[first] /\ LexLess(From(u, i), From(u, g[i - 1])) THEN i
                 ELSE g[i - 1]]
  <2>1. \A i \in 0 .. n : i = 0 \/ i \in 1 .. n
    BY <1>1
  <2>2. ASSUME NEW i \in 0 .. n
        PROVE  g[i] = IF i <= first THEN first
                      ELSE IF u[i] = u[first] /\ LexLess(From(u, i), From(u, g[i - 1])) THEN i
                           ELSE g[i - 1]
    BY <1>1, <1>3, <1>4, <2>1 DEF BestStep
  <2> HIDE DEF n, S, first
  <2> QED BY <2>2
<1>6. h = [i \in 0 .. n |->
            IF i <= first THEN first
            ELSE IF u[i] = u[first] /\ LexLess(From(u, i), From(u, h[i - 1])) THEN i
                 ELSE h[i - 1]]
  <2> HIDE DEF n, first
  <2> QED BY <1>5
<1>7. SqlBestStart(u) = h[n]
  BY DEF SqlBestStart, From
<1> HIDE DEF h, n, first
<1>8. h[0] = first /\ \A i \in 1 .. n : h[i] = BestStep(u, i, h[i - 1])
  <2>1. 0 \in 0 .. n /\ 0 <= first /\ \A i \in 1 .. n : i \in 0 .. n
    BY <1>1
  <2> QED BY <1>6, <2>1 DEF BestStep, first
<1>9. InStep(g, h, n)
  BY <1>3, <1>4, <1>8 DEF InStep
<1>10. \A i \in 0 .. n : g[i] = h[i]
  <2>1. n \in Nat
    BY <1>1
  <2> HIDE DEF S, step
  <2> QED BY <1>9, <2>1, SameIterate
<1>11. SqlBestStart(u) = g[n]
  BY <1>1, <1>7, <1>10
<1> QED BY <1>3, <1>4, <1>11 DEF n, first, S

(* And so does the loop of the SQL recipe.                                 *)
LEMMA SqlBestStartIsLeast ==
  ASSUME NEW u \in Seq(Cells), Len(u) >= 1
  PROVE  SqlBestStart(u) \in 1 .. Len(u) /\ IsLeastRotation(RotateTo(u, SqlBestStart(u)), u)
<1> DEFINE n == Len(u)
           first == FirstLeast(u)
<1>1. PICK g \in [0 .. n -> 1 .. n] :
        /\ g[0] = first
        /\ \A i \in 1 .. n : g[i] = BestStep(u, i, g[i - 1])
        /\ SqlBestStart(u) = g[n]
  BY BestSteps
<1>2. n \in Nat /\ n >= 1 /\ first \in Starts(u) /\ first \in 1 .. n
      /\ \A i \in Starts(u) : first <= i /\ i \in 1 .. n
  BY FirstLeastIs DEF Starts
<1>3. \A i \in 1 .. n : i \in Starts(u) <=> u[i] = u[first]
  BY <1>2 DEF Starts
<1>4. \A i \in 1 .. n : From(u, i) \in Seq(Int)
  BY FromIsSeq
<1> DEFINE Good(i) == g[i] \in Starts(u)
                      /\ \A k \in Starts(u) : k <= i => ~LexLess(From(u, k), From(u, g[i]))
           T == {i \in 0 .. n : Good(i)}
<1> HIDE DEF n, first
<1>5. 0 \in T
  BY <1>1, <1>2
<1>6. ASSUME NEW i \in 1 .. n, i - 1 \in T PROVE i \in T
  <2>1. i - 1 \in 0 .. n /\ i \in 0 .. n /\ Good(i - 1) /\ g[i] = BestStep(u, i, g[i - 1])
    BY <1>1, <1>6
  <2>2. \A k \in Starts(u) : k \in 1 .. n /\ (k <= i => k <= i - 1 \/ k = i)
    BY <1>2
  <2>3. CASE i <= first
    <3>1. g[i] = first
      BY <2>1, <2>3 DEF BestStep, first
    <3>2. \A k \in Starts(u) : k <= i => k = first
      BY <1>2, <2>3
    <3>3. ~LexLess(From(u, first), From(u, first))
      BY <1>2, <1>4, LexIrreflexive
    <3> QED BY <1>2, <2>1, <3>1, <3>2, <3>3
  <2>4. CASE ~(i <= first) /\ u[i] = u[first] /\ LexLess(From(u, i), From(u, g[i - 1]))
    <3>1. g[i] = i
      BY <2>1, <2>4 DEF BestStep, first
    <3>2. i \in Starts(u)
      BY <1>3, <2>4
    <3>3. g[i - 1] \in 1 .. n
      BY <2>1, <2>2
    <3>4. ASSUME NEW k \in Starts(u), k <= i PROVE ~LexLess(From(u, k), From(u, i))
      <4>1. CASE k = i
        BY <4>1, <1>4, LexIrreflexive
      <4>2. CASE k <= i - 1
        <5>1. ~LexLess(From(u, k), From(u, g[i - 1]))
          BY <2>1, <4>2
        <5>2. From(u, k) \in Seq(Int) /\ From(u, i) \in Seq(Int) /\ From(u, g[i - 1]) \in Seq(Int)
          BY <1>4, <2>2, <3>3
        <5> QED BY <2>4, <5>1, <5>2, LexTransitive
      <4> QED BY <2>2, <3>4, <4>1, <4>2
    <3> QED BY <2>1, <3>1, <3>2, <3>4
  <2>5. CASE ~(i <= first) /\ u[i] = u[first] /\ ~LexLess(From(u, i), From(u, g[i - 1]))
    <3>1. g[i] = g[i - 1]
      BY <2>1, <2>5 DEF BestStep, first
    <3> QED BY <2>1, <2>2, <2>5, <3>1
  <2>6. CASE ~(i <= first) /\ u[i] # u[first]
    <3>1. g[i] = g[i - 1]
      BY <2>1, <2>6 DEF BestStep, first
    <3>2. i \notin Starts(u)
      BY <1>3, <2>6
    <3> QED BY <2>1, <2>2, <3>1, <3>2
  <2> QED BY <2>3, <2>4, <2>5, <2>6
<1>7. \A i \in 1 .. n : i - 1 \in T => i \in T
  BY <1>6
<1>8. \A i \in 0 .. n : i \in T
  <2> HIDE DEF T
  <2> QED BY <1>2, <1>5, <1>7, UpTo
<1>9. Good(n)
  BY <1>2, <1>8
<1>10. \A k \in Starts(u) : ~LexLess(From(u, k), From(u, g[n]))
  BY <1>2, <1>9
<1> QED BY <1>1, <1>2, <1>9, <1>10 DEF IsLeastRotation, n

(* Both recipes start the ring at one vertex.                              *)
LEMMA SameLeastRotation ==
  ASSUME NEW u \in Seq(Cells), Len(u) >= 1
  PROVE  RotateTo(u, SqlBestStart(u)) = LeastRotation(u)
BY LeastRotationIsLeast, SqlBestStartIsLeast, OneLeastRotation

(***************************************************************************)
(* A ring, from the vertices it is listed with to its canonical bytes      *)
(***************************************************************************)

(* Both recipes round a position to one cell, ties included.               *)
LEMMA QuantizeIsCell ==
  ASSUME NEW p \in Int \X Int
  PROVE  Quantize(p) \in Cells /\ SqlQuantize(p) = Quantize(p)
<1>1. \A c \in Int : HalfEven(c) \in Int
  BY DEF HalfEven
<1> QED BY <1>1 DEF Quantize, SqlQuantize, Cells

(* The vertices of a ring on the lattice.                                  *)
Lattice(ring) == [i \in DOMAIN ring |-> Quantize(ring[i])]

(* The cells of the listed vertices.                                       *)
LEMMA LatticeProperties ==
  ASSUME NEW ring \in Seq(Int \X Int)
  PROVE  /\ Lattice(ring) \in Seq(Cells)
         /\ Len(Lattice(ring)) = Len(ring)
         /\ \A i \in 1 .. Len(ring) : Lattice(ring)[i] = Quantize(ring[i])
         /\ Lattice(ring) = [i \in DOMAIN ring |-> SqlQuantize(ring[i])]
<1>1. DOMAIN ring = 1 .. Len(ring) /\ Len(ring) \in Nat
  OBVIOUS
<1>2. \A i \in 1 .. Len(ring) :
        Quantize(ring[i]) \in Cells /\ SqlQuantize(ring[i]) = Quantize(ring[i])
  BY ElementOfSeq, QuantizeIsCell
<1>3. Lattice(ring) = [i \in 1 .. Len(ring) |-> Quantize(ring[i])]
  BY <1>1 DEF Lattice
<1>4. Lattice(ring) = [i \in 1 .. Len(ring) |-> SqlQuantize(ring[i])]
  BY <1>2, <1>3
<1>5. Lattice(ring) \in Seq(Cells) /\ Len(Lattice(ring)) = Len(ring)
  BY <1>1, <1>2, <1>3
<1> QED BY <1>1, <1>3, <1>4, <1>5

(* Wrap-around: what repeats the first vertex at the end goes.             *)
LEMMA TrimIs ==
  ASSUME NEW P, NEW k \in Seq(P), Len(k) >= 1
  PROVE  \E m \in 1 .. Len(k) :
           /\ Trim(k) = SubSeq(k, 1, m)
           /\ m = 1 \/ k[m] # k[1]
           /\ \A j \in m + 1 .. Len(k) : k[j] = k[1]
<1> DEFINE ends == {i \in DOMAIN k : i = 1 \/ k[i] # k[1]}
           T == {Len(k) - i : i \in ends}
           Last1(i) == \A j \in ends : j <= i
<1>1. Len(k) \in Nat /\ DOMAIN k = 1 .. Len(k)
  OBVIOUS
<1>2. ends \subseteq 1 .. Len(k) /\ 1 \in ends
  BY <1>1
<1>3. T \subseteq Nat /\ T # {}
  BY <1>1, <1>2
<1>4. PICK x \in T : \A y \in T : x <= y
  <2> HIDE DEF T
  <2> QED BY <1>3, NatLeast
<1>5. PICK i \in ends : x = Len(k) - i
  OBVIOUS
<1>6. Last1(i)
  <2> SUFFICES ASSUME NEW j \in ends PROVE j <= i
    OBVIOUS
  <2>1. Len(k) - j \in T
    OBVIOUS
  <2>2. Len(k) - i <= Len(k) - j
    BY <1>4, <1>5, <2>1
  <2> QED BY <1>1, <1>2, <2>2
<1> DEFINE m == CHOOSE e \in ends : Last1(e)
<1>7. m \in ends /\ Last1(m)
  <2> HIDE DEF ends, Last1
  <2> QED BY <1>6
<1>8. Trim(k) = SubSeq(k, 1, m)
  BY DEF Trim
<1> HIDE DEF m
<1>9. m \in 1 .. Len(k) /\ (m = 1 \/ k[m] # k[1])
  BY <1>2, <1>7
<1>10. ASSUME NEW j \in m + 1 .. Len(k) PROVE k[j] = k[1]
  <2>1. j \in 1 .. Len(k) /\ ~(j <= m)
    BY <1>1, <1>9
  <2>2. j \notin ends
    BY <1>7, <2>1
  <2> QED BY <1>1, <2>1, <2>2
<1> QED BY <1>8, <1>9, <1>10

LEMMA TrimIsSeq ==
  ASSUME NEW P, NEW k \in Seq(P), Len(k) >= 1
  PROVE  Trim(k) \in Seq(P) /\ Len(Trim(k)) >= 1
<1>1. PICK m \in 1 .. Len(k) : Trim(k) = SubSeq(k, 1, m)
  BY TrimIs
<1>2. \A i \in 1 .. m : k[i] \in P
  BY ElementOfSeq
<1> QED BY <1>1, <1>2, SubSeqProperties

LEMMA ReverseProperties ==
  ASSUME NEW P, NEW s \in Seq(P)
  PROVE  /\ Reverse(s) \in Seq(P)
         /\ Len(Reverse(s)) = Len(s)
         /\ \A i \in 1 .. Len(s) : Reverse(s)[i] = s[Len(s) - i + 1]
<1>1. Len(s) \in Nat /\ \A i \in 1 .. Len(s) : Len(s) - i + 1 \in 1 .. Len(s)
  OBVIOUS
<1>2. \A i \in 1 .. Len(s) : s[Len(s) - i + 1] \in P
  BY <1>1, ElementOfSeq
<1> QED BY <1>1, <1>2 DEF Reverse

(* The vertices that are left of a ring.                                   *)
Kept(ring) == Trim(LagDistinct(Lattice(ring)))

LEMMA KeptIsSeq ==
  ASSUME NEW ring \in Seq(Int \X Int), Len(ring) >= 1
  PROVE  Kept(ring) \in Seq(Cells) /\ Len(Kept(ring)) >= 1
<1>1. Lattice(ring) \in Seq(Cells) /\ Len(Lattice(ring)) >= 1
  BY LatticeProperties
<1>2. PICK f : Traces(f, Lattice(ring), LagDistinct(Lattice(ring)))
  BY <1>1, LagTraced
<1>3. LagDistinct(Lattice(ring)) \in Seq(Cells)
  BY <1>1, LagTraced
<1>4. Len(LagDistinct(Lattice(ring))) >= 1
  <2>1. 1 \in 1 .. Len(Lattice(ring))
    BY <1>1
  <2>2. f[1] \in 1 .. Len(LagDistinct(Lattice(ring)))
    BY <1>2, <2>1 DEF Traces
  <2> QED BY <1>3, <2>2
<1> QED BY <1>3, <1>4, TrimIsSeq DEF Kept

Canonical(t) ==
  IF Len(t) < 3 \/ Shoelace(t) = 0
  THEN Degenerate
  ELSE RingBytes(LeastRotation(IF Shoelace(t) < 0 THEN Reverse(t) ELSE t))

(* The ring of the Python recipe: its area decides the direction.          *)
LEMMA CanonRingIs ==
  ASSUME NEW ring \in Seq(Int \X Int), Len(ring) >= 1
  PROVE  CanonRing(ring) = Canonical(Kept(ring))
<1>1. Lattice(ring) \in Seq(Cells)
  BY LatticeProperties
<1>2. Trim(Forward(Lattice(ring))) = Kept(ring)
  BY <1>1, ForwardIsLag DEF Kept
<1> QED BY <1>2 DEF CanonRing, Canonical, Lattice

(* The ring of the SQL recipe.                                             *)
LEMMA SqlCanonRingIs ==
  ASSUME NEW ring \in Seq(Int \X Int), Len(ring) >= 1
  PROVE  SqlCanonRing(ring) = Canonical(Kept(ring))
<1> DEFINE t == Kept(ring)
           ccw == IF Shoelace(t) < 0 THEN Reverse(t) ELSE t
<1>1. Trim(LagDistinct([i \in DOMAIN ring |-> SqlQuantize(ring[i])])) = t
  BY LatticeProperties DEF Kept
<1>2. SqlCanonRing(ring) =
        IF Len(t) < 3 \/ Shoelace(t) = 0 THEN Degenerate
        ELSE RingBytes(RotateTo(ccw, SqlBestStart(ccw)))
  BY <1>1 DEF SqlCanonRing
<1>3. t \in Seq(Cells) /\ Len(t) >= 1
  BY KeptIsSeq
<1>4. ccw \in Seq(Cells) /\ Len(ccw) >= 1
  BY <1>3, ReverseProperties
<1>5. RotateTo(ccw, SqlBestStart(ccw)) = LeastRotation(ccw)
  <2> HIDE DEF ccw
  <2> QED BY <1>4, SameLeastRotation
<1> QED BY <1>2, <1>5 DEF Canonical

(* The recipes agree on every ring, the degenerate ones included.          *)
LEMMA TwinRings ==
  ASSUME NEW ring \in Seq(Int \X Int), Len(ring) >= 1
  PROVE  CanonRing(ring) = SqlCanonRing(ring)
BY CanonRingIs, SqlCanonRingIs

(***************************************************************************)
(* Orders                                                                  *)
(***************************************************************************)

(* A bijection of a set: each member is the image of one.                  *)
LEMMA BijectionIs ==
  ASSUME NEW S, NEW p
  PROVE  p \in Bijection(S, S) <=> /\ p \in [S -> S]
                                   /\ \A i, j \in S : p[i] = p[j] => i = j
                                   /\ \A k \in S : \E i \in S : p[i] = k
BY DEF Bijection, Injection, Surjection, IsInjective

LEMMA BijectionsCompose ==
  ASSUME NEW S, NEW p \in Bijection(S, S), NEW r \in Bijection(S, S)
  PROVE  [i \in S |-> p[r[i]]] \in Bijection(S, S)
<1> DEFINE c == [i \in S |-> p[r[i]]]
<1>1. p \in [S -> S] /\ (\A i, j \in S : p[i] = p[j] => i = j) /\ \A k \in S : \E i \in S : p[i] = k
  BY BijectionIs
<1>2. r \in [S -> S] /\ (\A i, j \in S : r[i] = r[j] => i = j) /\ \A k \in S : \E i \in S : r[i] = k
  BY BijectionIs
<1>3. c \in [S -> S] /\ \A i, j \in S : c[i] = c[j] => i = j
  BY <1>1, <1>2
<1>4. ASSUME NEW k \in S PROVE \E i \in S : c[i] = k
  <2>1. PICK m \in S : p[m] = k
    BY <1>1
  <2>2. PICK i \in S : r[i] = m
    BY <1>2
  <2>3. c[i] = k
    BY <2>1, <2>2
  <2> QED BY <2>3
<1> HIDE DEF c
<1> QED BY <1>3, <1>4, BijectionIs DEF c

LEMMA BijectionInverse ==
  ASSUME NEW S, NEW p \in Bijection(S, S)
  PROVE  \E r \in Bijection(S, S) : \A i \in S : p[r[i]] = i /\ r[p[i]] = i
<1> DEFINE r == [k \in S |-> CHOOSE i \in S : p[i] = k]
<1>1. p \in [S -> S] /\ (\A i, j \in S : p[i] = p[j] => i = j) /\ \A k \in S : \E i \in S : p[i] = k
  BY BijectionIs
<1>2. ASSUME NEW k \in S PROVE r[k] \in S /\ p[r[k]] = k
  BY <1>1
<1>3. r \in [S -> S]
  BY <1>2
<1> HIDE DEF r
<1>4. \A i, j \in S : r[i] = r[j] => i = j
  BY <1>2
<1>5. \A i \in S : r[p[i]] = i
  BY <1>1, <1>2
<1>6. \A k \in S : \E i \in S : r[i] = k
  BY <1>1, <1>5
<1>7. r \in Bijection(S, S)
  BY <1>3, <1>4, <1>6, BijectionIs
<1> QED BY <1>2, <1>5, <1>7

LEMMA NoMove ==
  ASSUME NEW S
  PROVE  [i \in S |-> i] \in Bijection(S, S)
<1> DEFINE p == [i \in S |-> i]
<1>1. p \in [S -> S] /\ (\A i, j \in S : p[i] = p[j] => i = j) /\ \A k \in S : \E i \in S : p[i] = k
  OBVIOUS
<1> HIDE DEF p
<1> QED BY <1>1, BijectionIs DEF p

Sorted(a, p, n) == \A i, j \in 1 .. n : i < j => ~LexLess(a[p[j]], a[p[i]])

(* One more member finds its place among those in order.                   *)
LEMMA Insert ==
  ASSUME NEW n \in Nat, NEW a, \A i \in 1 .. n + 1 : a[i] \in Seq(Int),
         NEW p \in Bijection(1 .. n, 1 .. n), Sorted(a, p, n)
  PROVE  \E r \in Bijection(1 .. n + 1, 1 .. n + 1) : Sorted(a, r, n + 1)
<1> DEFINE new == a[n + 1]
           T == {i \in 1 .. n + 1 : i = n + 1 \/ LexLess(new, a[p[i]])}
<1>1. /\ p \in [1 .. n -> 1 .. n]
      /\ \A i, j \in 1 .. n : p[i] = p[j] => i = j
      /\ \A k \in 1 .. n : \E i \in 1 .. n : p[i] = k
  BY BijectionIs
<1>2. PICK e \in T : \A y \in T : e <= y
  <2>1. n + 1 \in T /\ T \subseteq Nat
    OBVIOUS
  <2>2. T # {}
    BY <2>1
  <2> HIDE DEF T
  <2> QED BY <2>1, <2>2, NatLeast
<1>3. e \in 1 .. n + 1 /\ (e <= n => LexLess(new, a[p[e]]))
  OBVIOUS
<1>4. \A i \in 1 .. n : i < e => ~LexLess(new, a[p[i]])
  BY <1>2
<1> HIDE DEF T
<1> DEFINE r == [i \in 1 .. n + 1 |-> IF i < e THEN p[i] ELSE IF i = e THEN n + 1 ELSE p[i - 1]]
<1>5. ASSUME NEW i \in 1 .. n + 1
      PROVE  /\ i < e => i \in 1 .. n /\ r[i] = p[i] /\ p[i] \in 1 .. n
             /\ i = e => r[i] = n + 1
             /\ e < i => i - 1 \in 1 .. n /\ r[i] = p[i - 1] /\ p[i - 1] \in 1 .. n
  <2>1. i < e => i \in 1 .. n
    BY <1>3
  <2>2. e < i => i - 1 \in 1 .. n /\ ~(i < e) /\ i # e
    BY <1>3
  <2>3. i = e => ~(i < e)
    BY <1>3
  <2>4. r[i] = IF i < e THEN p[i] ELSE IF i = e THEN n + 1 ELSE p[i - 1]
    OBVIOUS
  <2> HIDE DEF r
  <2> QED BY <1>1, <2>1, <2>2, <2>3, <2>4
<1>6. r \in [1 .. n + 1 -> 1 .. n + 1]
  <2>1. ASSUME NEW i \in 1 .. n + 1 PROVE r[i] \in 1 .. n + 1
    BY <1>3, <1>5
  <2> QED BY <2>1
<1> HIDE DEF r
<1>7. ASSUME NEW i \in 1 .. n + 1, NEW j \in 1 .. n + 1, r[i] = r[j] PROVE i = j
  <2>1. CASE i < e
    <3>1. j # e
      BY <1>5, <1>7, <2>1
    <3>2. CASE j < e
      BY <1>1, <1>5, <1>7, <2>1, <3>2
    <3>3. CASE e < j
      <4>1. i = j - 1
        BY <1>1, <1>5, <1>7, <2>1, <3>3
      <4> QED BY <1>3, <2>1, <3>3, <4>1
    <3> QED BY <1>3, <3>1, <3>2, <3>3
  <2>2. CASE i = e
    <3>1. ~(j < e) /\ ~(e < j)
      BY <1>5, <1>7, <2>2
    <3> QED BY <1>3, <2>2, <3>1
  <2>3. CASE e < i
    <3>1. j # e
      BY <1>5, <1>7, <2>3
    <3>2. CASE j < e
      <4>1. j = i - 1
        BY <1>1, <1>5, <1>7, <2>3, <3>2
      <4> QED BY <1>3, <2>3, <3>2, <4>1
    <3>3. CASE e < j
      <4>1. i - 1 = j - 1
        BY <1>1, <1>5, <1>7, <2>3, <3>3
      <4> QED BY <4>1
    <3> QED BY <1>3, <3>1, <3>2, <3>3
  <2> QED BY <1>3, <2>1, <2>2, <2>3
<1>8. ASSUME NEW k \in 1 .. n + 1 PROVE \E i \in 1 .. n + 1 : r[i] = k
  <2>1. CASE k = n + 1
    BY <1>3, <1>5, <2>1
  <2>2. CASE k # n + 1
    <3>1. PICK i \in 1 .. n : p[i] = k
      BY <1>1, <2>2
    <3>2. CASE i < e
      BY <1>5, <3>1, <3>2
    <3>3. CASE ~(i < e)
      <4>1. i + 1 \in 1 .. n + 1 /\ e < i + 1 /\ (i + 1) - 1 = i
        BY <1>3, <3>3
      <4>2. r[i + 1] = p[(i + 1) - 1]
        BY <1>5, <4>1
      <4> QED BY <3>1, <4>1, <4>2
    <3> QED BY <3>2, <3>3
  <2> QED BY <2>1, <2>2
<1>9. r \in Bijection(1 .. n + 1, 1 .. n + 1)
  BY <1>6, <1>7, <1>8, BijectionIs
<1>10. ASSUME NEW i \in 1 .. n + 1, NEW j \in 1 .. n + 1, i < j
       PROVE  ~LexLess(a[r[j]], a[r[i]])
  <2>1. CASE j < e
    <3>1. i < e
      BY <1>3, <1>10, <2>1
    <3> QED BY <1>5, <1>10, <2>1, <3>1 DEF Sorted
  <2>2. CASE j = e
    <3>1. i < e
      BY <1>10, <2>2
    <3> QED BY <1>4, <1>5, <2>2, <3>1
  <2>3. CASE e < j /\ i < e
    <3>1. i \in 1 .. n /\ j - 1 \in 1 .. n /\ i < j - 1 /\ r[i] = p[i] /\ r[j] = p[j - 1]
      BY <1>3, <1>5, <2>3
    <3> QED BY <3>1 DEF Sorted
  <2>4. CASE e < j /\ i = e
    <3>1. r[i] = n + 1 /\ r[j] = p[j - 1] /\ j - 1 \in 1 .. n /\ p[j - 1] \in 1 .. n
      BY <1>5, <2>4
    <3>2. e \in 1 .. n /\ e <= j - 1 /\ LexLess(new, a[p[e]]) /\ p[e] \in 1 .. n
      <4>1. e \in 1 .. n /\ e <= j - 1
        BY <1>3, <2>4, <3>1
      <4> HIDE DEF new
      <4> QED BY <1>1, <1>3, <4>1
    <3>3. ~LexLess(a[p[j - 1]], a[p[e]])
      <4>1. CASE e = j - 1
        BY <3>2, <4>1, LexIrreflexive
      <4>2. CASE e # j - 1
        <5>1. e < j - 1
          BY <3>1, <3>2, <4>2
        <5> QED BY <3>1, <3>2, <5>1 DEF Sorted
      <4> QED BY <4>1, <4>2
    <3>4. a[p[j - 1]] \in Seq(Int) /\ a[p[e]] \in Seq(Int) /\ new \in Seq(Int)
      BY <3>1, <3>2
    <3>5. ~LexLess(a[p[j - 1]], new)
      <4> HIDE DEF new
      <4> QED BY <3>2, <3>3, <3>4, LexTransitive
    <3> QED BY <3>1, <3>5
  <2>5. CASE e < j /\ e < i
    <3>1. i - 1 \in 1 .. n /\ j - 1 \in 1 .. n /\ i - 1 < j - 1 /\ r[i] = p[i - 1]
          /\ r[j] = p[j - 1]
      BY <1>3, <1>5, <1>10, <2>5
    <3> QED BY <3>1 DEF Sorted
  <2> QED BY <1>3, <2>1, <2>2, <2>3, <2>4, <2>5
<1>11. Sorted(a, r, n + 1)
  BY <1>10 DEF Sorted
<1> QED BY <1>9, <1>11

(* Whatever has n members can be put in order.                             *)
LEMMA SortExists ==
  ASSUME NEW n \in Nat, NEW a, \A i \in 1 .. n : a[i] \in Seq(Int)
  PROVE  \E p \in Bijection(1 .. n, 1 .. n) : Sorted(a, p, n)
<1> DEFINE T == {m \in 0 .. n : \E p \in Bijection(1 .. m, 1 .. m) : Sorted(a, p, m)}
<1>1. 0 \in T
  <2>1. [i \in 1 .. 0 |-> i] \in Bijection(1 .. 0, 1 .. 0)
    BY NoMove
  <2>2. Sorted(a, [i \in 1 .. 0 |-> i], 0)
    BY DEF Sorted
  <2> QED BY <2>1, <2>2
<1>2. ASSUME NEW m \in 1 .. n, m - 1 \in T PROVE m \in T
  <2>1. m - 1 \in Nat /\ (m - 1) + 1 = m /\ \A i \in 1 .. m : a[i] \in Seq(Int)
    OBVIOUS
  <2>2. PICK p \in Bijection(1 .. m - 1, 1 .. m - 1) : Sorted(a, p, m - 1)
    BY <1>2
  <2>3. \E r \in Bijection(1 .. (m - 1) + 1, 1 .. (m - 1) + 1) : Sorted(a, r, (m - 1) + 1)
    BY <2>1, <2>2, Insert
  <2> QED BY <2>1, <2>3
<1>3. \A m \in 1 .. n : m - 1 \in T => m \in T
  BY <1>2
<1>4. n \in T
  <2>1. \A m \in 0 .. n : m \in T
    <3> HIDE DEF T
    <3> QED BY <1>1, <1>3, UpTo
  <2> QED BY <2>1
<1> QED BY <1>4

(* A sort lists the members it was given.                                  *)
LEMMA SortLexOrders ==
  ASSUME NEW n \in Nat, NEW a, DOMAIN a = 1 .. n, \A i \in 1 .. n : a[i] \in Seq(Int)
  PROVE  \E p \in Bijection(1 .. n, 1 .. n) : SortLex(a) = [i \in 1 .. n |-> a[p[i]]]
<1> DEFINE InOrder(s) == \A i, j \in 1 .. n : i < j => ~LexLess(s[j], s[i])
           C == {[i \in 1 .. n |-> a[p[i]]] : p \in Bijection(1 .. n, 1 .. n)}
<1>1. PICK p \in Bijection(1 .. n, 1 .. n) : Sorted(a, p, n)
  BY SortExists
<1> DEFINE s == [i \in 1 .. n |-> a[p[i]]]
<1>2. s \in C
  OBVIOUS
<1>3. InOrder(s)
  <2>1. \A i \in 1 .. n : s[i] = a[p[i]]
    OBVIOUS
  <2> HIDE DEF s
  <2> QED BY <1>1, <2>1 DEF Sorted
<1> DEFINE m == CHOOSE t \in C : InOrder(t)
<1>4. m \in C
  <2> HIDE DEF C, InOrder, s
  <2> QED BY <1>2, <1>3
<1>5. SortLex(a) = m
  BY DEF SortLex, Permuted
<1> HIDE DEF m
<1> QED BY <1>4, <1>5

(* It does not matter in which order it was given them.                    *)
LEMMA SortLexPermuted ==
  ASSUME NEW S, NEW a, DOMAIN a = S, NEW p \in Bijection(S, S),
         NEW b, b = [i \in S |-> a[p[i]]]
  PROVE  SortLex(b) = SortLex(a)
<1>1. DOMAIN b = S
  OBVIOUS
<1>2. PICK r \in Bijection(S, S) : \A i \in S : p[r[i]] = i /\ r[p[i]] = i
  BY BijectionInverse
<1>3. ASSUME NEW s \in Permuted(b) PROVE s \in Permuted(a)
  <2>1. PICK o \in Bijection(S, S) : s = [i \in S |-> b[o[i]]]
    BY <1>1 DEF Permuted
  <2> DEFINE c == [i \in S |-> p[o[i]]]
  <2>2. c \in Bijection(S, S)
    BY BijectionsCompose
  <2>3. \A i \in S : o[i] \in S
    BY BijectionIs
  <2>4. s = [i \in S |-> a[c[i]]]
    BY <2>1, <2>3
  <2> HIDE DEF c
  <2> QED BY <2>2, <2>4 DEF Permuted
<1>4. ASSUME NEW s \in Permuted(a) PROVE s \in Permuted(b)
  <2>1. PICK o \in Bijection(S, S) : s = [i \in S |-> a[o[i]]]
    BY DEF Permuted
  <2> DEFINE c == [i \in S |-> r[o[i]]]
  <2>2. c \in Bijection(S, S)
    BY BijectionsCompose
  <2>3. \A i \in S : o[i] \in S /\ r[o[i]] \in S /\ c[i] = r[o[i]]
    <3>1. o \in [S -> S] /\ r \in [S -> S]
      BY BijectionIs
    <3> QED BY <3>1
  <2>4. \A i \in S : b[c[i]] = a[o[i]]
    BY <1>2, <2>3
  <2>5. s = [i \in S |-> b[c[i]]]
    BY <2>1, <2>4
  <2> HIDE DEF c
  <2> QED BY <1>1, <2>2, <2>5 DEF Permuted
<1>5. Permuted(a) = Permuted(b)
  BY <1>3, <1>4
<1> QED BY <1>1, <1>5 DEF SortLex

LEMMA SwapIsBijection ==
  ASSUME NEW S, NEW i \in S, NEW j \in S
  PROVE  [k \in S |-> IF k = i THEN j ELSE IF k = j THEN i ELSE k] \in Bijection(S, S)
<1> DEFINE p == [k \in S |-> IF k = i THEN j ELSE IF k = j THEN i ELSE k]
<1>1. p \in [S -> S] /\ \A k, m \in S : p[k] = p[m] => k = m
  OBVIOUS
<1>2. \A k \in S : p[p[k]] = k /\ p[k] \in S
  OBVIOUS
<1> HIDE DEF p
<1>3. \A k \in S : \E m \in S : p[m] = k
  BY <1>2
<1> QED BY <1>1, <1>3, BijectionIs DEF p

(* Two members that swap places permute the sequence.                      *)
LEMMA SwappedIs ==
  ASSUME NEW P, NEW s \in Seq(P), NEW from \in {1, 2}, NEW t \in Swapped(s, from)
  PROVE  /\ t \in Seq(P)
         /\ Len(t) = Len(s)
         /\ \E p \in Bijection(1 .. Len(s), 1 .. Len(s)) :
              /\ t = [k \in 1 .. Len(s) |-> s[p[k]]]
              /\ \A k \in 1 .. Len(s) : k < from => p[k] = k
<1>1. PICK i \in from .. Len(s), j \in from .. Len(s) : t = [s EXCEPT ![i] = s[j], ![j] = s[i]]
  BY DEF Swapped
<1> DEFINE S == 1 .. Len(s)
           p == [k \in S |-> IF k = i THEN j ELSE IF k = j THEN i ELSE k]
<1>2. Len(s) \in Nat /\ DOMAIN s = S /\ i \in S /\ j \in S /\ \A k \in S : s[k] \in P
  BY ElementOfSeq
<1>3. p \in Bijection(S, S)
  <2> HIDE DEF S
  <2> QED BY <1>2, SwapIsBijection
<1>4. \A k \in S : p[k] \in S /\ (k < from => p[k] = k)
  <2>1. \A k \in S : k < from => k # i /\ k # j
    BY <1>2
  <2> QED BY <1>2, <2>1
<1>5. DOMAIN t = S /\ \A k \in S : t[k] = s[p[k]]
  BY <1>1, <1>2
<1>6. t = [k \in S |-> t[k]]
  BY <1>1, <1>2
<1>7. t = [k \in S |-> s[p[k]]]
  <2> HIDE DEF p, S
  <2> QED BY <1>5, <1>6
<1>8. t \in Seq(P) /\ Len(t) = Len(s)
  <2>1. \A k \in S : s[p[k]] \in P
    BY <1>2, <1>4
  <2> HIDE DEF p
  <2> QED BY <1>2, <1>7, <2>1
<1> HIDE DEF p
<1> QED BY <1>3, <1>4, <1>7, <1>8

(* Nor does the order of the parts matter to their bytes.                  *)
LEMMA AssemblePermuted ==
  ASSUME NEW S, NEW a, DOMAIN a = S, NEW p \in Bijection(S, S),
         NEW b, b = [i \in S |-> a[p[i]]], NEW head
  PROVE  Assemble(head, b) = Assemble(head, a)
<1>1. SortLex(b) = SortLex(a)
  BY SortLexPermuted
<1>2. ToSet(b) = ToSet(a)
  <2>1. (\A i \in S : p[i] \in S) /\ \A k \in S : \E i \in S : p[i] = k
    BY BijectionIs
  <2>2. ToSet(b) = {b[i] : i \in S} /\ ToSet(a) = {a[i] : i \in S}
    BY DEF ToSet
  <2>3. \A i \in S : b[i] = a[p[i]]
    OBVIOUS
  <2> QED BY <2>1, <2>2, <2>3
<1> QED BY <1>1, <1>2 DEF Assemble

(***************************************************************************)
(* A closed ring listed another way                                        *)
(***************************************************************************)

(* A walk never goes back.                                                 *)
LEMMA TracesClimb ==
  ASSUME NEW f, NEW q, NEW k, Len(q) \in Nat, Len(k) \in Nat, Traces(f, q, k)
  PROVE  \A i, j \in 1 .. Len(q) : i <= j => f[i] <= f[j]
<1> SUFFICES ASSUME NEW i \in 1 .. Len(q) PROVE \A j \in 1 .. Len(q) : i <= j => f[i] <= f[j]
  OBVIOUS
<1> DEFINE n == Len(q)
           T == {j \in 0 .. n : j \in 1 .. n /\ i <= j => f[i] <= f[j]}
<1>1. \A j \in 1 .. n : f[j] \in Nat
  BY DEF Traces
<1>2. n \in Nat /\ 0 \in T
  OBVIOUS
<1>3. ASSUME NEW j \in 1 .. n, j - 1 \in T PROVE j \in T
  <2>1. CASE j <= i
    BY <1>1, <2>1
  <2>2. CASE i < j
    <3>1. j - 1 \in 1 .. n /\ j - 1 \in 1 .. n - 1 /\ i <= j - 1 /\ (j - 1) + 1 = j
      BY <2>2
    <3>2. f[i] <= f[j - 1]
      BY <1>3, <3>1
    <3>3. f[(j - 1) + 1] = f[j - 1] \/ f[(j - 1) + 1] = f[j - 1] + 1
      BY <3>1 DEF Traces
    <3>4. f[i] <= f[j]
      BY <1>1, <3>1, <3>2, <3>3
    <3> QED BY <3>4
  <2> QED BY <2>1, <2>2
<1>4. \A j \in 1 .. n : j - 1 \in T => j \in T
  BY <1>3
<1>5. \A j \in 0 .. n : j \in T
  <2> HIDE DEF T, n
  <2> QED BY <1>2, <1>4, UpTo
<1> QED BY <1>5

(* Wrap-around: of a loop, the last vertex goes, and no other.             *)
LEMMA TrimLoop ==
  ASSUME NEW P, NEW k \in Seq(P), Len(k) >= 3, k[Len(k)] = k[1], k[Len(k) - 1] # k[Len(k)]
  PROVE  Trim(k) = SubSeq(k, 1, Len(k) - 1)
<1>1. PICK m \in 1 .. Len(k) : /\ Trim(k) = SubSeq(k, 1, m)
                               /\ m = 1 \/ k[m] # k[1]
                               /\ \A j \in m + 1 .. Len(k) : k[j] = k[1]
  BY TrimIs
<1>2. Len(k) \in Nat
  OBVIOUS
<1>3. m # Len(k)
  BY <1>1, <1>2
<1>4. ~(m + 1 <= Len(k) - 1)
  BY <1>1, <1>2
<1>5. m = Len(k) - 1
  BY <1>2, <1>3, <1>4
<1> QED BY <1>1, <1>5

IsLoopOf(f, q, k) == Traces(f, q, k) /\ Len(k) >= 3 /\ k[Len(k)] = k[1]

(* What is kept of a ring is its loop without the closing vertex.          *)
LEMMA LoopKept ==
  ASSUME NEW ring \in Seq(Int \X Int), Len(ring) >= 1, NEW k \in Seq(Cells), NEW f,
         IsLoopOf(f, Lattice(ring), k)
  PROVE  Kept(ring) = SubSeq(k, 1, Len(k) - 1)
<1>1. Lattice(ring) \in Seq(Cells) /\ Len(Lattice(ring)) >= 1
  BY LatticeProperties
<1>2. LagDistinct(Lattice(ring)) = k
  BY <1>1, TracedIsLag DEF IsLoopOf
<1>3. k[Len(k) - 1] # k[Len(k)]
  <2>1. Len(k) - 1 \in 1 .. Len(k) - 1 /\ (Len(k) - 1) + 1 = Len(k)
    BY DEF IsLoopOf
  <2>2. \A j \in 1 .. Len(k) - 1 : k[j] # k[j + 1]
    BY DEF IsLoopOf, Traces
  <2>3. k[Len(k) - 1] # k[(Len(k) - 1) + 1]
    BY <2>1, <2>2
  <2> QED BY <2>1, <2>3
<1> QED BY <1>2, <1>3, TrimLoop DEF Kept, IsLoopOf

IsFlat(q) == \A i \in 1 .. Len(q) : q[i] = q[1]

(* Of a ring that stays in one cell, one vertex is kept.                   *)
LEMMA FlatKept ==
  ASSUME NEW ring \in Seq(Int \X Int), Len(ring) >= 1, IsFlat(Lattice(ring))
  PROVE  Len(Kept(ring)) = 1
<1> DEFINE q == Lattice(ring)
           k == <<q[1]>>
           f == [i \in 1 .. Len(q) |-> 1]
<1>1. q \in Seq(Cells) /\ Len(q) >= 1 /\ Len(q) \in Nat
  BY LatticeProperties
<1>2. q[1] \in Cells
  BY <1>1, ElementOfSeq
<1> HIDE DEF q
<1>3. k \in Seq(Cells) /\ Len(k) = 1 /\ k[1] = q[1]
  BY <1>2
<1>4. Traces(f, q, k)
  <2> HIDE DEF k
  <2> QED BY <1>1, <1>3 DEF Traces, IsFlat, q
<1>5. LagDistinct(q) = k
  <2> HIDE DEF k, f
  <2> QED BY <1>1, <1>3, <1>4, TracedIsLag
<1>6. PICK m \in 1 .. Len(k) : Trim(k) = SubSeq(k, 1, m)
  <2>1. Len(k) >= 1 /\ k \in Seq(Cells)
    BY <1>3
  <2> HIDE DEF k
  <2>2. \E m \in 1 .. Len(k) : /\ Trim(k) = SubSeq(k, 1, m)
                               /\ m = 1 \/ k[m] # k[1]
                               /\ \A j \in m + 1 .. Len(k) : k[j] = k[1]
    BY <2>1, TrimIs
  <2> QED BY <2>2
<1>7. Trim(k) = k
  <2> HIDE DEF k
  <2> QED BY <1>3, <1>6, SubSeqFull
<1> QED BY <1>3, <1>5, <1>7 DEF Kept, q

(* A closed ring stays in a cell, or comes back to it.                     *)
LEMMA LoopExists ==
  ASSUME NEW ring \in Seq(Int \X Int), IsClosed(ring), ~IsFlat(Lattice(ring))
  PROVE  \E k \in Seq(Cells) : \E f : IsLoopOf(f, Lattice(ring), k)
<1> DEFINE q == Lattice(ring)
           k == LagDistinct(q)
           n == Len(q)
<1>1. q \in Seq(Cells) /\ n > 1 /\ n \in Nat /\ q[1] = q[n]
  <2>1. Len(ring) \in Nat /\ 1 \in 1 .. Len(ring) /\ Len(ring) \in 1 .. Len(ring)
    BY DEF IsClosed
  <2> QED BY <2>1, LatticeProperties DEF IsClosed
<1>2. k \in Seq(Cells)
  BY <1>1, LagTraced
<1>3. PICK f : Traces(f, q, k)
  <2>1. q \in Seq(Cells) /\ Len(q) >= 1
    BY <1>1
  <2> HIDE DEF q
  <2> QED BY <2>1, LagTraced
<1> HIDE DEF q, k, n
<1>4. /\ \A i \in 1 .. n : f[i] \in 1 .. Len(k) /\ q[i] = k[f[i]]
      /\ f[1] = 1 /\ f[n] = Len(k) /\ Len(k) \in Nat
      /\ \A j \in 1 .. Len(k) - 1 : k[j] # k[j + 1]
  <2>1. f \in [1 .. n -> 1 .. Len(k)] /\ \A i \in 1 .. n : q[i] = k[f[i]]
    BY <1>3 DEF Traces, n
  <2>2. f[1] = 1 /\ f[n] = Len(k) /\ \A j \in 1 .. Len(k) - 1 : k[j] # k[j + 1]
    BY <1>3 DEF Traces, n
  <2>3. Len(k) \in Nat
    BY <1>2
  <2> QED BY <2>1, <2>2, <2>3
<1>5. k[Len(k)] = k[1]
  <2>1. 1 \in 1 .. n /\ n \in 1 .. n
    BY <1>1
  <2> QED BY <1>1, <1>4, <2>1
<1>6. Len(k) >= 1
  <2>1. 1 \in 1 .. n
    BY <1>1
  <2> QED BY <1>4, <2>1
<1>7. Len(k) # 1
  <2> SUFFICES ASSUME Len(k) = 1 PROVE FALSE
    OBVIOUS
  <2>1. \A i \in 1 .. n : q[i] = k[1]
    BY <1>4
  <2>2. 1 \in 1 .. n
    BY <1>1
  <2>3. IsFlat(q)
    BY <2>1, <2>2 DEF IsFlat, n
  <2> QED BY <2>3 DEF q
<1>8. Len(k) # 2
  <2> SUFFICES ASSUME Len(k) = 2 PROVE FALSE
    OBVIOUS
  <2>1. k[1] # k[1 + 1]
    BY <1>4
  <2> QED BY <1>5, <2>1
<1>9. Len(k) >= 3
  <2>1. Len(k) \in Nat
    BY <1>4
  <2>2. \A x \in Nat : x >= 1 /\ x # 1 /\ x # 2 => x >= 3
    OBVIOUS
  <2> QED BY <2>1, <2>2, <1>6, <1>7, <1>8
<1>10. IsLoopOf(f, q, k)
  BY <1>3, <1>5, <1>9 DEF IsLoopOf
<1> QED BY <1>2, <1>10 DEF q

IsJoin(c, P, a, b) ==
  /\ c \in Seq(P)
  /\ Len(c) = Len(a) + Len(b)
  /\ \A j \in 1 .. Len(a) : c[j] = a[j]
  /\ \A j \in 1 .. Len(b) : c[Len(a) + j] = b[j]

LEMMA ConcatIs ==
  ASSUME NEW P, NEW a \in Seq(P), NEW b \in Seq(P)
  PROVE  IsJoin(a \o b, P, a, b)
<1> DEFINE c == a \o b
<1>1. Len(a) \in Nat /\ Len(b) \in Nat
  OBVIOUS
<1>2. /\ c \in Seq(P)
      /\ Len(c) = Len(a) + Len(b)
      /\ \A j \in 1 .. Len(a) + Len(b) : c[j] = IF j <= Len(a) THEN a[j] ELSE b[j - Len(a)]
  BY ConcatProperties
<1> HIDE DEF c
<1>3. ASSUME NEW j \in 1 .. Len(b) PROVE c[Len(a) + j] = b[j]
  <2>1. Len(a) + j \in 1 .. Len(a) + Len(b) /\ ~(Len(a) + j <= Len(a)) /\ (Len(a) + j) - Len(a) = j
    BY <1>1
  <2>2. c[Len(a) + j] = b[(Len(a) + j) - Len(a)]
    BY <1>2, <2>1
  <2> QED BY <2>1, <2>2
<1>4. \A j \in 1 .. Len(a) : c[j] = a[j]
  BY <1>1, <1>2
<1> QED BY <1>2, <1>3, <1>4 DEF c, IsJoin

LEMMA PartIs ==
  ASSUME NEW P, NEW s \in Seq(P), NEW m \in 1 .. Len(s) + 1, NEW n \in 0 .. Len(s), m <= n + 1
  PROVE  /\ SubSeq(s, m, n) \in Seq(P)
         /\ Len(SubSeq(s, m, n)) = n - m + 1
         /\ \A j \in 1 .. n - m + 1 : SubSeq(s, m, n)[j] = s[m + j - 1]
<1>1. m \in Int /\ n \in Int
  OBVIOUS
<1>2. \A j \in m .. n : s[j] \in P
  BY ElementOfSeq
<1>3. /\ SubSeq(s, m, n) \in Seq(P)
      /\ Len(SubSeq(s, m, n)) = IF m <= n THEN n - m + 1 ELSE 0
      /\ \A j \in 1 .. n - m + 1 : SubSeq(s, m, n)[j] = s[m + j - 1]
  BY <1>1, <1>2, SubSeqProperties
<1>4. ~(m <= n) => n - m + 1 = 0
  BY <1>1
<1> QED BY <1>3, <1>4

IsLonger(s, P, r, n, e, p) ==
  /\ s \in Seq(P)
  /\ Len(s) = n + 1
  /\ \A j \in 1 .. e : s[j] = r[j]
  /\ s[e + 1] = p
  /\ \A j \in e + 2 .. n + 1 : s[j] = r[j - 1]

(* A vertex inserted after another one.                                    *)
LEMMA InsertedIs ==
  ASSUME NEW P, NEW r \in Seq(P), NEW e \in 1 .. Len(r), NEW p \in P
  PROVE  IsLonger(InsertAt(r, e + 1, p), P, r, Len(r), e, p)
<1>0. PICK n \in Nat : n = Len(r)
  OBVIOUS
<1> DEFINE s == InsertAt(r, e + 1, p)
           a == SubSeq(r, 1, (e + 1) - 1)
           c == SubSeq(r, e + 1, Len(r))
           w == <<p>>
           x == a \o w
<1>1. 1 \in 1 .. n + 1 /\ e \in 0 .. n /\ 1 <= e + 1 /\ e + 1 \in 1 .. n + 1 /\ n \in 0 .. n
      /\ e + 1 <= n + 1 /\ (e + 1) - 1 = e
  BY <1>0
<1>2. a \in Seq(P) /\ Len(a) = e /\ \A j \in 1 .. e : a[j] = r[j]
  <2>1. /\ SubSeq(r, 1, e) \in Seq(P)
        /\ Len(SubSeq(r, 1, e)) = e - 1 + 1
        /\ \A j \in 1 .. e - 1 + 1 : SubSeq(r, 1, e)[j] = r[1 + j - 1]
    BY <1>0, <1>1, PartIs
  <2>2. a = SubSeq(r, 1, e) /\ e - 1 + 1 = e /\ \A j \in 1 .. e : 1 + j - 1 = j
    BY <1>1
  <2> HIDE DEF a
  <2> QED BY <2>1, <2>2
<1>3. c \in Seq(P) /\ Len(c) = n - e /\ \A j \in 1 .. n - e : c[j] = r[e + j]
  <2>1. /\ SubSeq(r, e + 1, n) \in Seq(P)
        /\ Len(SubSeq(r, e + 1, n)) = n - (e + 1) + 1
        /\ \A j \in 1 .. n - (e + 1) + 1 : SubSeq(r, e + 1, n)[j] = r[(e + 1) + j - 1]
    BY <1>0, <1>1, PartIs
  <2>2. c = SubSeq(r, e + 1, n) /\ n - (e + 1) + 1 = n - e
        /\ \A j \in 1 .. n - e : (e + 1) + j - 1 = e + j
    BY <1>0, <1>1
  <2> HIDE DEF c
  <2> QED BY <2>1, <2>2
<1>4. w \in Seq(P) /\ Len(w) = 1 /\ w[1] = p
  OBVIOUS
<1>5. s = x \o c
  BY DEF InsertAt
<1> HIDE DEF a, c, w, s
<1>6. /\ x \in Seq(P)
      /\ Len(x) = Len(a) + Len(w)
      /\ \A j \in 1 .. Len(a) : x[j] = a[j]
      /\ \A j \in 1 .. Len(w) : x[Len(a) + j] = w[j]
  <2>1. IsJoin(a \o w, P, a, w)
    BY <1>2, <1>4, ConcatIs
  <2>2. IsJoin(x, P, a, w)
    BY <2>1
  <2> HIDE DEF x
  <2> QED BY <2>2 DEF IsJoin
<1> HIDE DEF x
<1>7. x \in Seq(P) /\ Len(x) = e + 1 /\ (\A j \in 1 .. e : x[j] = r[j]) /\ x[e + 1] = p
  BY <1>2, <1>4, <1>6
<1>8. /\ s \in Seq(P)
      /\ Len(s) = Len(x) + Len(c)
      /\ \A j \in 1 .. Len(x) : s[j] = x[j]
      /\ \A j \in 1 .. Len(c) : s[Len(x) + j] = c[j]
  <2>1. IsJoin(x \o c, P, x, c)
    BY <1>3, <1>7, ConcatIs
  <2>2. IsJoin(s, P, x, c)
    BY <1>5, <2>1
  <2> QED BY <2>2 DEF IsJoin
<1>9. Len(s) = n + 1 /\ (\A j \in 1 .. e : s[j] = r[j]) /\ s[e + 1] = p
  BY <1>3, <1>7, <1>8
<1>10. ASSUME NEW j \in e + 2 .. n + 1 PROVE s[j] = r[j - 1]
  <2>1. j - (e + 1) \in 1 .. n - e /\ (e + 1) + (j - (e + 1)) = j /\ e + (j - (e + 1)) = j - 1
    OBVIOUS
  <2>2. s[(e + 1) + (j - (e + 1))] = c[j - (e + 1)]
    BY <1>3, <1>7, <1>8, <2>1
  <2>3. c[j - (e + 1)] = r[e + (j - (e + 1))]
    BY <1>3, <2>1
  <2> QED BY <2>1, <2>2, <2>3
<1>11. IsLonger(s, P, r, n, e, p)
  BY <1>8, <1>9, <1>10 DEF IsLonger
<1> QED BY <1>0, <1>11 DEF s

IsStay(z, q, n, e) ==
  /\ Len(q) = n
  /\ Len(z) = n + 1
  /\ \A j \in 1 .. n + 1 : z[j] = IF j <= e THEN q[j] ELSE q[j - 1]

(* One more stay in a cell leaves what is kept as it was.                  *)
LEMMA LongerStay ==
  ASSUME NEW P, NEW q \in Seq(P), NEW n \in Nat, NEW e \in 1 .. n,
         NEW z \in Seq(P), IsStay(z, q, n, e)
  PROVE  LagDistinct(z) = LagDistinct(q)
<1>16. /\ Len(q) = n
       /\ Len(z) = n + 1
       /\ \A j \in 1 .. n + 1 : z[j] = IF j <= e THEN q[j] ELSE q[j - 1]
  BY DEF IsStay
<1>1. n >= 1
  OBVIOUS
<1>17. LagDistinct(q) \in Seq(P) /\ \E f : Traces(f, q, LagDistinct(q))
  <2>1. Len(q) >= 1
    BY <1>1, <1>16
  <2> QED BY <2>1, LagTraced
<1> DEFINE k == LagDistinct(q)
<1>18. PICK f : Traces(f, q, k)
  BY <1>17
<1>19. k \in Seq(P)
  BY <1>17
<1> HIDE DEF k
<1> DEFINE g == [j \in 1 .. n + 1 |-> IF j <= e THEN f[j] ELSE f[j - 1]]
<1>20. /\ f \in [1 .. n -> 1 .. Len(k)]
       /\ f[1] = 1 /\ f[n] = Len(k)
       /\ \A i \in 1 .. n - 1 : f[i + 1] = f[i] \/ f[i + 1] = f[i] + 1
       /\ \A i \in 1 .. n : q[i] = k[f[i]]
  BY <1>16, <1>18 DEF Traces
<1>21. e \in 1 .. n
  BY <1>1
<1>22. g \in [1 .. n + 1 -> 1 .. Len(k)]
  <2>1. \A j \in 1 .. n + 1 : (j <= e => j \in 1 .. n) /\ (~(j <= e) => j - 1 \in 1 .. n)
    BY <1>1, <1>21
  <2> QED BY <1>20, <2>1
<1>23. g[1] = 1 /\ g[n + 1] = Len(k)
  <2>1. 1 \in 1 .. n + 1 /\ n + 1 \in 1 .. n + 1 /\ 1 <= e /\ ~(n + 1 <= e) /\ (n + 1) - 1 = n
    BY <1>1, <1>21
  <2> QED BY <1>20, <2>1
<1>24. ASSUME NEW i \in 1 .. (n + 1) - 1 PROVE g[i + 1] = g[i] \/ g[i + 1] = g[i] + 1
  <2>1. i \in 1 .. n + 1 /\ i + 1 \in 1 .. n + 1 /\ (i + 1) - 1 = i
    BY <1>1
  <2>2. CASE i + 1 <= e
    <3>1. i <= e /\ i \in 1 .. n - 1
      BY <1>1, <1>21, <2>2
    <3> QED BY <1>20, <2>1, <2>2, <3>1
  <2>3. CASE i = e
    <3>1. i <= e /\ ~(i + 1 <= e)
      BY <1>21, <2>3
    <3> QED BY <2>1, <3>1
  <2>4. CASE e < i
    <3>1. ~(i <= e) /\ ~(i + 1 <= e) /\ i - 1 \in 1 .. n - 1 /\ (i - 1) + 1 = i
      BY <1>1, <1>21, <2>4
    <3>2. g[i] = f[i - 1] /\ g[i + 1] = f[i]
      BY <2>1, <3>1
    <3>3. f[(i - 1) + 1] = f[i - 1] \/ f[(i - 1) + 1] = f[i - 1] + 1
      BY <1>20, <3>1
    <3> QED BY <3>1, <3>2, <3>3
  <2> QED BY <1>21, <2>2, <2>3, <2>4
<1>25. ASSUME NEW j \in 1 .. n + 1 PROVE z[j] = k[g[j]]
  <2>1. (j <= e => j \in 1 .. n) /\ (~(j <= e) => j - 1 \in 1 .. n)
    BY <1>1, <1>21
  <2> QED BY <1>16, <1>20, <2>1
<1>26. Traces(g, z, k)
  <2> HIDE DEF g
  <2> QED BY <1>16, <1>18, <1>22, <1>23, <1>24, <1>25 DEF Traces
<1>27. LagDistinct(z) = k
  <2>1. Len(z) >= 1
    BY <1>1, <1>16
  <2> HIDE DEF g
  <2> QED BY <1>19, <1>26, <2>1, TracedIsLag
<1> QED BY <1>27 DEF k

(* Inserted in the cell of the vertex before it, it is one more stay.      *)
IsLattice(q, r, n) == Len(q) = n /\ \A j \in 1 .. n : q[j] = Quantize(r[j])

LEMMA LongerLattice ==
  ASSUME NEW P, NEW n \in Nat, NEW e \in 1 .. n, e # n, NEW r, NEW p, NEW s,
         IsLonger(s, P, r, n, e, p), Quantize(p) = Quantize(r[e]),
         NEW q, IsLattice(q, r, n), NEW z, IsLattice(z, s, n + 1)
  PROVE  /\ s[1] = r[1] /\ s[n + 1] = r[n]
         /\ IsStay(z, q, n, e)
<1>0. /\ Len(q) = n
      /\ \A j \in 1 .. n : q[j] = Quantize(r[j])
      /\ Len(z) = n + 1
      /\ \A j \in 1 .. n + 1 : z[j] = Quantize(s[j])
  BY DEF IsLattice
<1>1. /\ \A j \in 1 .. e : s[j] = r[j]
      /\ s[e + 1] = p
      /\ \A j \in e + 2 .. n + 1 : s[j] = r[j - 1]
  BY DEF IsLonger
<1>2. s[1] = r[1] /\ s[n + 1] = r[n]
  <2>1. 1 \in 1 .. e /\ n + 1 \in e + 2 .. n + 1 /\ (n + 1) - 1 = n
    OBVIOUS
  <2> QED BY <1>1, <2>1
<1>3. ASSUME NEW j \in 1 .. n + 1 PROVE z[j] = IF j <= e THEN q[j] ELSE q[j - 1]
  <2>1. z[j] = Quantize(s[j])
    BY <1>0
  <2>2. CASE j <= e
    <3>1. j \in 1 .. n /\ j \in 1 .. e
      BY <2>2
    <3> QED BY <1>0, <1>1, <2>1, <2>2, <3>1
  <2>3. CASE j = e + 1
    <3>1. e \in 1 .. n /\ j - 1 = e /\ ~(j <= e)
      BY <2>3
    <3> QED BY <1>0, <1>1, <2>1, <2>3, <3>1
  <2>4. CASE e + 1 < j
    <3>1. j \in e + 2 .. n + 1 /\ j - 1 \in 1 .. n /\ ~(j <= e)
      BY <2>4
    <3> QED BY <1>0, <1>1, <2>1, <3>1
  <2> QED BY <2>2, <2>3, <2>4
<1> QED BY <1>0, <1>2, <1>3 DEF IsStay

IsRepeated(s, r) ==
  /\ s \in Seq(Int \X Int)
  /\ Len(s) = Len(r) + 1
  /\ s[1] = r[1] /\ s[Len(s)] = r[Len(r)]
  /\ Kept(s) = Kept(r)

(* A vertex repeated within its cell.                                      *)
LEMMA RepeatedRing ==
  ASSUME NEW r \in Seq(Int \X Int), NEW e \in 1 .. Len(r), e # Len(r),
         NEW p \in Int \X Int, Quantize(p) = Quantize(r[e])
  PROVE  IsRepeated(InsertAt(r, e + 1, p), r)
<1> DEFINE s == InsertAt(r, e + 1, p)
           n == Len(r)
           P == Int \X Int
           q == Lattice(r)
           z == Lattice(s)
<1>1. r \in Seq(P) /\ p \in P /\ n \in Nat
  OBVIOUS
<1>2. IsLonger(s, P, r, n, e, p)
  <2> HIDE DEF P
  <2> QED BY <1>1, InsertedIs
<1>3. s \in Seq(Int \X Int) /\ Len(s) = n + 1
  BY <1>2 DEF IsLonger
<1>4. q \in Seq(Cells) /\ Len(q) = n /\ \A j \in 1 .. n : q[j] = Quantize(r[j])
  BY LatticeProperties
<1>5. z \in Seq(Cells) /\ Len(z) = n + 1 /\ \A j \in 1 .. n + 1 : z[j] = Quantize(s[j])
  BY <1>3, LatticeProperties
<1> HIDE DEF q, z, n, s
<1>6. s[1] = r[1] /\ s[n + 1] = r[n] /\ IsStay(z, q, n, e)
  <2>1. e \in 1 .. n /\ e # n
    BY DEF n
  <2>2. n \in Nat /\ IsLonger(s, P, r, n, e, p) /\ Quantize(p) = Quantize(r[e])
    BY <1>1, <1>2
  <2>3. Len(q) = n /\ \A j \in 1 .. n : q[j] = Quantize(r[j])
    BY <1>4
  <2>4. Len(z) = n + 1 /\ \A j \in 1 .. n + 1 : z[j] = Quantize(s[j])
    BY <1>5
  <2>5. IsLattice(q, r, n) /\ IsLattice(z, s, n + 1)
    BY <2>3, <2>4 DEF IsLattice
  <2> HIDE DEF P
  <2> QED BY ONLY <2>1, <2>2, <2>5, LongerLattice
<1>7. LagDistinct(z) = LagDistinct(q)
  <2>1. e \in 1 .. n
    BY DEF n
  <2>2. n \in Nat /\ IsStay(z, q, n, e) /\ q \in Seq(Cells) /\ z \in Seq(Cells)
    BY <1>1, <1>4, <1>5, <1>6
  <2> QED BY ONLY <2>1, <2>2, LongerStay
<1>8. Kept(s) = Kept(r)
  BY <1>7 DEF Kept, q, z
<1>9. IsRepeated(s, r)
  BY <1>3, <1>6, <1>8 DEF n, IsRepeated
<1> QED BY <1>9 DEF s

(* The place in a loop of the j-th vertex, when the loop starts at the     *)
(* a-th of its n vertices, the first and the last of which are the same.   *)
Elsewhere(n, a, j) == IF j <= n - a THEN a + j - 1 ELSE a + j - n

IsTurned(z, q, n, a) ==
  /\ Len(q) = n
  /\ Len(z) = n
  /\ \A j \in 1 .. n : z[j] = q[Elsewhere(n, a, j)]

(* A walk of n steps, each in a place of M or on to the next.              *)
IsWalk(f, n, M) ==
  /\ f \in [1 .. n -> 1 .. M]
  /\ f[1] = 1 /\ f[n] = M
  /\ \A i \in 1 .. n - 1 : f[i + 1] = f[i] \/ f[i + 1] = f[i] + 1
  /\ \A i, j \in 1 .. n : i <= j => f[i] <= f[j]

TurnedWalk(f, n, M, a) ==
  [j \in 1 .. n |-> IF j <= n - a THEN f[a + j - 1] - f[a] + 1 ELSE f[a + j - n] + M - f[a]]

(* A walk that starts elsewhere goes round to where it started.            *)
LEMMA TurnedPlace ==
  ASSUME NEW n \in Nat, NEW a \in 2 .. n - 1, NEW f, NEW M \in Nat, IsWalk(f, n, M),
         NEW g, g = TurnedWalk(f, n, M, a)
  PROVE  /\ g \in [1 .. n -> 1 .. M]
         /\ g[1] = 1 /\ g[n] = M
         /\ \A j \in 1 .. n - 1 : g[j + 1] = g[j] \/ g[j + 1] = g[j] + 1
<1>0. /\ f \in [1 .. n -> 1 .. M]
      /\ f[1] = 1 /\ f[n] = M
      /\ \A i \in 1 .. n - 1 : f[i + 1] = f[i] \/ f[i + 1] = f[i] + 1
      /\ \A i, j \in 1 .. n : i <= j => f[i] <= f[j]
      /\ g = [j \in 1 .. n |-> IF j <= n - a THEN f[a + j - 1] - f[a] + 1
                                ELSE f[a + j - n] + M - f[a]]
  BY DEF IsWalk, TurnedWalk
<1>1. a \in 1 .. n /\ f[a] \in 1 .. M
  BY <1>0
<1>2. \A j \in 1 .. n : IF j <= n - a THEN a + j - 1 \in a .. n ELSE a + j - n \in 1 .. a
  OBVIOUS
<1>3. ASSUME NEW j \in 1 .. n PROVE g[j] \in 1 .. M
  <2>1. CASE j <= n - a
    <3>1. a + j - 1 \in 1 .. n /\ a <= a + j - 1
      BY <2>1
    <3>2. f[a] <= f[a + j - 1] /\ f[a + j - 1] \in 1 .. M
      BY <1>0, <1>1, <3>1
    <3>3. g[j] = f[a + j - 1] - f[a] + 1
      BY <1>0, <2>1
    <3> QED BY <1>1, <3>2, <3>3
  <2>2. CASE ~(j <= n - a)
    <3>1. a + j - n \in 1 .. n /\ a + j - n <= a
      BY <2>2
    <3>2. f[a + j - n] <= f[a] /\ f[a + j - n] \in 1 .. M
      BY <1>0, <1>1, <3>1
    <3>3. g[j] = f[a + j - n] + M - f[a]
      BY <1>0, <2>2
    <3> QED BY <1>1, <3>2, <3>3
  <2> QED BY <2>1, <2>2
<1>4. g[1] = 1
  <2>1. 1 \in 1 .. n /\ 1 <= n - a /\ a + 1 - 1 = a
    OBVIOUS
  <2>2. g[1] = f[a] - f[a] + 1
    BY <1>0, <2>1
  <2> QED BY <1>1, <2>2
<1>5. g[n] = M
  <2>1. n \in 1 .. n /\ ~(n <= n - a) /\ a + n - n = a
    OBVIOUS
  <2>2. g[n] = f[a] + M - f[a]
    BY <1>0, <2>1
  <2> QED BY <1>1, <2>2
<1>6. ASSUME NEW j \in 1 .. n - 1 PROVE g[j + 1] = g[j] \/ g[j + 1] = g[j] + 1
  <2>0. j \in 1 .. n /\ j + 1 \in 1 .. n
    OBVIOUS
  <2>1. CASE j + 1 <= n - a
    <3>1. j <= n - a /\ a + (j + 1) - 1 = (a + j - 1) + 1 /\ a + j - 1 \in 1 .. n - 1
          /\ a + j - 1 \in 1 .. n /\ (a + j - 1) + 1 \in 1 .. n
      BY <2>1
    <3>2. g[j] = f[a + j - 1] - f[a] + 1 /\ g[j + 1] = f[(a + j - 1) + 1] - f[a] + 1
      BY <1>0, <2>0, <2>1, <3>1
    <3>3. f[a + j - 1] \in 1 .. M /\ f[(a + j - 1) + 1] \in 1 .. M
      BY <1>0, <3>1
    <3>4. f[(a + j - 1) + 1] = f[a + j - 1] \/ f[(a + j - 1) + 1] = f[a + j - 1] + 1
      BY <1>0, <3>1
    <3> QED BY <1>1, <3>2, <3>3, <3>4
  <2>2. CASE j = n - a
    <3>1. j <= n - a /\ ~(j + 1 <= n - a) /\ a + j - 1 = n - 1 /\ a + (j + 1) - n = 1
          /\ n - 1 \in 1 .. n - 1 /\ n - 1 \in 1 .. n /\ (n - 1) + 1 = n
      BY <2>2
    <3>2. g[j] = f[n - 1] - f[a] + 1 /\ g[j + 1] = f[1] + M - f[a]
      BY <1>0, <2>0, <3>1
    <3>3. f[(n - 1) + 1] = f[n - 1] \/ f[(n - 1) + 1] = f[n - 1] + 1
      BY <1>0, <3>1
    <3>4. f[n - 1] \in 1 .. M
      BY <1>0, <3>1
    <3>5. PICK y \in 1 .. M, e \in 1 .. M : y = f[n - 1] /\ e = f[a]
      BY <1>1, <3>4
    <3>6. M = y \/ M = y + 1
      BY <1>0, <3>1, <3>3, <3>5
    <3>7. g[j] = y - e + 1 /\ g[j + 1] = 1 + M - e
      BY <1>0, <3>2, <3>5
    <3> QED BY <3>6, <3>7
  <2>3. CASE n - a < j
    <3>1. ~(j <= n - a) /\ ~(j + 1 <= n - a) /\ a + (j + 1) - n = (a + j - n) + 1
          /\ a + j - n \in 1 .. n - 1
          /\ a + j - n \in 1 .. n /\ (a + j - n) + 1 \in 1 .. n
      BY <2>3
    <3>2. g[j] = f[a + j - n] + M - f[a] /\ g[j + 1] = f[(a + j - n) + 1] + M - f[a]
      BY <1>0, <2>0, <3>1
    <3>3. f[a + j - n] \in 1 .. M /\ f[(a + j - n) + 1] \in 1 .. M
      BY <1>0, <3>1
    <3>4. f[(a + j - n) + 1] = f[a + j - n] \/ f[(a + j - n) + 1] = f[a + j - n] + 1
      BY <1>0, <3>1
    <3> QED BY <1>1, <3>2, <3>3, <3>4
  <2> QED BY <2>0, <2>1, <2>2, <2>3
<1>7. g \in [1 .. n -> 1 .. M]
  BY <1>0, <1>3
<1> QED BY <1>4, <1>5, <1>6, <1>7

(* A loop started elsewhere is the loop turned.                            *)
LEMMA TurnedLoop ==
  ASSUME NEW n \in Nat, NEW a \in 2 .. n - 1, NEW q, NEW z, IsTurned(z, q, n, a),
         NEW k \in Seq(Cells), NEW f, IsLoopOf(f, q, k)
  PROVE  \E k2 \in Seq(Cells) : \E g :
           IsLoopOf(g, z, k2) /\ IsTurned(k2, k, Len(k), f[a]) /\ f[a] \in 1 .. Len(k)
<1>1. PICK M \in Nat : M = Len(k)
  OBVIOUS
<1>2. /\ Len(q) = n /\ Len(z) = n
      /\ \A j \in 1 .. n : z[j] = q[Elsewhere(n, a, j)]
  BY DEF IsTurned
<1>3. /\ f \in [1 .. n -> 1 .. M]
      /\ f[1] = 1 /\ f[n] = M
      /\ \A i \in 1 .. n - 1 : f[i + 1] = f[i] \/ f[i + 1] = f[i] + 1
      /\ \A i \in 1 .. n : q[i] = k[f[i]]
      /\ \A j \in 1 .. M - 1 : k[j] # k[j + 1]
      /\ M >= 3 /\ k[M] = k[1]
  BY <1>1, <1>2 DEF IsLoopOf, Traces
<1>4. \A i, j \in 1 .. n : i <= j => f[i] <= f[j]
  <2>1. Traces(f, q, k)
    BY DEF IsLoopOf
  <2>2. \A i, j \in 1 .. Len(q) : i <= j => f[i] <= f[j]
    BY <1>1, <1>2, <2>1, TracesClimb
  <2> QED BY <1>2, <2>2
<1> DEFINE g == TurnedWalk(f, n, M, a)
<1>5. /\ g \in [1 .. n -> 1 .. M]
      /\ g[1] = 1 /\ g[n] = M
      /\ \A j \in 1 .. n - 1 : g[j + 1] = g[j] \/ g[j + 1] = g[j] + 1
  <2>1. IsWalk(f, n, M)
    BY <1>3, <1>4 DEF IsWalk
  <2> QED BY <2>1, TurnedPlace
<1>6. PICK c \in 1 .. M : c = f[a]
  <2>1. a \in 1 .. n
    OBVIOUS
  <2> QED BY <1>3, <2>1
<1> DEFINE w == [j \in 1 .. M |-> k[Elsewhere(M, c, j)]]
<1>7. \A j \in 1 .. M : Elsewhere(M, c, j) \in 1 .. M
  BY DEF Elsewhere
<1>8. w \in Seq(Cells) /\ Len(w) = M /\ \A j \in 1 .. M : w[j] = k[Elsewhere(M, c, j)]
  <2>1. \A j \in 1 .. M : k[Elsewhere(M, c, j)] \in Cells
    BY <1>1, <1>7, ElementOfSeq
  <2> QED BY <2>1
<1>9. ASSUME NEW j \in 1 .. n PROVE z[j] = w[g[j]]
  <2>0. z[j] = q[Elsewhere(n, a, j)] /\ g[j] \in 1 .. M
    BY <1>2, <1>5
  <2>1. CASE j <= n - a
    <3>1. Elsewhere(n, a, j) = a + j - 1 /\ a + j - 1 \in 1 .. n /\ a <= a + j - 1 /\ a \in 1 .. n
      BY <2>1 DEF Elsewhere
    <3>2. PICK F \in 1 .. M : F = f[a + j - 1]
      BY <1>3, <3>1
    <3>3. z[j] = k[F]
      BY <1>3, <2>0, <3>1, <3>2
    <3>4. g[j] = F - c + 1
      BY <1>6, <2>1, <3>2 DEF TurnedWalk
    <3>5. w[g[j]] = k[Elsewhere(M, c, F - c + 1)]
      BY <1>8, <2>0, <3>4
    <3>6. Elsewhere(M, c, F - c + 1) = IF F < M THEN F ELSE 1
      BY DEF Elsewhere
    <3> HIDE DEF g, w
    <3>7. F < M \/ F = M
      OBVIOUS
    <3> QED BY <1>3, <3>3, <3>5, <3>6, <3>7
  <2>2. CASE ~(j <= n - a)
    <3>1. Elsewhere(n, a, j) = a + j - n /\ a + j - n \in 1 .. n
      BY <2>2 DEF Elsewhere
    <3>2. PICK F \in 1 .. M : F = f[a + j - n]
      BY <1>3, <3>1
    <3>3. z[j] = k[F]
      BY <1>3, <2>0, <3>1, <3>2
    <3>4. g[j] = F + M - c
      BY <1>6, <2>2, <3>2 DEF TurnedWalk
    <3>5. w[g[j]] = k[Elsewhere(M, c, F + M - c)]
      BY <1>8, <2>0, <3>4
    <3>6. Elsewhere(M, c, F + M - c) = F
      BY DEF Elsewhere
    <3> QED BY <3>3, <3>5, <3>6
  <2> QED BY <2>1, <2>2
<1>10. ASSUME NEW j \in 1 .. M - 1 PROVE w[j] # w[j + 1]
  <2>1. w[j] = k[Elsewhere(M, c, j)] /\ w[j + 1] = k[Elsewhere(M, c, j + 1)]
    BY <1>8
  <2> HIDE DEF w, g
  <2>2. CASE j = M - c
    <3>1. Elsewhere(M, c, j) = M - 1 /\ Elsewhere(M, c, j + 1) = 1 /\ M - 1 \in 1 .. M - 1
          /\ (M - 1) + 1 = M
      BY <2>2 DEF Elsewhere
    <3>2. k[M - 1] # k[(M - 1) + 1]
      BY <1>3, <3>1
    <3> QED BY <1>3, <2>1, <3>1, <3>2
  <2>3. CASE j # M - c
    <3>1. PICK i \in 1 .. M - 1 : Elsewhere(M, c, j) = i /\ Elsewhere(M, c, j + 1) = i + 1
      <4>1. CASE j < M - c
        <5>1. Elsewhere(M, c, j) = c + j - 1 /\ Elsewhere(M, c, j + 1) = (c + j - 1) + 1
              /\ c + j - 1 \in 1 .. M - 1
          BY <4>1 DEF Elsewhere
        <5> QED BY <5>1
      <4>2. CASE M - c < j
        <5>1. Elsewhere(M, c, j) = c + j - M /\ Elsewhere(M, c, j + 1) = (c + j - M) + 1
              /\ c + j - M \in 1 .. M - 1
          BY <4>2 DEF Elsewhere
        <5> QED BY <5>1
      <4> QED BY <2>3, <4>1, <4>2
    <3> QED BY <1>3, <2>1, <3>1
  <2> QED BY <2>2, <2>3
<1>11. w[M] = w[1]
  <2>1. Elsewhere(M, c, M) = c /\ Elsewhere(M, c, 1) = (IF c = M THEN 1 ELSE c)
    BY DEF Elsewhere
  <2>2. M \in 1 .. M /\ 1 \in 1 .. M
    BY <1>3
  <2>3. w[M] = k[c] /\ w[1] = k[IF c = M THEN 1 ELSE c]
    <3> HIDE DEF w
    <3> QED BY <1>8, <2>1, <2>2
  <2> HIDE DEF w
  <2> QED BY <1>3, <2>3
<1>12. IsLoopOf(g, z, w)
  <2> HIDE DEF g, w
  <2> QED BY <1>2, <1>3, <1>5, <1>8, <1>9, <1>10, <1>11 DEF IsLoopOf, Traces
<1>13. IsTurned(w, k, Len(k), c) /\ c \in 1 .. Len(k)
  BY <1>1, <1>8 DEF IsTurned
<1> HIDE DEF g, w
<1> QED BY <1>6, <1>8, <1>12, <1>13

IsStarted(s, P, r, n, a) ==
  /\ s \in Seq(P) /\ Len(s) = n /\ s[1] = s[n]
  /\ \A j \in 1 .. n : s[j] = r[Elsewhere(n, a, j)]

(* A ring started elsewhere.                                               *)
LEMMA StartedRing ==
  ASSUME NEW P, NEW r \in Seq(P), NEW n \in Nat, n = Len(r), r[1] = r[n], NEW a \in 2 .. n - 1
  PROVE  IsStarted(Close(RotateTo(Front(r), a)), P, r, n, a)
<1> DEFINE s == Close(RotateTo(Front(r), a))
<1> DEFINE u == Front(r)
           v == RotateTo(u, a)
<1>1. u \in Seq(P) /\ Len(u) = n - 1 /\ \A j \in 1 .. n - 1 : u[j] = r[j]
  <2>1. 1 \in 1 .. n + 1 /\ n - 1 \in 0 .. n /\ 1 <= (n - 1) + 1
    OBVIOUS
  <2>2. /\ SubSeq(r, 1, n - 1) \in Seq(P)
        /\ Len(SubSeq(r, 1, n - 1)) = (n - 1) - 1 + 1
        /\ \A j \in 1 .. (n - 1) - 1 + 1 : SubSeq(r, 1, n - 1)[j] = r[1 + j - 1]
    BY <2>1, PartIs
  <2>3. u = SubSeq(r, 1, n - 1) /\ (n - 1) - 1 + 1 = n - 1 /\ \A j \in 1 .. n - 1 : 1 + j - 1 = j
    BY DEF Front
  <2> HIDE DEF u
  <2> QED BY <2>2, <2>3
<1> HIDE DEF u
<1>2. v \in Seq(P) /\ Len(v) = n - 1 /\ \A j \in 1 .. n - 1 : v[j] = u[Around(n - 1, a, j)]
  <2>1. a \in 1 .. Len(u)
    BY <1>1
  <2>2. /\ RotateTo(u, a) \in Seq(P)
         /\ Len(RotateTo(u, a)) = Len(u)
         /\ \A j \in 1 .. Len(u) : RotateTo(u, a)[j] = u[Around(Len(u), a, j)]
    BY <1>1, <2>1, RotateProperties
  <2> QED BY <1>1, <2>2
<1>3. s = Append(v, v[1])
  BY DEF Close, u
<1> HIDE DEF v, s
<1>4. v[1] \in P
  <2>1. 1 \in 1 .. Len(v)
    BY <1>2
  <2> QED BY <1>2, <2>1, ElementOfSeq
<1>5. s \in Seq(P) /\ Len(s) = (n - 1) + 1 /\ (\A j \in 1 .. n - 1 : s[j] = v[j])
      /\ s[(n - 1) + 1] = v[1]
  <2> DEFINE x == v[1]
  <2>1. v \in Seq(P) /\ x \in P /\ s = Append(v, x)
    BY <1>2, <1>3, <1>4
  <2> HIDE DEF x
  <2>2. /\ Append(v, x) \in Seq(P)
        /\ Len(Append(v, x)) = Len(v) + 1
        /\ \A j \in 1 .. Len(v) : Append(v, x)[j] = v[j]
        /\ Append(v, x)[Len(v) + 1] = x
    BY ONLY <2>1, AppendProperties
  <2>3. /\ s \in Seq(P)
        /\ Len(s) = (n - 1) + 1
        /\ \A j \in 1 .. n - 1 : s[j] = v[j]
        /\ s[(n - 1) + 1] = x
    BY ONLY <1>2, <2>1, <2>2
  <2> QED BY <2>3 DEF x
<1>6. ASSUME NEW j \in 1 .. n - 1 PROVE s[j] = r[Elsewhere(n, a, j)]
  <2>1. Around(n - 1, a, j) = Elsewhere(n, a, j) /\ Around(n - 1, a, j) \in 1 .. n - 1
    BY DEF Around, Elsewhere
  <2>2. s[j] = v[j] /\ v[j] = u[Around(n - 1, a, j)]
    BY <1>2, <1>5
  <2>3. u[Around(n - 1, a, j)] = r[Around(n - 1, a, j)]
    BY <1>1, <2>1
  <2> QED BY ONLY <2>1, <2>2, <2>3
<1>7. (n - 1) + 1 = n /\ 1 \in 1 .. n - 1
  OBVIOUS
<1>8. s[n] = r[Elsewhere(n, a, n)]
  <2>1. Elsewhere(n, a, n) = a /\ Elsewhere(n, a, 1) = a
    BY DEF Elsewhere
  <2>2. s[1] = v[1] /\ s[n] = v[1]
    BY <1>5, <1>7
  <2> QED BY <1>6, <1>7, <2>1, <2>2
<1>9. \A j \in 1 .. n : j = n \/ j \in 1 .. n - 1
  OBVIOUS
<1> HIDE DEF s
<1>10. IsStarted(s, P, r, n, a)
  BY <1>5, <1>6, <1>7, <1>8, <1>9 DEF IsStarted
<1> QED BY <1>10 DEF s

IsRotated(t, u) == \E b \in 1 .. Len(u) : t = RotateTo(u, b)

(* What is kept of a ring started elsewhere is what was kept, rotated.     *)
LEMMA StartedKept ==
  ASSUME NEW r \in Seq(Int \X Int), IsClosed(r), NEW s \in StartedElsewhere(r)
  PROVE  /\ s \in Seq(Int \X Int) /\ Len(s) = Len(r) /\ IsClosed(s)
         /\ \/ Len(Kept(r)) = 1 /\ Len(Kept(s)) = 1
            \/ IsRotated(Kept(s), Kept(r))
<1>0. PICK n \in Nat : n = Len(r)
  OBVIOUS
<1>1. PICK a \in 2 .. n - 1 : s = Close(RotateTo(Front(r), a))
  BY <1>0 DEF StartedElsewhere
<1>2. n > 1 /\ r[1] = r[n]
  BY <1>0 DEF IsClosed
<1> DEFINE P == Int \X Int
<1>3. s \in Seq(P) /\ Len(s) = n /\ s[1] = s[n] /\ \A j \in 1 .. n : s[j] = r[Elsewhere(n, a, j)]
  <2>1. r \in Seq(P) /\ n \in Nat /\ n = Len(r) /\ r[1] = r[n] /\ a \in 2 .. n - 1
    BY <1>0, <1>2
  <2> HIDE DEF P
  <2>2. IsStarted(s, P, r, n, a)
    BY <1>1, <2>1, StartedRing
  <2> QED BY <2>2 DEF IsStarted
<1>4. IsClosed(s)
  BY <1>2, <1>3 DEF IsClosed
<1> DEFINE q == Lattice(r)
           z == Lattice(s)
<1>5. q \in Seq(Cells) /\ Len(q) = n /\ \A j \in 1 .. n : q[j] = Quantize(r[j])
  BY <1>0, LatticeProperties
<1>6. z \in Seq(Cells) /\ Len(z) = n /\ \A j \in 1 .. n : z[j] = Quantize(s[j])
  BY <1>3, LatticeProperties
<1> HIDE DEF q, z
<1>7. \A j \in 1 .. n : Elsewhere(n, a, j) \in 1 .. n
  BY DEF Elsewhere
<1>8. IsTurned(z, q, n, a)
  <2>1. \A j \in 1 .. n : z[j] = q[Elsewhere(n, a, j)]
    BY <1>3, <1>5, <1>6, <1>7
  <2> QED BY <1>5, <1>6, <2>1 DEF IsTurned
<1>9. CASE IsFlat(q)
  <2>1. \A j \in 1 .. n : z[j] = q[1]
    BY <1>5, <1>7, <1>8, <1>9 DEF IsFlat, IsTurned
  <2>2. 1 \in 1 .. n
    BY <1>2
  <2>3. IsFlat(z)
    BY <1>6, <2>1, <2>2 DEF IsFlat
  <2>4. Len(r) >= 1 /\ Len(s) >= 1
    BY <1>0, <1>2, <1>3
  <2>5. Len(Kept(r)) = 1
    BY <1>9, <2>4, FlatKept DEF q
  <2>6. Len(Kept(s)) = 1
    BY <1>3, <2>3, <2>4, FlatKept DEF z
  <2> QED BY <1>0, <1>3, <1>4, <2>5, <2>6
<1>10. CASE ~IsFlat(q)
  <2>0. PICK k \in Seq(Cells) : \E f : IsLoopOf(f, q, k)
    BY <1>10, LoopExists DEF q
  <2>1. PICK f : IsLoopOf(f, q, k)
    BY <2>0
  <2>21. PICK w \in Seq(Cells) : \E g :
          IsLoopOf(g, z, w) /\ IsTurned(w, k, Len(k), f[a]) /\ f[a] \in 1 .. Len(k)
    BY <1>8, <2>1, TurnedLoop
  <2>2. PICK g : IsLoopOf(g, z, w) /\ IsTurned(w, k, Len(k), f[a]) /\ f[a] \in 1 .. Len(k)
    BY <2>21
  <2>3. Kept(r) = SubSeq(k, 1, Len(k) - 1)
    <3>1. Len(r) >= 1
      BY <1>0, <1>2
    <3> QED BY <2>1, <3>1, LoopKept DEF q
  <2>4. Kept(s) = SubSeq(w, 1, Len(w) - 1)
    <3>1. Len(s) >= 1
      BY <1>3, <1>2
    <3> QED BY <1>3, <2>2, <3>1, LoopKept DEF z
  <2>5. PICK M \in Nat : M = Len(k)
    OBVIOUS
  <2>6. PICK c \in 1 .. M : c = f[a]
    BY <2>2, <2>5
  <2>7. Len(w) = M /\ M >= 3 /\ k[M] = k[1] /\ \A j \in 1 .. M : w[j] = k[Elsewhere(M, c, j)]
    BY <2>1, <2>2, <2>5, <2>6 DEF IsTurned, IsLoopOf
  <2> DEFINE t == SubSeq(k, 1, M - 1)
             u == SubSeq(w, 1, M - 1)
             b == IF c = M THEN 1 ELSE c
  <2>8. 1 \in 1 .. M + 1 /\ M - 1 \in 0 .. M /\ 1 <= (M - 1) + 1 /\ (M - 1) - 1 + 1 = M - 1
        /\ \A j \in 1 .. M - 1 : 1 + j - 1 = j
    BY <2>7
  <2>9. t \in Seq(Cells) /\ Len(t) = M - 1 /\ \A j \in 1 .. M - 1 : t[j] = k[j]
    <3>1. /\ t \in Seq(Cells) /\ Len(t) = (M - 1) - 1 + 1
          /\ \A j \in 1 .. (M - 1) - 1 + 1 : t[j] = k[1 + j - 1]
      BY <2>5, <2>8, PartIs
    <3> HIDE DEF t
    <3> QED BY <2>8, <3>1
  <2>10. u \in Seq(Cells) /\ Len(u) = M - 1 /\ \A j \in 1 .. M - 1 : u[j] = w[j]
    <3>1. /\ u \in Seq(Cells) /\ Len(u) = (M - 1) - 1 + 1
          /\ \A j \in 1 .. (M - 1) - 1 + 1 : u[j] = w[1 + j - 1]
      BY <2>7, <2>8, PartIs
    <3> HIDE DEF u
    <3> QED BY <2>8, <3>1
  <2> HIDE DEF t, u
  <2>11. b \in 1 .. M - 1
    BY <2>7
  <2>12. /\ RotateTo(t, b) \in Seq(Cells) /\ Len(RotateTo(t, b)) = M - 1
         /\ \A j \in 1 .. M - 1 : RotateTo(t, b)[j] = t[Around(M - 1, b, j)]
    <3>1. b \in 1 .. Len(t)
      BY <2>9, <2>11
    <3> HIDE DEF b
    <3>2. /\ RotateTo(t, b) \in Seq(Cells) /\ Len(RotateTo(t, b)) = Len(t)
          /\ \A j \in 1 .. Len(t) : RotateTo(t, b)[j] = t[Around(Len(t), b, j)]
      BY <2>9, <3>1, RotateProperties
    <3> QED BY <2>9, <3>2
  <2>13. ASSUME NEW j \in 1 .. M - 1 PROVE u[j] = RotateTo(t, b)[j]
    <3>1. Around(M - 1, b, j) = Elsewhere(M, c, j) /\ Around(M - 1, b, j) \in 1 .. M - 1
          /\ j \in 1 .. M
      BY <2>11 DEF Around, Elsewhere
    <3> HIDE DEF b
    <3>2. u[j] = k[Elsewhere(M, c, j)]
      BY <2>7, <2>10, <3>1
    <3>3. RotateTo(t, b)[j] = k[Around(M - 1, b, j)]
      BY <2>9, <2>12, <3>1
    <3> QED BY <3>1, <3>2, <3>3
  <2>14. u = RotateTo(t, b)
    <3> HIDE DEF b
    <3> QED BY <2>10, <2>12, <2>13, SeqEqual
  <2>15. Kept(s) = u /\ Kept(r) = t
    BY <2>3, <2>4, <2>5, <2>7 DEF t, u
  <2>16. IsRotated(Kept(s), Kept(r))
    <3>1. b \in 1 .. Len(t)
      BY <2>9, <2>11
    <3> HIDE DEF b
    <3> QED BY <2>14, <2>15, <3>1 DEF IsRotated
  <2> QED BY <1>0, <1>3, <1>4, <2>16
<1> QED BY <1>9, <1>10

IsReversed(z, q, n) ==
  /\ Len(q) = n
  /\ Len(z) = n
  /\ \A j \in 1 .. n : z[j] = q[n - j + 1]

(* A loop listed backwards is the loop reversed.                           *)
LEMMA ReversedLoop ==
  ASSUME NEW n \in Nat, n >= 1, NEW q, NEW z, IsReversed(z, q, n),
         NEW k \in Seq(Cells), NEW f, IsLoopOf(f, q, k)
  PROVE  \E g : IsLoopOf(g, z, Reverse(k))
<1>1. PICK M \in Nat : M = Len(k)
  OBVIOUS
<1>2. /\ Len(q) = n /\ Len(z) = n
      /\ \A j \in 1 .. n : z[j] = q[n - j + 1]
  BY DEF IsReversed
<1>3. /\ f \in [1 .. n -> 1 .. M]
      /\ f[1] = 1 /\ f[n] = M
      /\ \A i \in 1 .. n - 1 : f[i + 1] = f[i] \/ f[i + 1] = f[i] + 1
      /\ \A i \in 1 .. n : q[i] = k[f[i]]
      /\ \A j \in 1 .. M - 1 : k[j] # k[j + 1]
      /\ M >= 3 /\ k[M] = k[1]
  BY <1>1, <1>2 DEF IsLoopOf, Traces
<1> DEFINE w == Reverse(k)
           g == [j \in 1 .. n |-> M - f[n - j + 1] + 1]
<1>4. Len(w) = M /\ \A j \in 1 .. M : w[j] = k[M - j + 1]
  <2>1. Len(w) = Len(k) /\ \A j \in 1 .. Len(k) : w[j] = k[Len(k) - j + 1]
    BY ReverseProperties
  <2> HIDE DEF w
  <2> QED BY <1>1, <2>1
<1>5. \A j \in 1 .. n : n - j + 1 \in 1 .. n
  OBVIOUS
<1>6. g \in [1 .. n -> 1 .. M]
  <2>1. \A e \in 1 .. M : M - e + 1 \in 1 .. M
    OBVIOUS
  <2> QED BY <1>3, <1>5, <2>1
<1>7. g[1] = 1 /\ g[n] = M
  <2>1. 1 \in 1 .. n /\ n \in 1 .. n /\ n - 1 + 1 = n /\ n - n + 1 = 1
    OBVIOUS
  <2>2. g[1] = M - M + 1 /\ g[n] = M - 1 + 1
    BY <1>3, <2>1
  <2> HIDE DEF g
  <2> QED BY <2>2
<1>8. ASSUME NEW j \in 1 .. n - 1 PROVE g[j + 1] = g[j] \/ g[j + 1] = g[j] + 1
  <2>1. /\ j \in 1 .. n /\ j + 1 \in 1 .. n
        /\ n - j \in 1 .. n - 1 /\ n - j \in 1 .. n
        /\ n - (j + 1) + 1 = n - j
        /\ n - j + 1 \in 1 .. n
    OBVIOUS
  <2>2. PICK d \in 1 .. M, e \in 1 .. M : d = f[n - j] /\ e = f[n - j + 1]
    BY <1>3, <2>1
  <2>3. e = d \/ e = d + 1
    BY <1>3, <2>1, <2>2
  <2>4. g[j] = M - e + 1 /\ g[j + 1] = M - d + 1
    BY <2>1, <2>2
  <2> HIDE DEF g
  <2> QED BY <2>3, <2>4
<1>9. ASSUME NEW j \in 1 .. n PROVE z[j] = w[g[j]]
  <2>1. PICK e \in 1 .. M : e = f[n - j + 1]
    BY <1>3, <1>5
  <2>2. z[j] = k[e]
    BY <1>2, <1>3, <1>5, <2>1
  <2>3. g[j] = M - e + 1
    BY <2>1
  <2>4. M - e + 1 \in 1 .. M /\ M - (M - e + 1) + 1 = e
    OBVIOUS
  <2> HIDE DEF g, w
  <2> QED BY <1>4, <2>2, <2>3, <2>4
<1>10. ASSUME NEW j \in 1 .. M - 1 PROVE w[j] # w[j + 1]
  <2>1. M - j \in 1 .. M - 1 /\ M - (j + 1) + 1 = M - j /\ j \in 1 .. M /\ j + 1 \in 1 .. M
    OBVIOUS
  <2>2. w[j] = k[M - j + 1] /\ w[j + 1] = k[M - j]
    <3> HIDE DEF w
    <3> QED BY <1>4, <2>1
  <2> HIDE DEF w
  <2> QED BY <1>3, <2>1, <2>2
<1>11. w[M] = w[1]
  <2>1. M \in 1 .. M /\ 1 \in 1 .. M /\ M - M + 1 = 1 /\ M - 1 + 1 = M
    BY <1>3
  <2>2. w[M] = k[1] /\ w[1] = k[M]
    <3> HIDE DEF w
    <3> QED BY <1>4, <2>1
  <2> HIDE DEF w
  <2> QED BY <1>3, <2>2
<1> HIDE DEF g, w
<1>12. IsLoopOf(g, z, w)
  BY <1>2, <1>3, <1>4, <1>6, <1>7, <1>8, <1>9, <1>10, <1>11 DEF IsLoopOf, Traces
<1> QED BY <1>12 DEF w

(* The vertices kept of a loop, all but its last.                          *)
LEMMA OpenLoop ==
  ASSUME NEW k \in Seq(Cells), NEW M \in Nat, M = Len(k), M >= 3
  PROVE  /\ SubSeq(k, 1, M - 1) \in Seq(Cells)
         /\ Len(SubSeq(k, 1, M - 1)) = M - 1
         /\ \A j \in 1 .. M - 1 : SubSeq(k, 1, M - 1)[j] = k[j]
<1> DEFINE t == SubSeq(k, 1, M - 1)
<1>1. 1 \in 1 .. M + 1 /\ M - 1 \in 0 .. M /\ 1 <= (M - 1) + 1 /\ (M - 1) - 1 + 1 = M - 1
      /\ \A j \in 1 .. M - 1 : 1 + j - 1 = j
  OBVIOUS
<1>2. /\ t \in Seq(Cells) /\ Len(t) = (M - 1) - 1 + 1
      /\ \A j \in 1 .. (M - 1) - 1 + 1 : t[j] = k[1 + j - 1]
  BY <1>1, PartIs
<1> HIDE DEF t
<1>3. t \in Seq(Cells) /\ Len(t) = M - 1 /\ \A j \in 1 .. M - 1 : t[j] = k[j]
  BY <1>1, <1>2
<1> QED BY <1>3 DEF t

(* What is kept of a ring listed backwards: reversed, and rotated.         *)
LEMMA ReversedKept ==
  ASSUME NEW r \in Seq(Int \X Int), IsClosed(r), NEW s, s = Reverse(r)
  PROVE  /\ s \in Seq(Int \X Int) /\ Len(s) = Len(r) /\ IsClosed(s)
         /\ \/ Len(Kept(r)) = 1 /\ Len(Kept(s)) = 1
            \/ IsRotated(Kept(s), Reverse(Kept(r)))
<1>0. PICK n \in Nat : n = Len(r)
  OBVIOUS
<1>2. n > 1 /\ r[1] = r[n]
  BY <1>0 DEF IsClosed
<1> DEFINE P == Int \X Int
<1>3. s \in Seq(P) /\ Len(s) = n /\ \A j \in 1 .. n : s[j] = r[n - j + 1]
  <2>1. r \in Seq(P)
    OBVIOUS
  <2> HIDE DEF P
  <2> QED BY <1>0, <2>1, ReverseProperties
<1>4. IsClosed(s)
  <2>1. n - 1 + 1 = n /\ n - n + 1 = 1 /\ 1 \in 1 .. n /\ n \in 1 .. n
    BY <1>2
  <2>2. s[1] = r[n] /\ s[n] = r[1]
    BY <1>3, <2>1
  <2> QED BY <1>2, <1>3, <2>2 DEF IsClosed
<1> DEFINE q == Lattice(r)
           z == Lattice(s)
<1>5. q \in Seq(Cells) /\ Len(q) = n /\ \A j \in 1 .. n : q[j] = Quantize(r[j])
  BY <1>0, LatticeProperties
<1>6. z \in Seq(Cells) /\ Len(z) = n /\ \A j \in 1 .. n : z[j] = Quantize(s[j])
  BY <1>3, LatticeProperties
<1> HIDE DEF q, z
<1>7. \A j \in 1 .. n : n - j + 1 \in 1 .. n
  OBVIOUS
<1>8. IsReversed(z, q, n)
  <2>1. \A j \in 1 .. n : z[j] = q[n - j + 1]
    BY <1>3, <1>5, <1>6, <1>7
  <2> QED BY <1>5, <1>6, <2>1 DEF IsReversed
<1>9. CASE IsFlat(q)
  <2>1. \A j \in 1 .. n : z[j] = q[1]
    BY <1>5, <1>7, <1>8, <1>9 DEF IsFlat, IsReversed
  <2>2. 1 \in 1 .. n
    BY <1>2
  <2>3. IsFlat(z)
    BY <1>6, <2>1, <2>2 DEF IsFlat
  <2>4. Len(r) >= 1 /\ Len(s) >= 1
    BY <1>0, <1>2, <1>3
  <2>5. Len(Kept(r)) = 1
    BY <1>9, <2>4, FlatKept DEF q
  <2>6. Len(Kept(s)) = 1
    BY <1>3, <2>3, <2>4, FlatKept DEF z
  <2> QED BY <1>0, <1>3, <1>4, <2>5, <2>6
<1>10. CASE ~IsFlat(q)
  <2>0. PICK k \in Seq(Cells) : \E f : IsLoopOf(f, q, k)
    BY <1>10, LoopExists DEF q
  <2>1. PICK f : IsLoopOf(f, q, k)
    BY <2>0
  <2> DEFINE w == Reverse(k)
  <2>2. PICK g : IsLoopOf(g, z, w)
    BY <1>2, <1>8, <2>1, ReversedLoop
  <2>5. PICK M \in Nat : M = Len(k)
    OBVIOUS
  <2>7. w \in Seq(Cells) /\ Len(w) = M /\ M >= 3 /\ k[M] = k[1]
        /\ \A j \in 1 .. M : w[j] = k[M - j + 1]
    <3>1. w \in Seq(Cells) /\ Len(w) = Len(k) /\ \A j \in 1 .. Len(k) : w[j] = k[Len(k) - j + 1]
      BY ReverseProperties
    <3>2. Len(k) >= 3 /\ k[Len(k)] = k[1]
      BY <2>1 DEF IsLoopOf
    <3> HIDE DEF w
    <3> QED BY <2>5, <3>1, <3>2
  <2> HIDE DEF w
  <2> DEFINE t == SubSeq(k, 1, M - 1)
             u == SubSeq(w, 1, M - 1)
             v == Reverse(t)
  <2>3. Kept(r) = t
    <3>1. Len(r) >= 1
      BY <1>0, <1>2
    <3> QED BY <2>1, <2>5, <3>1, LoopKept DEF q
  <2>4. Kept(s) = u
    <3>1. Len(s) >= 1
      BY <1>3, <1>2
    <3> QED BY <1>3, <2>2, <2>7, <3>1, LoopKept DEF z
  <2>9. t \in Seq(Cells) /\ Len(t) = M - 1 /\ \A j \in 1 .. M - 1 : t[j] = k[j]
    BY <2>5, <2>7, OpenLoop
  <2>10. u \in Seq(Cells) /\ Len(u) = M - 1 /\ \A j \in 1 .. M - 1 : u[j] = w[j]
    BY <2>7, OpenLoop
  <2> HIDE DEF t, u
  <2>11. v \in Seq(Cells) /\ Len(v) = M - 1 /\ \A j \in 1 .. M - 1 : v[j] = k[M - j]
    <3>1. v \in Seq(Cells) /\ Len(v) = Len(t) /\ \A j \in 1 .. Len(t) : v[j] = t[Len(t) - j + 1]
      BY <2>9, ReverseProperties
    <3>2. \A j \in 1 .. M - 1 : (M - 1) - j + 1 = M - j /\ M - j \in 1 .. M - 1
      OBVIOUS
    <3> HIDE DEF v
    <3> QED BY <2>9, <3>1, <3>2
  <2> HIDE DEF v
  <2>8. M - 1 \in 1 .. M - 1
    BY <2>7
  <2>12. /\ RotateTo(v, M - 1) \in Seq(Cells) /\ Len(RotateTo(v, M - 1)) = M - 1
         /\ \A j \in 1 .. M - 1 : RotateTo(v, M - 1)[j] = v[Around(M - 1, M - 1, j)]
    <3>1. M - 1 \in 1 .. Len(v)
      BY <2>8, <2>11
    <3>2. /\ RotateTo(v, M - 1) \in Seq(Cells) /\ Len(RotateTo(v, M - 1)) = Len(v)
          /\ \A j \in 1 .. Len(v) : RotateTo(v, M - 1)[j] = v[Around(Len(v), M - 1, j)]
      BY <2>11, <3>1, RotateProperties
    <3> QED BY <2>11, <3>2
  <2>13. ASSUME NEW j \in 1 .. M - 1 PROVE u[j] = RotateTo(v, M - 1)[j]
    <3>1. u[j] = k[M - j + 1]
      BY <2>7, <2>10
    <3>2. CASE j = 1
      <4>1. Around(M - 1, M - 1, j) = M - 1 /\ M - (M - 1) = 1 /\ M - j + 1 = M
        BY <3>2, <2>7 DEF Around
      <4>2. RotateTo(v, M - 1)[j] = k[1]
        BY <2>8, <2>11, <2>12, <4>1
      <4> QED BY <2>7, <3>1, <4>1, <4>2
    <3>3. CASE j # 1
      <4>1. Around(M - 1, M - 1, j) = j - 1 /\ M - (j - 1) = M - j + 1 /\ j - 1 \in 1 .. M - 1
        BY <3>3, <2>7 DEF Around
      <4>2. RotateTo(v, M - 1)[j] = v[j - 1]
        BY <2>12, <4>1
      <4>3. v[j - 1] = k[M - (j - 1)]
        BY <2>11, <4>1
      <4> QED BY <3>1, <4>1, <4>2, <4>3
    <3> QED BY <3>2, <3>3
  <2>14. u = RotateTo(v, M - 1)
    BY <2>10, <2>12, <2>13, SeqEqual
  <2>15. M - 1 \in 1 .. Len(v)
    BY <2>8, <2>11
  <2>16. IsRotated(u, v)
    BY <2>14, <2>15 DEF IsRotated
  <2> QED BY <1>0, <1>3, <1>4, <2>3, <2>4, <2>16 DEF v
<1> QED BY <1>9, <1>10

(***************************************************************************)
(* The signed area                                                         *)
(***************************************************************************)

(* The partial sums of n integers.                                         *)
IsSum(S, e, n) ==
  /\ S \in [0 .. n -> Int]
  /\ S[0] = 0
  /\ \A i \in 1 .. n : S[i] = S[i - 1] + e[i]

(* A sum over the edges, edge after edge.                                  *)
LEMMA SumExists ==
  ASSUME NEW n \in Nat, NEW e, \A i \in 1 .. n : e[i] \in Int
  PROVE  \E S : IsSum(S, e, n)
<1> DEFINE Z == Int
           c == 0
           step == [i \in 1 .. n |-> [x \in Z |-> x + e[i]]]
<1>1. c \in Z /\ step \in [1 .. n -> [Z -> Z]] /\ n \in Nat
  <2>1. \A i \in 1 .. n : \A x \in Z : x + e[i] \in Z
    OBVIOUS
  <2> HIDE DEF Z
  <2> QED BY <2>1 DEF Z
<1>2. PICK S : IsLoop(S, Z, c, n, step)
  <2> HIDE DEF Z, c, step
  <2> QED BY <1>1, Iterate
<1>3. S \in [0 .. n -> Int] /\ S[0] = 0 /\ \A i \in 1 .. n : S[i] = step[i][S[i - 1]]
  BY <1>2 DEF IsLoop
<1>4. ASSUME NEW i \in 1 .. n PROVE S[i] = S[i - 1] + e[i]
  <2>1. i - 1 \in 0 .. n
    OBVIOUS
  <2>2. S[i - 1] \in Int
    BY <1>3, <2>1
  <2>3. S[i] = step[i][S[i - 1]]
    BY <1>3
  <2> QED BY <2>2, <2>3
<1> QED BY <1>3, <1>4 DEF IsSum

(* Such a sum has one value.                                               *)
LEMMA OneSum ==
  ASSUME NEW n \in Nat, NEW e, NEW S, NEW G, IsSum(S, e, n),
         G[0] = 0, \A i \in 1 .. n : G[i] = G[i - 1] + e[i]
  PROVE  S[n] = G[n]
<1>1. S[0] = 0 /\ \A i \in 1 .. n : S[i] = S[i - 1] + e[i]
  BY DEF IsSum
<1>2. InStep(S, G, n)
  BY <1>1 DEF InStep
<1>3. \A i \in 0 .. n : S[i] = G[i]
  BY <1>2, SameIterate
<1> QED BY <1>3

(* It may start at any edge.                                               *)
LEMMA TurnedSum ==
  ASSUME NEW n \in Nat, NEW a \in 1 .. n, NEW e, NEW d, NEW S, NEW R,
         \A i \in 1 .. n : e[i] \in Int, \A i \in 1 .. n : d[i] = e[Around(n, a, i)],
         IsSum(S, e, n), IsSum(R, d, n)
  PROVE  R[n] = S[n]
<1> DEFINE m == n - a + 1
           G == [i \in 0 .. n |-> IF i <= m THEN S[a + i - 1] - S[a - 1]
                                  ELSE S[n] - S[a - 1] + S[i - m]]
<1>1. /\ S \in [0 .. n -> Int]
      /\ S[0] = 0
      /\ \A i \in 1 .. n : S[i] = S[i - 1] + e[i]
  BY DEF IsSum
<1>2. PICK x \in Int, y \in Int : x = S[a - 1] /\ y = S[n]
  <2>1. a - 1 \in 0 .. n /\ n \in 0 .. n
    OBVIOUS
  <2> QED BY <1>1, <2>1
<1>3. G[0] = 0
  <2>1. 0 \in 0 .. n /\ 0 <= m /\ a + 0 - 1 = a - 1
    OBVIOUS
  <2>2. G[0] = x - x
    BY <1>2, <2>1
  <2> QED BY <2>2
<1>4. ASSUME NEW i \in 1 .. n PROVE G[i] = G[i - 1] + d[i]
  <2>0. i \in 0 .. n /\ i - 1 \in 0 .. n
    OBVIOUS
  <2>1. CASE i <= m
    <3>1. /\ i - 1 <= m /\ a + i - 1 \in 1 .. n /\ a + (i - 1) - 1 = (a + i - 1) - 1
          /\ Around(n, a, i) = a + i - 1 /\ (a + i - 1) - 1 \in 0 .. n
      BY <2>1 DEF Around
    <3>2. PICK z \in Int, w \in Int : z = S[(a + i - 1) - 1] /\ w = e[a + i - 1]
      BY <1>1, <3>1
    <3>3. S[a + i - 1] = z + w
      BY <1>1, <3>1, <3>2
    <3>4. G[i] = (z + w) - x
      BY <1>2, <2>0, <2>1, <3>3
    <3>5. G[i - 1] = z - x
      BY <1>2, <2>0, <3>1, <3>2
    <3>6. d[i] = w
      BY <3>1, <3>2
    <3> HIDE DEF G
    <3> QED BY <3>4, <3>5, <3>6
  <2>2. CASE m < i
    <3>1. /\ i - m \in 1 .. n /\ (i - 1) - m = (i - m) - 1 /\ ~(i <= m)
          /\ Around(n, a, i) = i - m /\ (i - m) - 1 \in 0 .. n
      BY <2>2 DEF Around
    <3>2. PICK z \in Int, w \in Int : z = S[(i - m) - 1] /\ w = e[i - m]
      BY <1>1, <3>1
    <3>3. S[i - m] = z + w
      BY <1>1, <3>1, <3>2
    <3>4. G[i] = y - x + (z + w)
      BY <1>2, <2>0, <3>1, <3>3
    <3>5. G[i - 1] = y - x + z
      <4>1. CASE i - 1 <= m
        <5>1. i - 1 = m /\ a + (i - 1) - 1 = n /\ (i - m) - 1 = 0
          BY <2>2, <4>1
        <5>2. z = 0
          BY <1>1, <3>2, <5>1
        <5>3. G[i - 1] = y - x
          BY <1>2, <2>0, <4>1, <5>1
        <5> HIDE DEF G
        <5> QED BY <5>2, <5>3
      <4>2. CASE ~(i - 1 <= m)
        BY <1>2, <2>0, <3>1, <3>2, <4>2
      <4> QED BY <4>1, <4>2
    <3>6. d[i] = w
      BY <3>1, <3>2
    <3> HIDE DEF G, m
    <3> QED BY <3>4, <3>5, <3>6
  <2> QED BY <2>1, <2>2
<1>5. G[n] = S[n]
  <2>0. n \in 0 .. n
    OBVIOUS
  <2>1. CASE a = 1
    <3>1. n <= m /\ a + n - 1 = n /\ a - 1 = 0
      BY <2>1
    <3>2. x = 0
      BY <1>1, <1>2, <3>1
    <3>3. G[n] = y - x
      BY <1>2, <2>0, <3>1
    <3> HIDE DEF G
    <3> QED BY <1>2, <3>2, <3>3
  <2>2. CASE a # 1
    <3>1. ~(n <= m) /\ n - m = a - 1
      BY <2>2
    <3>2. G[n] = y - x + x
      BY <1>2, <2>0, <3>1
    <3> HIDE DEF G
    <3> QED BY <1>2, <3>2
  <2> QED BY <2>1, <2>2
<1> HIDE DEF G, m
<1>6. R[n] = G[n]
  BY <1>3, <1>4, OneSum
<1> QED BY <1>5, <1>6

(* And it is the opposite if every edge is turned round.                   *)
LEMMA ReversedSum ==
  ASSUME NEW n \in Nat, n >= 1, NEW e, NEW d, NEW S, NEW R,
         \A i \in 1 .. n : e[i] \in Int,
         \A i \in 1 .. n : d[i] = -e[IF i = n THEN n ELSE n - i],
         IsSum(S, e, n), IsSum(R, d, n)
  PROVE  S[n] \in Int /\ R[n] = -S[n]
<1> DEFINE G == [i \in 0 .. n |-> IF i = n THEN -S[n] ELSE S[n - 1 - i] - S[n - 1]]
<1>1. /\ S \in [0 .. n -> Int]
      /\ S[0] = 0
      /\ \A i \in 1 .. n : S[i] = S[i - 1] + e[i]
  BY DEF IsSum
<1>2. PICK x \in Int, y \in Int : x = S[n - 1] /\ y = S[n]
  <2>1. n - 1 \in 0 .. n /\ n \in 0 .. n
    OBVIOUS
  <2> QED BY <1>1, <2>1
<1>3. G[0] = 0
  <2>1. 0 \in 0 .. n /\ 0 # n /\ n - 1 - 0 = n - 1
    OBVIOUS
  <2>2. G[0] = x - x
    BY <1>2, <2>1
  <2> QED BY <2>2
<1>4. ASSUME NEW i \in 1 .. n PROVE G[i] = G[i - 1] + d[i]
  <2>0. i \in 0 .. n /\ i - 1 \in 0 .. n /\ i - 1 # n
    OBVIOUS
  <2>1. CASE i # n
    <3>1. n - i \in 1 .. n /\ n - 1 - i = (n - i) - 1 /\ n - 1 - (i - 1) = n - i
          /\ (n - i) - 1 \in 0 .. n
      BY <2>1
    <3>2. PICK z \in Int, w \in Int : z = S[(n - i) - 1] /\ w = e[n - i]
      BY <1>1, <3>1
    <3>3. S[n - i] = z + w
      BY <1>1, <3>1, <3>2
    <3>4. G[i] = z - x
      BY <1>2, <2>0, <2>1, <3>1, <3>2
    <3>5. G[i - 1] = (z + w) - x
      BY <1>2, <2>0, <3>1, <3>3
    <3>6. d[i] = -w
      BY <2>1, <3>2
    <3> HIDE DEF G
    <3> QED BY <3>4, <3>5, <3>6
  <2>2. CASE i = n
    <3>1. n \in 1 .. n /\ n - 1 - (i - 1) = 0
      BY <2>2
    <3>2. PICK w \in Int : w = e[n]
      BY <3>1
    <3>3. y = x + w
      BY <1>1, <1>2, <3>1, <3>2
    <3>4. G[i] = -y
      BY <1>2, <2>0, <2>2
    <3>5. G[i - 1] = 0 - x
      BY <1>1, <1>2, <2>0, <3>1
    <3>6. d[i] = -w
      BY <2>2, <3>2
    <3> HIDE DEF G
    <3> QED BY <3>3, <3>4, <3>5, <3>6
  <2> QED BY <2>1, <2>2
<1>5. G[n] = -S[n] /\ S[n] \in Int
  <2>0. n \in 0 .. n
    OBVIOUS
  <2> QED BY <1>2, <2>0
<1> HIDE DEF G
<1>6. R[n] = G[n]
  BY <1>3, <1>4, OneSum
<1> QED BY <1>5, <1>6

(* The edges of a ring.                                                    *)
After(n, i) == IF i = n THEN 1 ELSE i + 1

Edges(u) == [i \in 1 .. Len(u) |-> Cross(u[i], u[After(Len(u), i)])]

LEMMA CrossProperties ==
  ASSUME NEW p \in Cells, NEW q \in Cells
  PROVE  Cross(p, q) \in Int /\ Cross(q, p) = -Cross(p, q)
<1>1. p[1] \in Int /\ p[2] \in Int /\ q[1] \in Int /\ q[2] \in Int
  BY DEF Cells
<1>2. PICK x \in Int, y \in Int : x = p[1] * q[2] /\ y = q[1] * p[2]
  BY <1>1
<1>3. Cross(p, q) = x - y /\ Cross(q, p) = y - x
  BY <1>2 DEF Cross
<1> QED BY <1>3

LEMMA EdgesAreInt ==
  ASSUME NEW u \in Seq(Cells), NEW i \in 1 .. Len(u)
  PROVE  Edges(u)[i] \in Int /\ Edges(u)[i] = Cross(u[i], u[After(Len(u), i)])
<1>1. After(Len(u), i) \in 1 .. Len(u)
  BY DEF After
<1>2. u[i] \in Cells /\ u[After(Len(u), i)] \in Cells
  BY <1>1, ElementOfSeq
<1>3. Edges(u)[i] = Cross(u[i], u[After(Len(u), i)])
  BY DEF Edges
<1> QED BY <1>2, <1>3, CrossProperties

(* Twice the signed area is such a sum.                                    *)
LEMMA ShoelaceIsSum ==
  ASSUME NEW u \in Seq(Cells)
  PROVE  \E S : IsSum(S, Edges(u), Len(u)) /\ Shoelace(u) = S[Len(u)]
<1> DEFINE n == Len(u)
           e == Edges(u)
           h == CHOOSE sum : sum =
                  [i \in 0 .. n |->
                     IF i = 0 THEN 0 ELSE sum[i - 1] + Cross(u[i], u[IF i = n THEN 1 ELSE i + 1])]
<1>1. n \in Nat /\ \A i \in 1 .. n : /\ e[i] \in Int
                                    /\ e[i] = Cross(u[i], u[IF i = n THEN 1 ELSE i + 1])
  BY EdgesAreInt DEF After
<1> HIDE DEF e
<1>2. PICK S : IsSum(S, e, n)
  BY <1>1, SumExists
<1>3. S \in [0 .. n -> Int] /\ S[0] = 0 /\ \A i \in 1 .. n : S[i] = S[i - 1] + e[i]
  BY <1>2 DEF IsSum
<1>4. S = [i \in 0 .. n |-> IF i = 0 THEN 0
                           ELSE S[i - 1] + Cross(u[i], u[IF i = n THEN 1 ELSE i + 1])]
  <2>1. \A i \in 0 .. n : i = 0 \/ i \in 1 .. n
    BY <1>1
  <2>2. \A i \in 0 .. n : S[i] = IF i = 0 THEN 0
                                 ELSE S[i - 1] + Cross(u[i], u[IF i = n THEN 1 ELSE i + 1])
    BY <1>1, <1>3, <2>1
  <2>3. S = [i \in 0 .. n |-> S[i]]
    BY <1>3
  <2> HIDE DEF n
  <2> QED BY <2>2, <2>3
<1>5. h = [i \in 0 .. n |-> IF i = 0 THEN 0
                           ELSE h[i - 1] + Cross(u[i], u[IF i = n THEN 1 ELSE i + 1])]
  <2> HIDE DEF n
  <2> QED BY <1>4
<1>6. Shoelace(u) = h[n]
  BY DEF Shoelace
<1> HIDE DEF h, n
<1>7. h[0] = 0 /\ \A i \in 1 .. n : h[i] = h[i - 1] + e[i]
  <2>1. 0 \in 0 .. n /\ \A i \in 1 .. n : i \in 0 .. n /\ i # 0
    BY <1>1
  <2>2. h[0] = 0
    BY <1>5, <2>1
  <2>3. \A i \in 1 .. n : h[i] = h[i - 1] + Cross(u[i], u[IF i = n THEN 1 ELSE i + 1])
    BY <1>5, <2>1
  <2> QED BY <1>1, <2>2, <2>3
<1>8. S[n] = h[n]
  BY <1>1, <1>2, <1>7, OneSum
<1> QED BY <1>2, <1>6, <1>8 DEF n, e

(* The area does not depend on the start, and turns with the ring.         *)
LEMMA RotatedArea ==
  ASSUME NEW u \in Seq(Cells), NEW a \in 1 .. Len(u)
  PROVE  Shoelace(RotateTo(u, a)) = Shoelace(u)
<1> DEFINE v == RotateTo(u, a)
<1>1. PICK n \in Nat : n = Len(u)
  OBVIOUS
<1>2. v \in Seq(Cells) /\ Len(v) = n /\ \A j \in 1 .. n : v[j] = u[Around(n, a, j)]
  BY <1>1, RotateProperties
<1> HIDE DEF v
<1>3. PICK S : IsSum(S, Edges(u), n) /\ Shoelace(u) = S[n]
  BY <1>1, ShoelaceIsSum
<1>4. PICK R : IsSum(R, Edges(v), n) /\ Shoelace(v) = R[n]
  BY <1>2, ShoelaceIsSum
<1> DEFINE e == Edges(u)
           d == Edges(v)
<1>5. \A i \in 1 .. n : e[i] \in Int /\ e[i] = Cross(u[i], u[After(n, i)])
  BY <1>1, EdgesAreInt
<1>6. \A i \in 1 .. n : d[i] = Cross(v[i], v[After(n, i)])
  BY <1>2, EdgesAreInt
<1> HIDE DEF e, d
<1>7. a \in 1 .. n
  BY <1>1
<1>8. ASSUME NEW i \in 1 .. n PROVE d[i] = e[Around(n, a, i)]
  <2>1. After(n, i) \in 1 .. n /\ Around(n, a, i) \in 1 .. n
        /\ Around(n, a, After(n, i)) = After(n, Around(n, a, i))
    BY <1>7 DEF After, Around
  <2>2. v[i] = u[Around(n, a, i)] /\ v[After(n, i)] = u[After(n, Around(n, a, i))]
    BY <1>2, <2>1
  <2> QED BY <1>5, <1>6, <2>1, <2>2
<1>9. R[n] = S[n]
  <2>1. IsSum(S, e, n) /\ IsSum(R, d, n)
    BY <1>3, <1>4 DEF e, d
  <2>2. (\A i \in 1 .. n : e[i] \in Int) /\ \A i \in 1 .. n : d[i] = e[Around(n, a, i)]
    BY <1>5, <1>8
  <2> QED BY ONLY <1>7, <2>1, <2>2, n \in Nat, TurnedSum
<1> QED BY <1>3, <1>4, <1>9 DEF v

(* A ring listed backwards has the opposite area.                          *)
LEMMA ReversedArea ==
  ASSUME NEW u \in Seq(Cells), Len(u) >= 1
  PROVE  Shoelace(u) \in Int /\ Shoelace(Reverse(u)) = -Shoelace(u)
<1> DEFINE v == Reverse(u)
<1>1. PICK n \in Nat : n = Len(u)
  OBVIOUS
<1>2. v \in Seq(Cells) /\ Len(v) = n /\ \A j \in 1 .. n : v[j] = u[n - j + 1]
  BY <1>1, ReverseProperties
<1> HIDE DEF v
<1>3. PICK S : IsSum(S, Edges(u), n) /\ Shoelace(u) = S[n]
  BY <1>1, ShoelaceIsSum
<1>4. PICK R : IsSum(R, Edges(v), n) /\ Shoelace(v) = R[n]
  BY <1>2, ShoelaceIsSum
<1> DEFINE e == Edges(u)
           d == Edges(v)
<1>5. \A i \in 1 .. n : e[i] \in Int /\ e[i] = Cross(u[i], u[After(n, i)])
  BY <1>1, EdgesAreInt
<1>6. \A i \in 1 .. n : d[i] = Cross(v[i], v[After(n, i)])
  BY <1>2, EdgesAreInt
<1>7. \A i \in 1 .. n : u[i] \in Cells
  BY <1>1, ElementOfSeq
<1> HIDE DEF e, d
<1>8. ASSUME NEW i \in 1 .. n PROVE d[i] = -e[IF i = n THEN n ELSE n - i]
  <2>1. CASE i = n
    <3>1. After(n, i) = 1 /\ 1 \in 1 .. n /\ n - i + 1 = 1 /\ n - 1 + 1 = n
      BY <2>1 DEF After
    <3>2. v[i] = u[1] /\ v[After(n, i)] = u[n]
      BY <1>2, <3>1
    <3>3. d[i] = Cross(u[1], u[n]) /\ e[n] = Cross(u[n], u[1]) /\ u[1] \in Cells /\ u[n] \in Cells
      BY <1>5, <1>6, <1>7, <2>1, <3>1, <3>2
    <3>4. d[i] = -e[n]
      BY <3>3, CrossProperties
    <3> QED BY <2>1, <3>4
  <2>2. CASE i # n
    <3>1. After(n, i) = i + 1 /\ i + 1 \in 1 .. n /\ n - (i + 1) + 1 = n - i /\ n - i \in 1 .. n
          /\ After(n, n - i) = n - i + 1 /\ n - i + 1 \in 1 .. n
      BY <2>2 DEF After
    <3>2. v[i] = u[n - i + 1] /\ v[After(n, i)] = u[n - i]
      BY <1>2, <3>1
    <3>3. d[i] = Cross(u[n - i + 1], u[n - i]) /\ e[n - i] = Cross(u[n - i], u[n - i + 1])
          /\ u[n - i] \in Cells /\ u[n - i + 1] \in Cells
      BY <1>5, <1>6, <1>7, <3>1, <3>2
    <3>4. d[i] = -e[n - i]
      BY <3>3, CrossProperties
    <3> QED BY <2>2, <3>4
  <2> QED BY <2>1, <2>2
<1>9. S[n] \in Int /\ R[n] = -S[n]
  <2>1. IsSum(S, e, n) /\ IsSum(R, d, n)
    BY <1>3, <1>4 DEF e, d
  <2>2. (\A i \in 1 .. n : e[i] \in Int) /\ \A i \in 1 .. n : d[i] = -e[IF i = n THEN n ELSE n - i]
    BY <1>5, <1>8
  <2>3. n >= 1
    BY <1>1
  <2> QED BY ONLY <2>1, <2>2, <2>3, n \in Nat, ReversedSum
<1> QED BY <1>3, <1>4, <1>9 DEF v

(***************************************************************************)
(* The canonical bytes of a ring do not depend on start and direction      *)
(***************************************************************************)

LEMMA AroundTwice ==
  ASSUME NEW n \in Nat, NEW a \in 1 .. n, NEW b \in 1 .. n, NEW j \in 1 .. n
  PROVE  Around(n, a, Around(n, b, j)) = Around(n, Around(n, a, b), j)
BY DEF Around

LEMMA RotatedTwice ==
  ASSUME NEW P, NEW u \in Seq(P), NEW a \in 1 .. Len(u), NEW b \in 1 .. Len(u)
  PROVE  RotateTo(RotateTo(u, a), b) = RotateTo(u, Around(Len(u), a, b))
<1>1. PICK n \in Nat : n = Len(u)
  OBVIOUS
<1>2. a \in 1 .. n /\ b \in 1 .. n /\ Around(n, a, b) \in 1 .. n
  BY <1>1, AroundIn
<1> DEFINE c == Around(n, a, b)
           v == RotateTo(u, a)
           w == RotateTo(v, b)
           x == RotateTo(u, c)
<1>3. v \in Seq(P) /\ Len(v) = n /\ \A j \in 1 .. n : v[j] = u[Around(n, a, j)]
  BY <1>1, RotateProperties
<1> HIDE DEF v
<1>4. w \in Seq(P) /\ Len(w) = n /\ \A j \in 1 .. n : w[j] = v[Around(n, b, j)]
  BY <1>2, <1>3, RotateProperties
<1>5. x \in Seq(P) /\ Len(x) = n /\ \A j \in 1 .. n : x[j] = u[Around(n, c, j)]
  BY <1>1, <1>2, RotateProperties
<1> HIDE DEF w, x
<1>6. ASSUME NEW j \in 1 .. n PROVE w[j] = x[j]
  <2>1. Around(n, b, j) \in 1 .. n /\ Around(n, a, Around(n, b, j)) = Around(n, c, j)
    BY <1>2, AroundIn, AroundTwice
  <2> HIDE DEF c
  <2> QED BY <1>3, <1>4, <1>5, <2>1
<1>7. w = x
  <2> HIDE DEF c
  <2> QED BY <1>4, <1>5, <1>6, SeqEqual
<1> QED BY <1>1, <1>7 DEF w, x, v

(* Every place is reached from another start.                              *)
LEMMA AroundOnto ==
  ASSUME NEW n \in Nat, NEW a \in 1 .. n, NEW k \in 1 .. n
  PROVE  \E j \in 1 .. n : Around(n, a, j) = k
<1>1. CASE a <= k
  <2>1. k - a + 1 \in 1 .. n /\ Around(n, a, k - a + 1) = k
    BY <1>1 DEF Around
  <2> QED BY <2>1
<1>2. CASE k < a
  <2>1. k - a + 1 + n \in 1 .. n /\ Around(n, a, k - a + 1 + n) = k
    BY <1>2 DEF Around
  <2> QED BY <2>1
<1> QED BY <1>1, <1>2

LEMMA RotatedVertices ==
  ASSUME NEW P, NEW u \in Seq(P), NEW a \in 1 .. Len(u)
  PROVE  ToSet(RotateTo(u, a)) = ToSet(u)
<1> DEFINE v == RotateTo(u, a)
<1>1. PICK n \in Nat : n = Len(u)
  OBVIOUS
<1>2. a \in 1 .. n
  BY <1>1
<1>3. v \in Seq(P) /\ Len(v) = n /\ \A j \in 1 .. n : v[j] = u[Around(n, a, j)]
  BY <1>1, RotateProperties
<1> HIDE DEF v
<1>4. ToSet(v) = {v[j] : j \in 1 .. n} /\ ToSet(u) = {u[j] : j \in 1 .. n}
  BY <1>1, <1>3 DEF ToSet
<1>5. \A j \in 1 .. n : Around(n, a, j) \in 1 .. n
  BY <1>2, AroundIn
<1>6. \A k \in 1 .. n : \E j \in 1 .. n : Around(n, a, j) = k
  BY <1>2, AroundOnto
<1>7. ToSet(v) = ToSet(u)
  <2>1. ASSUME NEW x \in ToSet(v) PROVE x \in ToSet(u)
    <3>1. PICK j \in 1 .. n : x = v[j]
      BY <1>4
    <3> QED BY <1>3, <1>4, <1>5, <3>1
  <2>2. ASSUME NEW x \in ToSet(u) PROVE x \in ToSet(v)
    <3>1. PICK k \in 1 .. n : x = u[k]
      BY <1>4
    <3>2. PICK j \in 1 .. n : Around(n, a, j) = k
      BY <1>6
    <3> QED BY <1>3, <1>4, <3>1, <3>2
  <2> QED BY <2>1, <2>2
<1> QED BY <1>7 DEF v

(* A ring and its rotations have one least rotation.                       *)
LEMMA RotatedLeast ==
  ASSUME NEW u \in Seq(Cells), NEW a \in 1 .. Len(u)
  PROVE  LeastRotation(RotateTo(u, a)) = LeastRotation(u)
<1> DEFINE v == RotateTo(u, a)
<1>1. PICK n \in Nat : n = Len(u)
  OBVIOUS
<1>2. a \in 1 .. n /\ n >= 1
  BY <1>1
<1>3. v \in Seq(Cells) /\ Len(v) = n /\ \A j \in 1 .. n : v[j] = u[Around(n, a, j)]
  BY <1>1, RotateProperties
<1>4. \A j \in 1 .. n : Around(n, a, j) \in 1 .. n /\ RotateTo(v, j) = RotateTo(u, Around(n, a, j))
  BY <1>1, <1>2, AroundIn, RotatedTwice
<1>5. ToSet(v) = ToSet(u)
  BY RotatedVertices
<1> HIDE DEF v
<1>6. \A j \in 1 .. n : j \in Starts(v) <=> Around(n, a, j) \in Starts(u)
  BY <1>1, <1>3, <1>4, <1>5 DEF Starts
<1>7. \A j \in 1 .. n : From(v, j) = From(u, Around(n, a, j))
  BY <1>4 DEF From
<1>8. IsLeastRotation(LeastRotation(v), v)
  BY <1>2, <1>3, LeastRotationIsLeast
<1>9. PICK i \in Starts(v) :
        /\ LeastRotation(v) = RotateTo(v, i)
        /\ \A k \in Starts(v) : ~LexLess(From(v, k), From(v, i))
  BY <1>8 DEF IsLeastRotation
<1>10. i \in 1 .. n /\ Starts(u) \subseteq 1 .. n
  BY <1>1, <1>3 DEF Starts
<1>11. ASSUME NEW k \in Starts(u) PROVE ~LexLess(From(u, k), From(u, Around(n, a, i)))
  <2>1. PICK j \in 1 .. n : Around(n, a, j) = k
    BY <1>2, <1>10, AroundOnto
  <2>2. j \in Starts(v)
    BY <1>6, <2>1
  <2>3. ~LexLess(From(v, j), From(v, i))
    BY <1>9, <2>2
  <2> QED BY <1>7, <1>10, <2>1, <2>3
<1>12. IsLeastRotation(LeastRotation(v), u)
  <2>1. Around(n, a, i) \in Starts(u) /\ LeastRotation(v) = RotateTo(u, Around(n, a, i))
    BY <1>4, <1>6, <1>9, <1>10
  <2> QED BY <1>11, <2>1 DEF IsLeastRotation
<1>13. IsLeastRotation(LeastRotation(u), u)
  BY <1>1, <1>2, LeastRotationIsLeast
<1>14. LeastRotation(v) = LeastRotation(u)
  BY <1>12, <1>13, OneLeastRotation
<1> QED BY <1>14 DEF v

(* What is turned and reversed is reversed and turned.                     *)
LEMMA ReversedRotation ==
  ASSUME NEW P, NEW u \in Seq(P), NEW a \in 1 .. Len(u)
  PROVE  IsRotated(Reverse(RotateTo(u, a)), Reverse(u))
<1> DEFINE v == RotateTo(u, a)
           w == Reverse(v)
           x == Reverse(u)
           b == IF a = 1 THEN 1 ELSE Len(u) + 2 - a
           y == RotateTo(x, b)
<1>1. PICK n \in Nat : n = Len(u)
  OBVIOUS
<1>2. a \in 1 .. n /\ b \in 1 .. n /\ b = IF a = 1 THEN 1 ELSE n + 2 - a
  BY <1>1
<1> HIDE DEF b
<1>3. v \in Seq(P) /\ Len(v) = n /\ \A j \in 1 .. n : v[j] = u[Around(n, a, j)]
  BY <1>1, RotateProperties
<1> HIDE DEF v
<1>4. w \in Seq(P) /\ Len(w) = n /\ \A j \in 1 .. n : w[j] = v[n - j + 1]
  BY <1>3, ReverseProperties
<1>5. x \in Seq(P) /\ Len(x) = n /\ \A j \in 1 .. n : x[j] = u[n - j + 1]
  BY <1>1, ReverseProperties
<1> HIDE DEF w, x
<1>6. y \in Seq(P) /\ Len(y) = n /\ \A j \in 1 .. n : y[j] = x[Around(n, b, j)]
  <2>1. x \in Seq(P) /\ b \in 1 .. Len(x)
    BY <1>2, <1>5
  <2>2. /\ RotateTo(x, b) \in Seq(P)
        /\ Len(RotateTo(x, b)) = Len(x)
        /\ \A j \in 1 .. Len(x) : RotateTo(x, b)[j] = x[Around(Len(x), b, j)]
    BY ONLY <2>1, RotateProperties
  <2> QED BY <1>5, <2>2
<1> HIDE DEF y
<1>7. ASSUME NEW j \in 1 .. n PROVE w[j] = y[j]
  <2>0. Around(n, b, j) \in 1 .. n
    BY <1>2, AroundIn
  <2>1. n - j + 1 \in 1 .. n /\ Around(n, b, j) \in 1 .. n
    BY <2>0
  <2>2. w[j] = u[Around(n, a, n - j + 1)]
    BY <1>3, <1>4, <2>1
  <2>3. y[j] = u[n - Around(n, b, j) + 1]
    BY <1>5, <1>6, <2>1
  <2>4. Around(n, a, n - j + 1) = n - Around(n, b, j) + 1
    BY <1>2 DEF Around
  <2> QED BY <2>2, <2>3, <2>4
<1>8. w = y
  BY <1>4, <1>6, <1>7, SeqEqual
<1>9. b \in 1 .. Len(x)
  BY <1>2, <1>5
<1>10. IsRotated(w, x)
  BY <1>8, <1>9 DEF IsRotated, y
<1> QED BY <1>10 DEF w, x, v

LEMMA ReversedTwice ==
  ASSUME NEW P, NEW u \in Seq(P)
  PROVE  Reverse(Reverse(u)) = u
<1> DEFINE v == Reverse(u)
           w == Reverse(v)
<1>1. PICK n \in Nat : n = Len(u)
  OBVIOUS
<1>2. v \in Seq(P) /\ Len(v) = n /\ \A j \in 1 .. n : v[j] = u[n - j + 1]
  BY <1>1, ReverseProperties
<1> HIDE DEF v
<1>3. w \in Seq(P) /\ Len(w) = n /\ \A j \in 1 .. n : w[j] = v[n - j + 1]
  BY <1>2, ReverseProperties
<1> HIDE DEF w
<1>4. \A j \in 1 .. n : n - j + 1 \in 1 .. n /\ n - (n - j + 1) + 1 = j
  OBVIOUS
<1>5. \A j \in 1 .. n : w[j] = u[j]
  BY <1>2, <1>3, <1>4
<1>6. w = u
  BY <1>1, <1>3, <1>5, SeqEqual
<1> QED BY <1>6 DEF w, v

(* The bytes of a ring do not depend on its start.                         *)
LEMMA RotatedCanonical ==
  ASSUME NEW u \in Seq(Cells), Len(u) >= 1, NEW v, IsRotated(v, u)
  PROVE  Canonical(v) = Canonical(u)
<1>1. PICK a \in 1 .. Len(u) : v = RotateTo(u, a)
  BY DEF IsRotated
<1>2. v \in Seq(Cells) /\ Len(v) = Len(u) /\ Len(u) \in Nat
  BY <1>1, RotateProperties
<1>3. Shoelace(v) = Shoelace(u)
  BY <1>1, RotatedArea
<1>4. LeastRotation(v) = LeastRotation(u)
  BY <1>1, RotatedLeast
<1>5. LeastRotation(Reverse(v)) = LeastRotation(Reverse(u))
  <2>1. PICK b \in 1 .. Len(Reverse(u)) : Reverse(v) = RotateTo(Reverse(u), b)
    BY <1>1, ReversedRotation DEF IsRotated
  <2>2. Reverse(u) \in Seq(Cells)
    BY ReverseProperties
  <2> QED BY <2>1, <2>2, RotatedLeast
<1> QED BY <1>2, <1>3, <1>4, <1>5 DEF Canonical

LEMMA Opposite ==
  ASSUME NEW x \in Int
  PROVE  /\ x = 0 => -x = 0
         /\ x > 0 => -x < 0 /\ -x # 0
         /\ x < 0 => ~(-x < 0) /\ -x # 0
OBVIOUS

(* Nor on its direction.                                                   *)
LEMMA ReversedCanonical ==
  ASSUME NEW u \in Seq(Cells), Len(u) >= 1
  PROVE  Canonical(Reverse(u)) = Canonical(u)
<1>1. Len(Reverse(u)) = Len(u)
  BY ReverseProperties
<1>2. PICK x \in Int : x = Shoelace(u)
  BY ReversedArea
<1>3. Shoelace(Reverse(u)) = -x
  BY <1>2, ReversedArea
<1>4. Reverse(Reverse(u)) = u
  BY ReversedTwice
<1>5. CASE x = 0
  <2>1. -x = 0
    BY <1>5, Opposite
  <2> QED BY <1>1, <1>2, <1>3, <1>5, <2>1 DEF Canonical
<1>6. CASE x > 0
  <2>1. -x < 0 /\ -x # 0 /\ ~(x < 0) /\ x # 0
    BY <1>6
  <2> QED BY <1>1, <1>2, <1>3, <1>4, <2>1 DEF Canonical
<1>7. CASE x < 0
  <2>1. ~(-x < 0) /\ -x # 0 /\ x # 0
    BY <1>7
  <2> QED BY <1>1, <1>2, <1>3, <1>4, <1>7, <2>1 DEF Canonical
<1> QED BY <1>5, <1>6, <1>7

(***************************************************************************)
(* A ring that is listed another way                                       *)
(***************************************************************************)

(* What repeats a vertex in its cell is a position of the service.         *)
LEMMA MateIsPosition ==
  ASSUME NEW p \in Position, NEW q \in CellMates(p)
  PROVE  q \in Position /\ Quantize(q) = Quantize(p)
<1>1. p[1] \in Int /\ p[2] \in Int /\ Fits(HalfEven(p[1])) /\ Fits(HalfEven(p[2]))
  BY DEF Position
<1>2. q \in Int \X Int /\ Quantize(q) = Quantize(p)
  BY <1>1 DEF CellMates
<1>3. HalfEven(q[1]) = HalfEven(p[1]) /\ HalfEven(q[2]) = HalfEven(p[2])
  BY <1>2 DEF Quantize
<1> QED BY <1>1, <1>2, <1>3 DEF Position

LEMMA PositionsArePairs ==
  ASSUME NEW r \in Seq(Position)
  PROVE  r \in Seq(Int \X Int)
<1>1. Position \subseteq Int \X Int
  BY DEF Position
<1> QED BY <1>1

IsSameRing(s, r) ==
  /\ s \in Seq(Position)
  /\ IsClosed(s)
  /\ SqlCanonRing(s) = SqlCanonRing(r)

(* Rings of which the same is kept, rotated or reversed, share bytes.      *)
LEMMA SameKept ==
  ASSUME NEW r \in Seq(Int \X Int), NEW s \in Seq(Int \X Int), Len(r) >= 1, Len(s) >= 1,
         \/ Kept(s) = Kept(r)
         \/ Len(Kept(r)) = 1 /\ Len(Kept(s)) = 1
         \/ IsRotated(Kept(s), Kept(r))
         \/ IsRotated(Kept(s), Reverse(Kept(r)))
  PROVE  SqlCanonRing(s) = SqlCanonRing(r)
<1>1. SqlCanonRing(s) = Canonical(Kept(s)) /\ SqlCanonRing(r) = Canonical(Kept(r))
  BY SqlCanonRingIs
<1>2. Kept(r) \in Seq(Cells) /\ Len(Kept(r)) >= 1
  BY KeptIsSeq
<1>3. CASE Kept(s) = Kept(r)
  BY <1>1, <1>3
<1>4. CASE Len(Kept(r)) = 1 /\ Len(Kept(s)) = 1
  BY <1>1, <1>4 DEF Canonical
<1>5. CASE IsRotated(Kept(s), Kept(r))
  BY <1>1, <1>2, <1>5, RotatedCanonical
<1>6. CASE IsRotated(Kept(s), Reverse(Kept(r)))
  <2>1. Reverse(Kept(r)) \in Seq(Cells) /\ Len(Reverse(Kept(r))) >= 1
    BY <1>2, ReverseProperties
  <2>2. Canonical(Kept(s)) = Canonical(Reverse(Kept(r)))
    BY <1>6, <2>1, RotatedCanonical
  <2> QED BY <1>1, <1>2, <2>2, ReversedCanonical
<1> QED BY <1>3, <1>4, <1>5, <1>6

(* A ring that is listed another way has the same bytes.                   *)
LEMMA RelistedRingIs ==
  ASSUME NEW r \in Seq(Position), IsClosed(r), NEW s \in RelistedRing(r)
  PROVE  IsSameRing(s, r)
<1>1. r \in Seq(Int \X Int) /\ Len(r) >= 1 /\ Len(r) \in Nat
  BY PositionsArePairs DEF IsClosed
<1>2. CASE s \in StartedElsewhere(r)
  <2>1. /\ s \in Seq(Int \X Int) /\ Len(s) = Len(r) /\ IsClosed(s)
        /\ \/ Len(Kept(r)) = 1 /\ Len(Kept(s)) = 1
           \/ IsRotated(Kept(s), Kept(r))
    BY <1>1, <1>2, StartedKept
  <2>2. SqlCanonRing(s) = SqlCanonRing(r)
    BY <1>1, <2>1, SameKept
  <2>3. s \in Seq(Position)
    <3>0. PICK n \in Nat : n = Len(r)
      OBVIOUS
    <3>1. PICK a \in 2 .. n - 1 : s = Close(RotateTo(Front(r), a))
      BY <1>2, <3>0 DEF StartedElsewhere
    <3>2. r[1] = r[n]
      BY <3>0 DEF IsClosed
    <3>3. IsStarted(s, Position, r, n, a)
      BY <3>0, <3>1, <3>2, StartedRing
    <3> QED BY <3>3 DEF IsStarted
  <2> QED BY <2>1, <2>2, <2>3 DEF IsSameRing
<1>3. CASE s = Reverse(r)
  <2>1. /\ s \in Seq(Int \X Int) /\ Len(s) = Len(r) /\ IsClosed(s)
        /\ \/ Len(Kept(r)) = 1 /\ Len(Kept(s)) = 1
           \/ IsRotated(Kept(s), Reverse(Kept(r)))
    BY <1>1, <1>3, ReversedKept
  <2>2. SqlCanonRing(s) = SqlCanonRing(r)
    BY <1>1, <2>1, SameKept
  <2>3. s \in Seq(Position)
    BY <1>3, ReverseProperties
  <2> QED BY <2>1, <2>2, <2>3 DEF IsSameRing
<1>4. CASE s \in Repeated(r)
  <2>1. PICK e \in 1 .. Len(r) - 1 : \E q \in CellMates(r[e]) : s = InsertAt(r, e + 1, q)
    BY <1>4 DEF Repeated
  <2>2. PICK q \in CellMates(r[e]) : s = InsertAt(r, e + 1, q)
    BY <2>1
  <2>3. e \in 1 .. Len(r) /\ e # Len(r)
    BY <1>1
  <2>4. q \in Position /\ Quantize(q) = Quantize(r[e])
    BY <2>3, ElementOfSeq, MateIsPosition
  <2>5. q \in Int \X Int
    BY <2>4 DEF Position
  <2>6. /\ s \in Seq(Int \X Int)
        /\ Len(s) = Len(r) + 1
        /\ s[1] = r[1] /\ s[Len(s)] = r[Len(r)]
        /\ Kept(s) = Kept(r)
    <3>1. IsRepeated(InsertAt(r, e + 1, q), r)
      BY <1>1, <2>3, <2>4, <2>5, RepeatedRing
    <3> QED BY <2>2, <3>1 DEF IsRepeated
  <2>7. SqlCanonRing(s) = SqlCanonRing(r)
    BY <1>1, <2>6, SameKept
  <2>8. s \in Seq(Position)
    <3>1. IsLonger(s, Position, r, Len(r), e, q)
      BY <2>2, <2>3, <2>4, InsertedIs
    <3> QED BY <3>1 DEF IsLonger
  <2>9. IsClosed(s)
    BY <1>1, <2>6 DEF IsClosed
  <2> QED BY <2>7, <2>8, <2>9 DEF IsSameRing
<1> QED BY <1>2, <1>3, <1>4 DEF RelistedRing

(***************************************************************************)
(* A geometry that is listed another way                                   *)
(***************************************************************************)

IsPart(p) == p \in Seq(Seq(Position)) /\ p # <<>> /\ \A m \in DOMAIN p : IsClosed(p[m])

RingsBytes(rings) == [k \in DOMAIN rings |-> SqlCanonRing(rings[k])]

Body(rings) == PolygonBody(RingsBytes(rings))

Bodies(parts) == [k \in DOMAIN parts |-> Body(parts[k])]

IsSamePart(s, p) == IsPart(s) /\ Body(s) = Body(p)

LEMMA TailIs ==
  ASSUME NEW n \in Nat, n >= 1, NEW r, DOMAIN r = 1 .. n, r = [i \in 1 .. n |-> r[i]]
  PROVE  Tail(r) = [i \in 1 .. n - 1 |-> r[i + 1]]
<1> DEFINE P == {r[i] : i \in 1 .. n}
<1>1. r \in Seq(P) /\ Len(r) = n
  <2>1. \A i \in 1 .. n : r[i] \in P
    OBVIOUS
  <2> HIDE DEF P
  <2>2. r \in [1 .. n -> P]
    BY <2>1
  <2> QED BY <2>2
<1> HIDE DEF P
<1>2. r # <<>>
  BY <1>1
<1>3. /\ Tail(r) \in Seq(P)
      /\ Len(Tail(r)) = n - 1
      /\ \A i \in 1 .. Len(Tail(r)) : Tail(r)[i] = r[i + 1]
  BY <1>1, <1>2, HeadTailProperties
<1>4. Tail(r) = [i \in 1 .. n - 1 |-> Tail(r)[i]]
  BY <1>3
<1>5. \A i \in 1 .. n - 1 : Tail(r)[i] = r[i + 1]
  BY <1>3
<1> QED BY <1>4, <1>5

(* The order of the holes does not matter to the bytes of a polygon.       *)
LEMMA HolesPermuted ==
  ASSUME NEW n \in Nat, n >= 1, NEW p \in Bijection(1 .. n, 1 .. n), p[1] = 1,
         NEW r, DOMAIN r = 1 .. n, r = [i \in 1 .. n |-> r[i]]
  PROVE  PolygonBody([i \in 1 .. n |-> r[p[i]]]) = PolygonBody(r)
<1> DEFINE s == [i \in 1 .. n |-> r[p[i]]]
           S == 1 .. n - 1
           o == [i \in S |-> p[i + 1] - 1]
           a == Tail(r)
           b == Tail(s)
<1>1. a = [i \in S |-> r[i + 1]]
  BY TailIs
<1>2. b = [i \in S |-> s[i + 1]]
  <2>1. DOMAIN s = 1 .. n /\ s = [i \in 1 .. n |-> s[i]]
    OBVIOUS
  <2> QED BY <2>1, TailIs
<1>3. /\ p \in [1 .. n -> 1 .. n]
      /\ \A i, j \in 1 .. n : p[i] = p[j] => i = j
      /\ \A j \in 1 .. n : \E i \in 1 .. n : p[i] = j
  <2> DEFINE N == 1 .. n
  <2>1. p \in Bijection(N, N)
    OBVIOUS
  <2> HIDE DEF N
  <2>2. /\ p \in [N -> N]
        /\ \A i, j \in N : p[i] = p[j] => i = j
        /\ \A j \in N : \E i \in N : p[i] = j
    BY <2>1, BijectionIs
  <2> QED BY <2>2 DEF N
<1>4. \A i \in S : i + 1 \in 1 .. n /\ i + 1 # 1
  OBVIOUS
<1>5. ASSUME NEW i \in S PROVE p[i + 1] - 1 \in S /\ p[i + 1] \in 1 .. n
  <2>1. 1 \in 1 .. n /\ p[i + 1] # 1 /\ p[i + 1] \in 1 .. n
    BY <1>3, <1>4
  <2> QED BY <2>1
<1>6. o \in Bijection(S, S)
  <2>1. o \in [S -> S] /\ \A i \in S : o[i] = p[i + 1] - 1
    BY <1>5
  <2>2. ASSUME NEW i \in S, NEW j \in S, o[i] = o[j] PROVE i = j
    <3>1. p[i + 1] = p[j + 1]
      BY <1>5, <2>1, <2>2
    <3>2. i + 1 = j + 1
      BY <1>3, <1>4, <3>1
    <3> QED BY <3>2
  <2>3. ASSUME NEW j \in S PROVE \E i \in S : o[i] = j
    <3>1. PICK i \in 1 .. n : p[i] = j + 1
      BY <1>3, <1>4
    <3>2. i # 1
      BY <1>4, <3>1
    <3>3. i - 1 \in S /\ (i - 1) + 1 = i
      BY <3>2
    <3>4. o[i - 1] = (j + 1) - 1
      BY <2>1, <3>1, <3>3
    <3> HIDE DEF o
    <3> QED BY <3>3, <3>4
  <2> HIDE DEF o, S
  <2> QED BY <2>1, <2>2, <2>3, BijectionIs
<1>7. b = [i \in S |-> a[o[i]]]
  <2>1. ASSUME NEW i \in S PROVE s[i + 1] = a[o[i]]
    <3>1. s[i + 1] = r[p[i + 1]]
      BY <1>4
    <3>2. o[i] = p[i + 1] - 1 /\ o[i] \in S /\ (p[i + 1] - 1) + 1 = p[i + 1]
      BY <1>5
    <3> HIDE DEF o, a
    <3>3. a[o[i]] = r[o[i] + 1]
      BY <1>1, <3>2
    <3> QED BY <3>1, <3>2, <3>3
  <2> HIDE DEF o, a, b
  <2> QED BY <1>2, <2>1
<1>8. DOMAIN a = S
  BY <1>1
<1>9. s[1] = r[1] /\ Len(s) = Len(r)
  <2>1. 1 \in 1 .. n /\ DOMAIN s = 1 .. n
    OBVIOUS
  <2> QED BY <2>1
<1> HIDE DEF a, b, o, S
<1>10. \A head : Assemble(head, b) = Assemble(head, a)
  BY <1>6, <1>7, <1>8, AssemblePermuted
<1> HIDE DEF s
<1>11. PolygonBody(s) = PolygonBody(r)
  BY <1>9, <1>10 DEF PolygonBody, a, b
<1> QED BY <1>11 DEF s

(* A polygon that is listed another way has the same bytes.                *)
LEMMA RelistedPartIs ==
  ASSUME NEW p, IsPart(p), NEW s \in RelistedPart(p)
  PROVE  IsSamePart(s, p)
<1> DEFINE P == Seq(Position)
<1>0. PICK n \in Nat : n = Len(p)
  BY DEF IsPart
<1>1. /\ p \in Seq(P) /\ DOMAIN p = 1 .. n /\ n >= 1
      /\ \A m \in 1 .. n : p[m] \in P /\ IsClosed(p[m])
  <2>1. p \in Seq(P) /\ p # <<>> /\ \A m \in DOMAIN p : IsClosed(p[m])
    BY DEF IsPart
  <2> HIDE DEF P
  <2>2. DOMAIN p = 1 .. n /\ n # 0
    BY <1>0, <2>1
  <2> QED BY <1>0, <2>1, <2>2, ElementOfSeq
<1>2. CASE s \in Swapped(p, 2)
  <2>1. /\ s \in Seq(P) /\ Len(s) = n
        /\ \E o \in Bijection(1 .. n, 1 .. n) :
              /\ s = [k \in 1 .. n |-> p[o[k]]]
              /\ \A k \in 1 .. n : k < 2 => o[k] = k
    <3> HIDE DEF P
    <3> QED BY <1>0, <1>1, <1>2, SwappedIs
  <2>2. PICK o \in Bijection(1 .. n, 1 .. n) :
              /\ s = [k \in 1 .. n |-> p[o[k]]]
              /\ \A k \in 1 .. n : k < 2 => o[k] = k
    BY <2>1
  <2>3. o[1] = 1 /\ \A k \in 1 .. n : o[k] \in 1 .. n
    <3>1. 1 \in 1 .. n /\ 1 < 2
      BY <1>1
    <3>2. \A k \in 1 .. n : o[k] \in 1 .. n
      BY BijectionIs
    <3> QED BY <2>2, <3>1, <3>2
  <2>4. DOMAIN s = 1 .. n /\ s # <<>> /\ \A k \in 1 .. n : s[k] = p[o[k]]
    <3>1. DOMAIN s = 1 .. n /\ \A k \in 1 .. n : s[k] = p[o[k]]
      BY <2>2
    <3>2. n # 0
      BY <1>1
    <3> HIDE DEF P
    <3>3. s # <<>>
      BY <2>1, <3>2
    <3> QED BY <3>1, <3>3
  <2>5. IsPart(s)
    BY <1>1, <2>1, <2>3, <2>4 DEF IsPart
  <2> DEFINE a == RingsBytes(p)
             b == RingsBytes(s)
  <2>6. DOMAIN a = 1 .. n /\ a = [k \in 1 .. n |-> a[k]]
    BY <1>1 DEF RingsBytes
  <2>7. b = [k \in 1 .. n |-> a[o[k]]]
    BY <1>1, <2>3, <2>4 DEF RingsBytes
  <2> HIDE DEF a, b
  <2>8. PolygonBody(b) = PolygonBody(a)
    <3>1. n \in Nat /\ n >= 1 /\ o \in Bijection(1 .. n, 1 .. n) /\ o[1] = 1
      BY <1>1, <2>3
    <3>2. PolygonBody([k \in 1 .. n |-> a[o[k]]]) = PolygonBody(a)
      BY ONLY <2>6, <3>1, HolesPermuted
    <3> QED BY <2>7, <3>2
  <2> QED BY <2>5, <2>8 DEF IsSamePart, Body, a, b
<1>3. CASE s \in OneRelisted(p, RelistedRing)
  <2>1. PICK k \in 1 .. n : \E way \in RelistedRing(p[k]) : s = [p EXCEPT ![k] = way]
    BY <1>1, <1>3 DEF OneRelisted
  <2>2. PICK way \in RelistedRing(p[k]) : s = [p EXCEPT ![k] = way]
    BY <2>1
  <2>3. IsSameRing(way, p[k])
    BY <1>1, <2>2, RelistedRingIs
  <2>4. way \in P /\ IsClosed(way) /\ SqlCanonRing(way) = SqlCanonRing(p[k])
    BY <2>3 DEF IsSameRing
  <2>5. DOMAIN s = 1 .. n /\ \A m \in 1 .. n : s[m] = IF m = k THEN way ELSE p[m]
    BY <1>1, <2>2
  <2>6. s \in Seq(P) /\ s # <<>>
    <3>1. \A m \in 1 .. n : s[m] \in P
      BY <1>1, <2>4, <2>5
    <3>2. s = [m \in 1 .. n |-> s[m]]
      BY <1>1, <2>2
    <3>3. s \in [1 .. n -> Seq(Position)]
      BY <3>1, <3>2
    <3>4. s \in Seq(P) /\ Len(s) = n /\ n # 0
      BY <1>1, <3>3
    <3> QED BY <3>4
  <2>7. IsPart(s)
    BY <1>1, <2>4, <2>5, <2>6 DEF IsPart
  <2>8. RingsBytes(s) = RingsBytes(p)
    BY <1>1, <2>4, <2>5 DEF RingsBytes
  <2> QED BY <2>7, <2>8 DEF IsSamePart, Body
<1> QED BY <1>2, <1>3 DEF RelistedPart

AreParts(parts) ==
  parts \in Seq(Seq(Seq(Position))) /\ parts # <<>> /\ \A k \in DOMAIN parts : IsPart(parts[k])

AreSame(t, s) ==
  /\ AreParts(t)
  /\ Len(t) = Len(s)
  /\ Len(Bodies(t)) = Len(Bodies(s))
  /\ \A head : Assemble(head, Bodies(t)) = Assemble(head, Bodies(s))

(* So have the parts of a geometry, together.                              *)
LEMMA RelistedPartsAre ==
  ASSUME NEW s, AreParts(s), NEW t \in Swapped(s, 1) \cup OneRelisted(s, RelistedPart)
  PROVE  AreSame(t, s)
<1> DEFINE P == Seq(Seq(Position))
<1>0. PICK n \in Nat : n = Len(s)
  BY DEF AreParts
<1>1. s \in Seq(P) /\ DOMAIN s = 1 .. n /\ n # 0 /\ \A k \in 1 .. n : IsPart(s[k])
  <2>1. s \in Seq(P) /\ s # <<>> /\ \A k \in DOMAIN s : IsPart(s[k])
    BY DEF AreParts
  <2> HIDE DEF P
  <2>2. DOMAIN s = 1 .. n /\ n # 0
    BY <1>0, <2>1
  <2> QED BY <1>0, <2>1, <2>2
<1>2. CASE t \in Swapped(s, 1)
  <2>1. /\ t \in Seq(P) /\ Len(t) = n
        /\ \E o \in Bijection(1 .. n, 1 .. n) : t = [k \in 1 .. n |-> s[o[k]]]
    <3> HIDE DEF P
    <3> QED BY <1>0, <1>1, <1>2, SwappedIs
  <2>2. PICK o \in Bijection(1 .. n, 1 .. n) : t = [k \in 1 .. n |-> s[o[k]]]
    BY <2>1
  <2>3. \A k \in 1 .. n : o[k] \in 1 .. n
    BY BijectionIs
  <2>4. DOMAIN t = 1 .. n /\ t # <<>> /\ \A k \in 1 .. n : t[k] = s[o[k]]
    <3> HIDE DEF P
    <3> QED BY <1>1, <2>1, <2>2
  <2>5. AreParts(t)
    BY <1>1, <2>1, <2>3, <2>4 DEF AreParts
  <2> DEFINE a == Bodies(s)
             b == Bodies(t)
  <2>6. DOMAIN a = 1 .. n /\ DOMAIN b = 1 .. n
    BY <1>1, <2>4 DEF Bodies
  <2>7. b = [k \in 1 .. n |-> a[o[k]]]
    BY <1>1, <2>3, <2>4 DEF Bodies
  <2>8. Len(b) = Len(a)
    <3> HIDE DEF a, b
    <3> QED BY <2>6
  <2> HIDE DEF a, b
  <2>9. \A head : Assemble(head, b) = Assemble(head, a)
    BY <2>6, <2>7, AssemblePermuted
  <2> QED BY <1>0, <2>1, <2>5, <2>8, <2>9 DEF AreSame, a, b
<1>3. CASE t \in OneRelisted(s, RelistedPart)
  <2>1. PICK k \in 1 .. n : \E way \in RelistedPart(s[k]) : t = [s EXCEPT ![k] = way]
    BY <1>1, <1>3 DEF OneRelisted
  <2>2. PICK way \in RelistedPart(s[k]) : t = [s EXCEPT ![k] = way]
    BY <2>1
  <2>3. IsSamePart(way, s[k])
    BY <1>1, <2>2, RelistedPartIs
  <2>4. way \in P /\ IsPart(way) /\ Body(way) = Body(s[k])
    BY <2>3 DEF IsSamePart, IsPart
  <2>5. DOMAIN t = 1 .. n /\ \A m \in 1 .. n : t[m] = IF m = k THEN way ELSE s[m]
    BY <1>1, <2>2
  <2>6. t \in Seq(P) /\ t # <<>> /\ Len(t) = n
    <3> HIDE DEF P
    <3>1. \A m \in 1 .. n : t[m] \in P
      BY <1>0, <1>1, <2>4, <2>5, ElementOfSeq
    <3>2. t = [m \in 1 .. n |-> t[m]]
      BY <1>1, <2>2
    <3>3. t \in [1 .. n -> P]
      BY <3>1, <3>2
    <3>4. t \in Seq(P) /\ Len(t) = n
      BY <3>3
    <3> QED BY <1>1, <3>4
  <2>7. AreParts(t)
    BY <1>1, <2>4, <2>5, <2>6 DEF AreParts
  <2>8. Bodies(t) = Bodies(s)
    BY <1>1, <2>4, <2>5 DEF Bodies
  <2> QED BY <1>0, <2>6, <2>7, <2>8 DEF AreSame
<1> QED BY <1>2, <1>3

LEMMA ListingOfParts ==
  ASSUME NEW g, IsListing(g), g.type # "MultiPoint"
  PROVE  AreParts(g.parts)
BY DEF IsListing, AreParts, IsPart

LEMMA SqlBytesOfPoints ==
  ASSUME NEW g, g.type = "MultiPoint"
  PROVE  SqlCanonicalBytes(g) =
           LET points == SqlPoints(Points(g)) IN <<2, 2, Len(points)>> \o Words(points)
BY DEF SqlCanonicalBytes

LEMMA SqlBytesOfParts ==
  ASSUME NEW g, g.type \in Types, g.type # "MultiPoint"
  PROVE  SqlCanonicalBytes(g) =
           Assemble(IF g.type = "Polygon" THEN <<2, 3>> ELSE <<2, 4, Len(Bodies(g.parts))>>,
                    Bodies(g.parts))
<1>1. CASE g.type = "Polygon"
  BY <1>1 DEF SqlCanonicalBytes, Bodies, Body, RingsBytes
<1>2. CASE g.type = "MultiPolygon"
  BY <1>2 DEF SqlCanonicalBytes, Bodies, Body, RingsBytes
<1> QED BY <1>1, <1>2 DEF Types

(* And the points of a MultiPoint.                                         *)
LEMMA PointsPermuted ==
  ASSUME NEW s \in Seq(Position), s # <<>>, NEW t \in Swapped(s, 1)
  PROVE  /\ t \in Seq(Position) /\ t # <<>>
         /\ SqlPoints(t) = SqlPoints(s)
<1>0. PICK n \in Nat : n = Len(s)
  OBVIOUS
<1>1. DOMAIN s = 1 .. n /\ n # 0
  BY <1>0
<1>2. /\ t \in Seq(Position) /\ Len(t) = n
      /\ \E o \in Bijection(1 .. n, 1 .. n) : t = [k \in 1 .. n |-> s[o[k]]]
  BY <1>0, SwappedIs
<1>3. PICK o \in Bijection(1 .. n, 1 .. n) : t = [k \in 1 .. n |-> s[o[k]]]
  BY <1>2
<1>4. \A k \in 1 .. n : o[k] \in 1 .. n
  BY BijectionIs
<1> DEFINE S == 1 .. n
           a == [i \in S |-> SqlQuantize(s[i])]
           b == [i \in S |-> SqlQuantize(t[i])]
<1>5. b = [i \in S |-> a[o[i]]]
  BY <1>3, <1>4
<1>6. DOMAIN a = S /\ DOMAIN t = S
  BY <1>3
<1>7. SqlPoints(s) = SortLex(a) /\ SqlPoints(t) = SortLex(b)
  BY <1>1, <1>6 DEF SqlPoints
<1>9. o \in Bijection(S, S)
  OBVIOUS
<1> HIDE DEF a, b, S
<1>8. SortLex(b) = SortLex(a)
  BY <1>5, <1>6, <1>9, SortLexPermuted
<1> QED BY <1>1, <1>2, <1>7, <1>8

(* A listing listed another way is a listing, with the same bytes.         *)
LEMMA RelistedIs ==
  ASSUME NEW g, IsListing(g), NEW parts \in Relisted(g), NEW h, h = [g EXCEPT !.parts = parts]
  PROVE  IsListing(h) /\ SqlCanonicalBytes(h) = SqlCanonicalBytes(g)
<1>1. /\ g \in [type : Types, parts : Seq(Seq(Seq(Position)))]
      /\ g.parts # <<>>
      /\ \A k \in DOMAIN g.parts : g.parts[k] # <<>>
  BY DEF IsListing
<1>2. h.type = g.type /\ h.parts = parts /\ h = [type |-> g.type, parts |-> parts]
      /\ g.type \in Types
  BY <1>1
<1>3. CASE g.type = "MultiPoint"
  <2>1. Points(g) # <<>>
    BY <1>3 DEF IsListing
  <2>2. Points(g) \in Seq(Position)
    <3>1. g.parts \in Seq(Seq(Seq(Position))) /\ g.parts # <<>>
      BY <1>1
    <3>2. 1 \in DOMAIN g.parts /\ g.parts[1] \in Seq(Seq(Position))
      BY <3>1
    <3>3. g.parts[1] # <<>>
      BY <1>1, <3>2
    <3>4. g.parts[1][1] \in Seq(Position)
      BY <3>2, <3>3
    <3> QED BY <3>4 DEF Points
  <2>3. PICK points \in Swapped(Points(g), 1) : parts = <<<<points>>>>
    BY <1>3 DEF Relisted
  <2>4. points \in Seq(Position) /\ points # <<>> /\ SqlPoints(points) = SqlPoints(Points(g))
    BY <2>1, <2>2, PointsPermuted
  <2>5. Points(h) = points
    BY <1>2, <2>3 DEF Points
  <2>6. SqlCanonicalBytes(h) = SqlCanonicalBytes(g)
    BY <1>2, <1>3, <2>4, <2>5, SqlBytesOfPoints
  <2>7. IsListing(h)
    <3>1. parts \in Seq(Seq(Seq(Position))) /\ parts # <<>>
          /\ \A k \in DOMAIN parts : parts[k] # <<>>
      <4> DEFINE P == Seq(Position)
      <4>1. points \in P
        BY <2>4
      <4> HIDE DEF P
      <4>2. <<points>> \in Seq(P) /\ <<points>> # <<>>
        BY <4>1
      <4>3. <<<<points>>>> \in Seq(Seq(P)) /\ <<<<points>>>> # <<>>
        BY <4>2
      <4>4. \A k \in DOMAIN <<<<points>>>> : <<<<points>>>>[k] # <<>>
        BY <4>2
      <4> QED BY <2>3, <4>3, <4>4 DEF P
    <3>2. h \in [type : Types, parts : Seq(Seq(Seq(Position)))]
      BY <1>2, <3>1
    <3>3. h.type # "Polygon"
      BY <1>2, <1>3
    <3> QED BY <1>2, <1>3, <2>4, <2>5, <3>1, <3>2, <3>3 DEF IsListing
  <2> QED BY <2>6, <2>7
<1>4. CASE g.type # "MultiPoint"
  <2>1. AreParts(g.parts)
    BY <1>4, ListingOfParts
  <2>2. parts \in Swapped(g.parts, 1) \cup OneRelisted(g.parts, RelistedPart)
    BY <1>4 DEF Relisted
  <2>3. AreSame(parts, g.parts)
    BY <2>1, <2>2, RelistedPartsAre
  <2>4. SqlCanonicalBytes(h) = SqlCanonicalBytes(g)
    BY <1>2, <1>4, <2>3, SqlBytesOfParts DEF AreSame
  <2>5. IsListing(h)
    <3>1. AreParts(parts) /\ Len(parts) = Len(g.parts)
      BY <2>3 DEF AreSame
    <3>2. h \in [type : Types, parts : Seq(Seq(Seq(Position)))]
      BY <1>2, <3>1 DEF AreParts
    <3>3. g.type = "Polygon" => Len(g.parts) = 1
      BY DEF IsListing
    <3> QED BY <1>2, <1>4, <3>1, <3>2, <3>3 DEF IsListing, AreParts, IsPart
  <2> QED BY <2>4, <2>5
<1> QED BY <1>3, <1>4

IInv == IsListing(listed) /\ SqlCanonicalBytes(listed) = minted

(* A geometry is minted with the bytes of its listing.                     *)
LEMMA InitIInv == Init => IInv
BY ListingAssumption DEF Init, IInv

(* A relisting leaves a listing with the bytes that were minted.           *)
LEMMA StepIInv == IInv /\ [Next]_vars => IInv'
<1> SUFFICES ASSUME IInv, [Next]_vars PROVE IInv'
  OBVIOUS
<1>1. CASE Relist
  <2>1. PICK parts \in Relisted(listed) : listed' = [listed EXCEPT !.parts = parts]
    BY <1>1 DEF Relist
  <2>2. minted' = minted
    BY <1>1 DEF Relist
  <2>3. IsListing(listed') /\ SqlCanonicalBytes(listed') = SqlCanonicalBytes(listed)
    BY <2>1, RelistedIs DEF IInv
  <2> QED BY <2>2, <2>3 DEF IInv
<1>2. CASE UNCHANGED vars
  BY <1>2 DEF vars, IInv
<1> QED BY <1>1, <1>2 DEF Next

(* However often a client lists its geometry another way (another start,   *)
(* direction or order of holes, points and parts, vertices repeated in     *)
(* their cell), the canonical bytes stay those it was minted with.         *)
THEOREM SameShapeKeepsItsGeoid == Spec => []SameShapeSameGeoid
<1>1. IInv => SameShapeSameGeoid
  BY DEF IInv, SameShapeSameGeoid
<1> QED BY <1>1, InitIInv, StepIInv, PTL DEF Spec

(* The two recipes give every listing the same bytes.                      *)
LEMMA TwinBytes ==
  ASSUME NEW g, IsListing(g)
  PROVE  CanonicalBytes(g) = SqlCanonicalBytes(g)
<1>1. /\ g \in [type : Types, parts : Seq(Seq(Seq(Position)))]
      /\ g.parts # <<>>
      /\ \A k \in DOMAIN g.parts : g.parts[k] # <<>>
  BY DEF IsListing
<1>2. g.type \in Types
  BY <1>1
<1>3. CASE g.type = "MultiPoint"
  <2>1. Points(g) \in Seq(Position)
    <3>1. g.parts \in Seq(Seq(Seq(Position))) /\ g.parts # <<>>
      BY <1>1
    <3>2. 1 \in DOMAIN g.parts /\ g.parts[1] \in Seq(Seq(Position))
      BY <3>1
    <3>3. g.parts[1] # <<>>
      BY <1>1, <3>2
    <3>4. g.parts[1][1] \in Seq(Position)
      BY <3>2, <3>3
    <3> QED BY <3>4 DEF Points
  <2> DEFINE s == Points(g)
             a == [i \in DOMAIN s |-> SqlQuantize(s[i])]
  <2>2. PICK n \in Nat : n = Len(s)
    BY <2>1
  <2> HIDE DEF s
  <2>3. DOMAIN s = 1 .. n /\ \A i \in 1 .. n : s[i] \in Int \X Int
    BY <2>1, <2>2, PositionsArePairs, ElementOfSeq DEF s
  <2>4. \A i \in 1 .. n : SqlQuantize(s[i]) = Quantize(s[i]) /\ Quantize(s[i]) \in Cells
    BY <2>3, QuantizeIsCell
  <2>5. a = [i \in DOMAIN s |-> Quantize(s[i])]
    BY <2>3, <2>4
  <2>6. DOMAIN a = 1 .. n /\ \A i \in 1 .. n : a[i] \in Seq(Int)
    BY <2>3, <2>4, PairIsSeq DEF Cells
  <2>7. SqlPoints(s) = SortLex(a)
    BY DEF SqlPoints
  <2> HIDE DEF a
  <2>8. Len(SortLex(a)) = n
    <3>1. PICK p \in Bijection(1 .. n, 1 .. n) : SortLex(a) = [i \in 1 .. n |-> a[p[i]]]
      BY <2>6, SortLexOrders
    <3> QED BY <3>1
  <2>9. CanonicalBytes(g) = <<2, 2, Len(s)>> \o Words(SortLex(a))
    BY <1>3, <2>5 DEF CanonicalBytes, s
  <2>10. SqlCanonicalBytes(g) = <<2, 2, Len(SortLex(a))>> \o Words(SortLex(a))
    BY <1>3, <2>7, SqlBytesOfPoints DEF s
  <2> QED BY <2>2, <2>8, <2>9, <2>10
<1>4. CASE g.type # "MultiPoint"
  <2> DEFINE s == g.parts
             B(rings) == PolygonBody([k \in DOMAIN rings |-> CanonRing(rings[k])])
             b == [k \in DOMAIN s |-> B(s[k])]
  <2>1. s \in Seq(Seq(Seq(Position))) /\ s # <<>> /\ \A k \in DOMAIN s : IsPart(s[k])
    BY <1>4, ListingOfParts DEF AreParts
  <2>2. ASSUME NEW k \in DOMAIN s PROVE B(s[k]) = Body(s[k])
    <3> DEFINE p == s[k]
    <3>1. IsPart(p)
      BY <2>1
    <3> HIDE DEF p
    <3>2. ASSUME NEW m \in DOMAIN p PROVE CanonRing(p[m]) = SqlCanonRing(p[m])
      <4>1. p[m] \in Seq(Position) /\ IsClosed(p[m])
        BY <3>1 DEF IsPart
      <4>2. p[m] \in Seq(Int \X Int) /\ Len(p[m]) >= 1
        BY <4>1, PositionsArePairs DEF IsClosed
      <4> QED BY <4>2, TwinRings
    <3>3. [m \in DOMAIN p |-> CanonRing(p[m])] = RingsBytes(p)
      BY <3>2 DEF RingsBytes
    <3> QED BY <3>3 DEF Body, p
  <2>3. b = Bodies(s)
    BY <2>2 DEF Bodies
  <2>4. CanonicalBytes(g) = Assemble(IF g.type = "Polygon" THEN <<2, 3>> ELSE <<2, 4, Len(b)>>, b)
    <3>1. CASE g.type = "Polygon"
      BY <3>1 DEF CanonicalBytes
    <3>2. CASE g.type = "MultiPolygon"
      BY <3>2 DEF CanonicalBytes
    <3> QED BY <1>2, <1>4, <3>1, <3>2 DEF Types
  <2> QED BY <1>2, <1>4, <2>3, <2>4, SqlBytesOfParts
<1> QED BY <1>3, <1>4

(* For every listing, the bytes of canonical_bytes (Python) are those of   *)
(* geoid_canonical_bytes_v2 (SQL); they also reject the same geometries.   *)
THEOREM TwinsAlwaysAgree == Spec => []TwinsAgree
<1>1. IInv => TwinsAgree
  BY TwinBytes DEF IInv, TwinsAgree
<1> QED BY <1>1, InitIInv, StepIInv, PTL DEF Spec

(***************************************************************************)
(* The bytes of a ring tell its cells                                      *)
(***************************************************************************)

Fitting == {c \in Int \X Int : Fits(c[1]) /\ Fits(c[2])}

LEMMA WordTells ==
  ASSUME NEW x \in Int, NEW y \in Int, NEW w \in Nat \ {0},
         -w <= 2 * x, 2 * x < w, -w <= 2 * y, 2 * y < w, x % w = y % w
  PROVE  x = y
OBVIOUS

(* A word tells a coordinate in bounds: there is no wrap-around.           *)
LEMMA WordInjective ==
  ASSUME NEW x \in Int, NEW y \in Int, Fits(x), Fits(y), Word(x) = Word(y)
  PROVE  x = y
<1>1. WordSize \in Nat \ {0}
  BY WordAssumption
<1> QED BY <1>1, WordTells DEF Fits, Word

LEMMA FittingAreCells ==
  ASSUME NEW u \in Seq(Fitting)
  PROVE  u \in Seq(Cells)
BY DEF Fitting, Cells

LEMMA WordsProperties ==
  ASSUME NEW u \in Seq(Cells)
  PROVE  /\ Words(u) \in Seq(Int)
         /\ Len(Words(u)) = 2 * Len(u)
         /\ \A i \in 1 .. Len(u) :
              Words(u)[2 * i - 1] = Word(u[i][1]) /\ Words(u)[2 * i] = Word(u[i][2])
<1>1. PICK n \in Nat : n = Len(u)
  OBVIOUS
<1> DEFINE c == Coordinates(u)
           w == [j \in 1 .. 2 * n |-> Word(c[j])]
<1>2. /\ c \in Seq(Int) /\ Len(c) = 2 * n
      /\ \A i \in 1 .. n : c[2 * i - 1] = u[i][1] /\ c[2 * i] = u[i][2]
  BY <1>1, CoordinatesProperties
<1>3. Words(u) = w
  BY <1>1 DEF Words
<1> HIDE DEF c
<1>4. \A x \in Int : Word(x) \in Int
  BY WordAssumption DEF Word
<1>5. \A j \in 1 .. 2 * n : c[j] \in Int
  BY <1>2, ElementOfSeq
<1>6. 2 * n \in Nat
  BY <1>1
<1>10. \A j \in 1 .. 2 * n : Word(c[j]) \in Int
  <2> SUFFICES ASSUME NEW j \in 1 .. 2 * n PROVE Word(c[j]) \in Int
    OBVIOUS
  <2>1. PICK x \in Int : x = c[j]
    BY <1>5
  <2> QED BY <1>4, <2>1
<1>7. w \in Seq(Int) /\ Len(w) = 2 * n
  BY <1>6, <1>10
<1>8. \A i \in 1 .. n : 2 * i - 1 \in 1 .. 2 * n /\ 2 * i \in 1 .. 2 * n
  OBVIOUS
<1>9. \A i \in 1 .. n : w[2 * i - 1] = Word(u[i][1]) /\ w[2 * i] = Word(u[i][2])
  BY <1>2, <1>8
<1> HIDE DEF w
<1> QED BY <1>1, <1>3, <1>7, <1>9

(* As many words as there are coordinates tell them all.                   *)
LEMMA WordsInjective ==
  ASSUME NEW u \in Seq(Fitting), NEW v \in Seq(Fitting), Len(u) = Len(v), Words(u) = Words(v)
  PROVE  u = v
<1>1. u \in Seq(Cells) /\ v \in Seq(Cells)
  BY FittingAreCells
<1>2. ASSUME NEW i \in 1 .. Len(u) PROVE u[i] = v[i]
  <2>1. i \in 1 .. Len(v)
    OBVIOUS
  <2>2. u[i] \in Fitting /\ v[i] \in Fitting
    BY <2>1, ElementOfSeq
  <2>3. Words(u)[2 * i - 1] = Word(u[i][1]) /\ Words(u)[2 * i] = Word(u[i][2])
    BY <1>1, WordsProperties
  <2>4. Words(v)[2 * i - 1] = Word(v[i][1]) /\ Words(v)[2 * i] = Word(v[i][2])
    BY <1>1, <2>1, WordsProperties
  <2>5. PICK p \in Fitting, q \in Fitting : p = u[i] /\ q = v[i]
    BY <2>2
  <2>6. Word(p[1]) = Word(q[1]) /\ Word(p[2]) = Word(q[2])
    BY <2>3, <2>4, <2>5
  <2>7. /\ p[1] \in Int /\ p[2] \in Int /\ Fits(p[1]) /\ Fits(p[2])
        /\ q[1] \in Int /\ q[2] \in Int /\ Fits(q[1]) /\ Fits(q[2])
        /\ p \in Cells /\ q \in Cells
    BY DEF Fitting, Cells
  <2>8. p[1] = q[1] /\ p[2] = q[2]
    BY <2>6, <2>7, WordInjective
  <2> QED BY <2>5, <2>7, <2>8, SamePair
<1> QED BY <1>2, SeqEqual

LEMMA RingBytesIs ==
  ASSUME NEW u \in Seq(Cells)
  PROVE  /\ RingBytes(u) \in Seq(Int)
         /\ Len(RingBytes(u)) = 1 + 2 * Len(u)
         /\ RingBytes(u)[1] = Len(u)
         /\ \A j \in 1 .. 2 * Len(u) : RingBytes(u)[1 + j] = Words(u)[j]
<1>1. PICK n \in Nat : n = Len(u)
  OBVIOUS
<1> DEFINE a == <<Len(u)>>
           b == Words(u)
<1>2. a \in Seq(Int) /\ Len(a) = 1 /\ a[1] = n
  BY <1>1
<1>3. b \in Seq(Int) /\ Len(b) = 2 * n
  BY <1>1, WordsProperties
<1> HIDE DEF a, b
<1>4. IsJoin(a \o b, Int, a, b)
  BY <1>2, <1>3, ConcatIs
<1>5. RingBytes(u) = a \o b
  BY DEF RingBytes, a, b
<1>6. 1 \in 1 .. 1
  OBVIOUS
<1>7. /\ a \o b \in Seq(Int)
      /\ Len(a \o b) = 1 + 2 * n
      /\ (a \o b)[1] = n
      /\ \A j \in 1 .. 2 * n : (a \o b)[1 + j] = b[j]
  BY <1>2, <1>3, <1>4, <1>6 DEF IsJoin
<1> QED BY <1>1, <1>5, <1>7 DEF b

(* The count and the words of a ring tell its vertices.                    *)
LEMMA RingBytesInjective ==
  ASSUME NEW u \in Seq(Fitting), NEW v \in Seq(Fitting), RingBytes(u) = RingBytes(v)
  PROVE  u = v
<1>1. u \in Seq(Cells) /\ v \in Seq(Cells)
  BY FittingAreCells
<1>2. PICK n \in Nat : n = Len(u) /\ n = Len(v)
  <2>1. Len(u) \in Nat /\ RingBytes(u)[1] = Len(u) /\ RingBytes(v)[1] = Len(v)
    BY <1>1, RingBytesIs
  <2> QED BY <2>1
<1>3. \A j \in 1 .. 2 * n : Words(u)[j] = Words(v)[j]
  <2>1. \A j \in 1 .. 2 * n : RingBytes(u)[1 + j] = Words(u)[j]
    BY <1>1, <1>2, RingBytesIs
  <2>2. \A j \in 1 .. 2 * n : RingBytes(v)[1 + j] = Words(v)[j]
    BY <1>1, <1>2, RingBytesIs
  <2> QED BY <2>1, <2>2
<1>4. Words(u) \in Seq(Int) /\ Words(v) \in Seq(Int) /\ Len(Words(u)) = 2 * n
      /\ Len(Words(v)) = 2 * n
  BY <1>1, <1>2, WordsProperties
<1>5. Words(u) = Words(v)
  BY <1>3, <1>4, SeqEqual
<1> QED BY <1>2, <1>5, WordsInjective

LEMMA CellFits ==
  ASSUME NEW p \in Position
  PROVE  Quantize(p) \in Fitting
<1>1. HalfEven(p[1]) \in Int /\ HalfEven(p[2]) \in Int
  BY DEF Position, HalfEven
<1>2. Quantize(p) = <<HalfEven(p[1]), HalfEven(p[2])>>
      /\ Fits(HalfEven(p[1])) /\ Fits(HalfEven(p[2]))
  BY DEF Quantize, Position
<1> QED BY <1>1, <1>2 DEF Fitting

(* What is kept of a ring in bounds is in bounds.                          *)
LEMMA KeptFits ==
  ASSUME NEW ring \in Seq(Position), Len(ring) >= 1
  PROVE  Kept(ring) \in Seq(Fitting) /\ Len(Kept(ring)) >= 1
<1>1. ring \in Seq(Int \X Int)
  BY PositionsArePairs
<1> DEFINE q == Lattice(ring)
           k == LagDistinct(q)
<1>2. PICK n \in Nat : n = Len(ring) /\ n >= 1
  OBVIOUS
<1>3. q \in Seq(Cells) /\ Len(q) = n /\ \A i \in 1 .. n : q[i] = Quantize(ring[i])
  BY <1>1, <1>2, LatticeProperties
<1> HIDE DEF q
<1>4. ASSUME NEW i \in 1 .. n PROVE q[i] \in Fitting
  <2>1. PICK p \in Position : p = ring[i]
    BY <1>2, ElementOfSeq
  <2>4. Quantize(p) \in Fitting
    BY CellFits
  <2> QED BY <1>3, <2>1, <2>4
<1>5. q \in Seq(Fitting)
  <2>1. q = [i \in 1 .. n |-> q[i]]
    BY <1>3
  <2>2. q \in [1 .. n -> Fitting]
    BY <1>4, <2>1
  <2> QED BY <2>2
<1>6. k \in Seq(Fitting) /\ \E f : Traces(f, q, k)
  <2>1. Len(q) >= 1
    BY <1>2, <1>3
  <2> QED BY <1>5, <2>1, LagTraced
<1>7. Len(k) >= 1
  <2>1. PICK f : Traces(f, q, k)
    BY <1>6
  <2>2. 1 \in 1 .. Len(q)
    BY <1>2, <1>3
  <2> HIDE DEF k
  <2>3. f[1] \in 1 .. Len(k)
    BY <2>1, <2>2 DEF Traces
  <2> QED BY <1>6, <2>3
<1> HIDE DEF k
<1>8. Trim(k) \in Seq(Fitting) /\ Len(Trim(k)) >= 1
  BY <1>6, <1>7, TrimIsSeq
<1> QED BY <1>8 DEF Kept, k, q

(***************************************************************************)
(* Rotations of one another                                                *)
(***************************************************************************)

LEMMA RotatedIs ==
  ASSUME NEW P, NEW u \in Seq(P), NEW v, IsRotated(v, u)
  PROVE  v \in Seq(P) /\ Len(v) = Len(u)
BY RotateProperties DEF IsRotated

(* To be rotations of one another is an equivalence.                       *)
LEMMA RotatedBack ==
  ASSUME NEW P, NEW u \in Seq(P), NEW v, IsRotated(v, u)
  PROVE  IsRotated(u, v)
<1>1. PICK a \in 1 .. Len(u) : v = RotateTo(u, a)
  BY DEF IsRotated
<1>2. PICK n \in Nat : n = Len(u)
  OBVIOUS
<1>3. Len(v) = n
  BY <1>1, <1>2, RotateProperties
<1>4. 1 \in 1 .. n /\ a \in 1 .. n /\ n >= 1
  BY <1>2
<1>5. PICK b \in 1 .. n : Around(n, a, b) = 1
  BY <1>4, AroundOnto
<1>6. RotateTo(v, b) = RotateTo(u, 1)
  BY <1>1, <1>2, <1>5, RotatedTwice
<1>7. RotateTo(u, 1) = u
  BY <1>2, <1>4, RotateByOne
<1> QED BY <1>3, <1>6, <1>7 DEF IsRotated

LEMMA RotatedAgain ==
  ASSUME NEW P, NEW u \in Seq(P), NEW v, IsRotated(v, u), NEW w, IsRotated(w, v)
  PROVE  IsRotated(w, u)
<1>1. PICK a \in 1 .. Len(u) : v = RotateTo(u, a)
  BY DEF IsRotated
<1>2. PICK n \in Nat : n = Len(u)
  OBVIOUS
<1>3. Len(v) = n
  BY <1>1, <1>2, RotateProperties
<1>4. PICK b \in 1 .. n : w = RotateTo(v, b)
  BY <1>3 DEF IsRotated
<1>5. w = RotateTo(u, Around(n, a, b))
  BY <1>1, <1>2, <1>4, RotatedTwice
<1>6. Around(n, a, b) \in 1 .. Len(u)
  BY <1>2, AroundIn
<1> QED BY <1>5, <1>6 DEF IsRotated

LEMMA RotatedReversed ==
  ASSUME NEW P, NEW u \in Seq(P), NEW v, IsRotated(v, u)
  PROVE  IsRotated(Reverse(v), Reverse(u))
<1>1. PICK a \in 1 .. Len(u) : v = RotateTo(u, a)
  BY DEF IsRotated
<1> QED BY <1>1, ReversedRotation

(* The same cells, from another start or in the other direction.           *)
Alike(v, u) == IsRotated(v, u) \/ IsRotated(v, Reverse(u))

(* The bytes of a ring are those of a rotation of it, or of its reverse.   *)
LEMMA TurnIsRotation ==
  ASSUME NEW t \in Seq(Fitting), Len(t) >= 1, Canonical(t) # Degenerate
  PROVE  \E x \in {t, Reverse(t)} : \E z \in Seq(Fitting) :
           Len(t) >= 3 /\ IsRotated(z, x) /\ Canonical(t) = RingBytes(z)
<1> DEFINE x == IF Shoelace(t) < 0 THEN Reverse(t) ELSE t
<1>1. Len(t) \in Nat /\ ~(Len(t) < 3) /\ Canonical(t) = RingBytes(LeastRotation(x))
  BY DEF Canonical
<1>2. x \in {t, Reverse(t)}
  OBVIOUS
<1>3. x \in Seq(Fitting) /\ Len(x) >= 1
  BY ReverseProperties
<1> HIDE DEF x
<1>4. x \in Seq(Cells)
  BY <1>3, FittingAreCells
<1>5. IsLeastRotation(LeastRotation(x), x)
  BY <1>3, <1>4, LeastRotationIsLeast
<1>6. IsRotated(LeastRotation(x), x)
  BY <1>5 DEF IsLeastRotation, IsRotated, Starts
<1>7. LeastRotation(x) \in Seq(Fitting)
  BY <1>3, <1>6, RotatedIs
<1> QED BY <1>1, <1>2, <1>6, <1>7

(* Rings of the same bytes are alike: rotated, or reversed and rotated.    *)
LEMMA CanonicalTells ==
  ASSUME NEW t \in Seq(Fitting), NEW u \in Seq(Fitting), Len(t) >= 1, Len(u) >= 1,
         Canonical(t) = Canonical(u), Canonical(t) # Degenerate
  PROVE  Len(t) >= 3 /\ Len(u) >= 3 /\ Alike(u, t)
<1>1. PICK x \in {t, Reverse(t)}, z \in Seq(Fitting) :
        Len(t) >= 3 /\ IsRotated(z, x) /\ Canonical(t) = RingBytes(z)
  BY TurnIsRotation
<1>2. PICK y \in {u, Reverse(u)}, w \in Seq(Fitting) :
        Len(u) >= 3 /\ IsRotated(w, y) /\ Canonical(u) = RingBytes(w)
  BY TurnIsRotation
<1>3. z = w
  BY <1>1, <1>2, RingBytesInjective
<1>4. x \in Seq(Fitting) /\ y \in Seq(Fitting)
  BY ReverseProperties
<1>5. IsRotated(y, x)
  <2>1. IsRotated(y, z)
    BY <1>2, <1>3, <1>4, RotatedBack
  <2> QED BY <1>1, <1>4, <2>1, RotatedAgain
<1>6. Reverse(Reverse(u)) = u /\ Reverse(Reverse(t)) = t
  BY ReversedTwice
<1>7. CASE y = u
  BY <1>1, <1>2, <1>5, <1>7 DEF Alike
<1>8. CASE y = Reverse(u)
  <2>1. IsRotated(u, Reverse(x))
    BY <1>4, <1>5, <1>6, <1>8, RotatedReversed
  <2> QED BY <1>1, <1>2, <1>6, <2>1 DEF Alike
<1> QED BY <1>7, <1>8

(***************************************************************************)
(* The cells a ring goes through are those that are kept                   *)
(***************************************************************************)

Open(r) == [i \in 1 .. Len(r) - 1 |-> Quantize(r[i])]

CycleStep(o, i, before) ==
  IF o[i] # o[IF i = 1 THEN Len(o) ELSE i - 1] THEN Append(before, o[i]) ELSE before

(* The cells a ring goes through, step by step.                            *)
LEMMA CycleSteps ==
  ASSUME NEW r, NEW n \in Nat, Len(Open(r)) = n, NEW g,
         g = [i \in 0 .. n |-> IF i = 0 THEN <<>> ELSE CycleStep(Open(r), i, g[i - 1])]
  PROVE  Cycle(r) = g[n]
<1> DEFINE o == Open(r)
           h == CHOOSE cells : cells =
                  [i \in 0 .. Len(o) |->
                    IF i = 0 THEN <<>>
                    ELSE IF o[i] # o[IF i = 1 THEN Len(o) ELSE i - 1]
                         THEN Append(cells[i - 1], o[i])
                         ELSE cells[i - 1]]
<1>1. Cycle(r) = h[Len(o)]
  BY DEF Cycle, Open
<1>2. g = [i \in 0 .. Len(o) |->
                    IF i = 0 THEN <<>>
                    ELSE IF o[i] # o[IF i = 1 THEN Len(o) ELSE i - 1]
                         THEN Append(g[i - 1], o[i])
                         ELSE g[i - 1]]
  BY DEF CycleStep
<1> HIDE DEF o
<1>3. h = [i \in 0 .. Len(o) |->
                    IF i = 0 THEN <<>>
                    ELSE IF o[i] # o[IF i = 1 THEN Len(o) ELSE i - 1]
                         THEN Append(h[i - 1], o[i])
                         ELSE h[i - 1]]
  BY <1>2
<1>4. Len(o) = n
  BY DEF o
<1> HIDE DEF h
<1>5. g[0] = <<>> /\ h[0] = <<>>
  <2>1. 0 \in 0 .. Len(o)
    BY <1>4
  <2> QED BY <1>2, <1>3, <2>1
<1>6. ASSUME NEW i \in 1 .. n, g[i - 1] = h[i - 1] PROVE g[i] = h[i]
  <2>1. i \in 0 .. Len(o) /\ i # 0
    BY <1>4
  <2>2. g[i] = IF o[i] # o[IF i = 1 THEN Len(o) ELSE i - 1]
               THEN Append(g[i - 1], o[i])
               ELSE g[i - 1]
    BY <1>2, <2>1
  <2>3. h[i] = IF o[i] # o[IF i = 1 THEN Len(o) ELSE i - 1]
               THEN Append(h[i - 1], o[i])
               ELSE h[i - 1]
    BY <1>3, <2>1
  <2> QED BY <1>6, <2>2, <2>3
<1>7. InStep(g, h, n)
  BY <1>5, <1>6 DEF InStep
<1>8. \A i \in 0 .. n : g[i] = h[i]
  BY <1>7, SameIterate
<1> QED BY <1>1, <1>4, <1>8

LEMMA LongerPart ==
  ASSUME NEW P, NEW k \in Seq(P), NEW b \in {1, 2}, NEW m \in 1 .. Len(k), b <= m
  PROVE  SubSeq(k, b, m) = Append(SubSeq(k, b, m - 1), k[m])
<1>1. b \in 1 .. Len(k) /\ m \in b .. Len(k)
  OBVIOUS
<1>2. SubSeq(k, b, m) = SubSeq(k, b, m - 1) \o <<k[m]>>
  BY <1>1, SubSeqRecursiveSecond
<1>3. k[m] \in P /\ SubSeq(k, b, m - 1) \in Seq(P)
  <2>1. b \in Int /\ m - 1 \in Int /\ \A i \in b .. m - 1 : k[i] \in P
    BY ElementOfSeq
  <2> QED BY <2>1, ElementOfSeq, SubSeqProperties
<1> QED BY <1>2, <1>3, AppendIsConcat

IsWay(f, o, k, n, b) ==
  /\ Len(o) = n
  /\ f \in [1 .. n -> 1 .. Len(k)]
  /\ f[1] = 1
  /\ \A i \in 1 .. n - 1 : f[i + 1] = f[i] \/ f[i + 1] = f[i] + 1
  /\ \A i \in 1 .. n : o[i] = k[f[i]]
  /\ \A j \in 1 .. Len(k) - 1 : k[j] # k[j + 1]
  /\ b = 1 <=> o[1] # o[n]

(* Where the walk from cell to cell is after i positions.                  *)
At(f, b, i) == IF i = 0 THEN b - 1 ELSE f[i]

(* A step of it is a step of the walk that traces the ring.                *)
LEMMA CycleWalk ==
  ASSUME NEW P, NEW k \in Seq(P), NEW n \in Nat, n >= 1, NEW b \in {1, 2},
         NEW f, NEW o, IsWay(f, o, k, n, b), NEW i \in 1 .. n
  PROVE  SubSeq(k, b, At(f, b, i)) = CycleStep(o, i, SubSeq(k, b, At(f, b, i - 1)))
<1>0. /\ Len(o) = n
      /\ f \in [1 .. n -> 1 .. Len(k)]
      /\ f[1] = 1
      /\ \A j \in 1 .. n - 1 : f[j + 1] = f[j] \/ f[j + 1] = f[j] + 1
      /\ \A j \in 1 .. n : o[j] = k[f[j]]
      /\ \A j \in 1 .. Len(k) - 1 : k[j] # k[j + 1]
      /\ b = 1 <=> o[1] # o[n]
  BY DEF IsWay
<1>1. PICK m \in Nat : m = Len(k)
  OBVIOUS
<1>2. PICK y \in 1 .. m : y = f[i]
  BY <1>0, <1>1
<1>3. At(f, b, i) = y
  BY <1>0, <1>2 DEF At
<1>4. CASE i = 1
  <2>1. At(f, b, i - 1) = b - 1 /\ y = 1
    BY <1>0, <1>2, <1>4 DEF At
  <2>2. SubSeq(k, b, b - 1) = <<>>
    BY SubSeqEmpty
  <2>3. CASE b = 1
    <3>1. SubSeq(k, 1, 1) = Append(SubSeq(k, 1, 1 - 1), k[1])
      BY <1>0, <1>1, <1>2, <2>1, LongerPart
    <3>2. o[1] # o[n] /\ o[1] = k[1]
      BY <1>0, <2>3
    <3> QED BY <1>0, <1>3, <1>4, <2>1, <2>3, <3>1, <3>2 DEF CycleStep
  <2>4. CASE b = 2
    <3>1. o[1] = o[n]
      BY <1>0, <2>4
    <3>2. SubSeq(k, 2, 1) = SubSeq(k, b, b - 1)
      BY <1>0, <2>4
    <3> QED BY <1>0, <1>3, <1>4, <2>1, <2>4, <3>1, <3>2 DEF CycleStep
  <2> QED BY <1>0, <2>3, <2>4
<1>5. CASE i # 1
  <2>1. i - 1 \in 1 .. n - 1 /\ i - 1 \in 1 .. n /\ (i - 1) + 1 = i
    BY <1>0, <1>5
  <2>2. PICK x \in 1 .. m : x = f[i - 1]
    BY <1>0, <1>1, <2>1
  <2>3. At(f, b, i - 1) = x
    BY <1>0, <2>1, <2>2 DEF At
  <2>4. y = x \/ y = x + 1
    BY <1>0, <1>2, <2>1, <2>2
  <2>5. o[i] = k[y] /\ o[i - 1] = k[x]
    BY <1>0, <1>2, <2>1, <2>2
  <2>6. CycleStep(o, i, SubSeq(k, b, x)) =
          IF k[y] # k[x] THEN Append(SubSeq(k, b, x), k[y]) ELSE SubSeq(k, b, x)
    BY <1>0, <1>5, <2>5 DEF CycleStep
  <2>7. CASE y = x
    BY <1>0, <1>3, <2>3, <2>6, <2>7
  <2>8. CASE y = x + 1
    <3>4. x \in 1 .. m - 1 /\ y \in 1 .. m /\ b <= y /\ y - 1 = x
      BY <1>0, <2>8
    <3>1. x \in 1 .. Len(k) - 1 /\ y \in 1 .. Len(k) /\ b <= y /\ y - 1 = x
      BY <1>0, <1>1, <3>4
    <3>2. k[x] # k[y]
      BY <1>0, <2>8, <3>1
    <3>3. SubSeq(k, b, y) = Append(SubSeq(k, b, y - 1), k[y])
      BY <1>0, <3>1, LongerPart
    <3> QED BY <1>0, <1>3, <2>3, <2>6, <3>1, <3>2, <3>3
  <2> QED BY <1>0, <2>4, <2>7, <2>8
<1> QED BY <1>0, <1>4, <1>5

(* So the cells are the loop without its first or its last vertex.         *)
LEMMA CycleIs ==
  ASSUME NEW P, NEW k \in Seq(P), NEW r, NEW n \in Nat, n >= 1, NEW b \in {1, 2},
         NEW f, IsWay(f, Open(r), k, n, b)
  PROVE  Cycle(r) = SubSeq(k, b, f[n])
<1> DEFINE o == Open(r)
           g == [i \in 0 .. n |-> SubSeq(k, b, At(f, b, i))]
<1> HIDE DEF o
<1>1. \A i \in 1 .. n : SubSeq(k, b, At(f, b, i)) = CycleStep(o, i, SubSeq(k, b, At(f, b, i - 1)))
  <2>1. IsWay(f, o, k, n, b)
    BY DEF o
  <2> SUFFICES ASSUME NEW i \in 1 .. n
               PROVE  SubSeq(k, b, At(f, b, i)) = CycleStep(o, i, SubSeq(k, b, At(f, b, i - 1)))
    OBVIOUS
  <2> QED BY <2>1, CycleWalk
<1>2. SubSeq(k, b, At(f, b, 0)) = <<>>
  <2>1. At(f, b, 0) = b - 1
    BY DEF At
  <2> QED BY <2>1, SubSeqEmpty
<1>3. \A i \in 0 .. n : g[i] = IF i = 0 THEN <<>> ELSE CycleStep(o, i, g[i - 1])
  <2> SUFFICES ASSUME NEW i \in 0 .. n
               PROVE  g[i] = IF i = 0 THEN <<>> ELSE CycleStep(o, i, g[i - 1])
    OBVIOUS
  <2>1. CASE i = 0
    BY <1>2, <2>1
  <2>2. CASE i # 0
    <3>1. i \in 1 .. n /\ i - 1 \in 0 .. n
      BY <2>2
    <3> QED BY <1>1, <2>2, <3>1
  <2> QED BY <2>1, <2>2
<1>4. g = [i \in 0 .. n |-> g[i]]
  OBVIOUS
<1>5. g[n] = SubSeq(k, b, At(f, b, n))
  <2>1. n \in 0 .. n
    OBVIOUS
  <2> QED BY <2>1
<1> HIDE DEF g
<1>6. g = [i \in 0 .. n |-> IF i = 0 THEN <<>> ELSE CycleStep(o, i, g[i - 1])]
  BY <1>3, <1>4
<1>7. Cycle(r) = g[n]
  <2>1. g = [i \in 0 .. n |-> IF i = 0 THEN <<>> ELSE CycleStep(Open(r), i, g[i - 1])]
    BY <1>6 DEF o
  <2>2. n \in Nat /\ Len(Open(r)) = n
    BY DEF IsWay
  <2> QED BY ONLY <2>1, <2>2, CycleSteps
<1>8. At(f, b, n) = f[n]
  BY DEF At
<1> QED BY <1>5, <1>7, <1>8

(* Without the first it is a rotation of the loop without the last.        *)
LEMMA SecondStart ==
  ASSUME NEW P, NEW k \in Seq(P), Len(k) >= 3, k[Len(k)] = k[1]
  PROVE  SubSeq(k, 2, Len(k)) = RotateTo(SubSeq(k, 1, Len(k) - 1), 2)
<1> DEFINE t == SubSeq(k, 1, Len(k) - 1)
           x == SubSeq(k, 2, Len(k))
           y == RotateTo(t, 2)
<1>1. PICK m \in Nat : m = Len(k) - 1 /\ m + 1 = Len(k) /\ m >= 2
  <2>1. Len(k) \in Nat
    OBVIOUS
  <2> QED BY <2>1
<1>2. t \in Seq(P) /\ Len(t) = m /\ \A j \in 1 .. m : t[j] = k[j]
  <2>1. 1 \in 1 .. Len(k) + 1 /\ m \in 0 .. Len(k) /\ 1 <= m + 1 /\ m - 1 + 1 = m
        /\ \A j \in 1 .. m : 1 + j - 1 = j
    BY <1>1
  <2>2. /\ SubSeq(k, 1, m) \in Seq(P)
        /\ Len(SubSeq(k, 1, m)) = m - 1 + 1
        /\ \A j \in 1 .. m - 1 + 1 : SubSeq(k, 1, m)[j] = k[1 + j - 1]
    BY <2>1, PartIs
  <2>3. t = SubSeq(k, 1, m)
    BY <1>1
  <2> HIDE DEF t
  <2> QED BY <2>1, <2>2, <2>3
<1>3. x \in Seq(P) /\ Len(x) = m /\ \A j \in 1 .. m : x[j] = k[j + 1]
  <2>1. 2 \in 1 .. Len(k) + 1 /\ m + 1 \in 0 .. Len(k) /\ 2 <= (m + 1) + 1 /\ (m + 1) - 2 + 1 = m
        /\ \A j \in 1 .. m : 2 + j - 1 = j + 1
    BY <1>1
  <2>2. /\ SubSeq(k, 2, m + 1) \in Seq(P)
        /\ Len(SubSeq(k, 2, m + 1)) = (m + 1) - 2 + 1
        /\ \A j \in 1 .. (m + 1) - 2 + 1 : SubSeq(k, 2, m + 1)[j] = k[2 + j - 1]
    BY <2>1, PartIs
  <2>3. x = SubSeq(k, 2, m + 1)
    BY <1>1
  <2> HIDE DEF x
  <2> QED BY <2>1, <2>2, <2>3
<1> HIDE DEF t, x
<1>4. y \in Seq(P) /\ Len(y) = m /\ \A j \in 1 .. m : y[j] = t[Around(m, 2, j)]
  <2>1. 2 \in 1 .. Len(t)
    BY <1>1, <1>2
  <2> QED BY <1>2, <2>1, RotateProperties
<1> HIDE DEF y
<1>5. ASSUME NEW j \in 1 .. m PROVE x[j] = y[j]
  <2>1. CASE j = m
    <3>1. Around(m, 2, j) = 1 /\ 1 \in 1 .. m
      BY <1>1, <2>1 DEF Around
    <3> QED BY <1>1, <1>2, <1>3, <1>4, <2>1, <3>1
  <2>2. CASE j # m
    <3>1. Around(m, 2, j) = j + 1 /\ j + 1 \in 1 .. m
      BY <1>1, <2>2 DEF Around
    <3> QED BY <1>2, <1>3, <1>4, <3>1
  <2> QED BY <2>1, <2>2
<1>6. x = y
  BY <1>3, <1>4, <1>5, SeqEqual
<1> QED BY <1>6 DEF x, y, t

LEMMA OpenIsLattice ==
  ASSUME NEW r \in Seq(Int \X Int), IsClosed(r), NEW n \in Nat, n + 1 = Len(r)
  PROVE  /\ n >= 1
         /\ Len(Open(r)) = n
         /\ Len(Lattice(r)) = n + 1
         /\ Lattice(r)[n + 1] = Lattice(r)[1]
         /\ \A i \in 1 .. n : Open(r)[i] = Lattice(r)[i]
<1>1. n >= 1 /\ r[1] = r[n + 1]
  <2>1. n + 1 > 1 /\ r[1] = r[n + 1]
    BY DEF IsClosed
  <2>2. n >= 1
    BY ONLY <2>1, n \in Nat
  <2> QED BY <2>1, <2>2
<1>2. Len(Lattice(r)) = n + 1 /\ \A i \in 1 .. n + 1 : Lattice(r)[i] = Quantize(r[i])
  BY LatticeProperties
<1>3. DOMAIN Open(r) = 1 .. n /\ \A i \in 1 .. n : Open(r)[i] = Quantize(r[i])
  BY DEF Open
<1>4. Len(Open(r)) = n
  BY <1>3
<1>5. 1 \in 1 .. n + 1 /\ n + 1 \in 1 .. n + 1 /\ \A i \in 1 .. n : i \in 1 .. n + 1
  BY <1>1
<1> QED BY <1>1, <1>2, <1>3, <1>4, <1>5

LEMMA LastStep ==
  ASSUME NEW m \in Nat, NEW x \in 1 .. m, m = x \/ m = x + 1, NEW k, NEW same \in BOOLEAN,
         \A j \in 1 .. m - 1 : k[j] # k[j + 1], same <=> k[x] = k[m]
  PROVE  x = IF same THEN m ELSE m - 1
<1>1. CASE m = x
  BY <1>1
<1>2. CASE m = x + 1
  <2>1. x \in 1 .. m - 1 /\ x = m - 1
    BY <1>2
  <2>2. k[x] # k[x + 1]
    BY <2>1
  <2> QED BY <1>2, <2>1, <2>2
<1> QED BY <1>1, <1>2

(* The cells a ring goes through are what is kept of it, rotated.          *)
LEMMA CycleIsKept ==
  ASSUME NEW r \in Seq(Int \X Int), IsClosed(r), ~IsFlat(Lattice(r))
  PROVE  IsRotated(Cycle(r), Kept(r))
<1> DEFINE q == Lattice(r)
           o == Open(r)
<1>0. Len(r) >= 1
  BY DEF IsClosed
<1>2. PICK k \in Seq(Cells) : \E f : IsLoopOf(f, q, k)
  BY LoopExists
<1>3. PICK f : IsLoopOf(f, q, k)
  BY <1>2
<1>4. Kept(r) = SubSeq(k, 1, Len(k) - 1)
  BY <1>0, <1>3, LoopKept
<1>5. PICK n \in Nat : n + 1 = Len(r)
  <2>1. PICK N \in Nat : N = Len(r) /\ N >= 1
    BY <1>0
  <2>2. N - 1 \in Nat /\ (N - 1) + 1 = N
    BY <2>1
  <2> QED BY <2>1, <2>2
<1>6. /\ n >= 1
      /\ Len(o) = n
      /\ Len(q) = n + 1
      /\ q[n + 1] = q[1]
      /\ \A i \in 1 .. n : o[i] = q[i]
  BY <1>5, OpenIsLattice
<1> HIDE DEF q, o
<1>7. PICK m \in Nat : m = Len(k) /\ m >= 3
  BY <1>3 DEF IsLoopOf
<1>8. /\ f \in [1 .. n + 1 -> 1 .. m]
      /\ f[1] = 1
      /\ f[n + 1] = m
      /\ \A i \in 1 .. n : f[i + 1] = f[i] \/ f[i + 1] = f[i] + 1
      /\ \A i \in 1 .. n + 1 : q[i] = k[f[i]]
      /\ \A j \in 1 .. m - 1 : k[j] # k[j + 1]
      /\ k[m] = k[1]
  <2>1. (n + 1) - 1 = n
    OBVIOUS
  <2> QED BY <1>3, <1>6, <1>7, <2>1 DEF IsLoopOf, Traces
<1> DEFINE g == [i \in 1 .. n |-> f[i]]
           b == IF o[1] = o[n] THEN 2 ELSE 1
<1>9. IsWay(g, o, k, n, b)
  <2>1. \A i \in 1 .. n : i \in 1 .. n + 1
    OBVIOUS
  <2>2. \A i \in 1 .. n - 1 : i \in 1 .. n /\ i + 1 \in 1 .. n
    OBVIOUS
  <2>3. 1 \in 1 .. n
    BY <1>6
  <2>4. g \in [1 .. n -> 1 .. Len(k)] /\ \A i \in 1 .. n : g[i] = f[i]
    BY <1>7, <1>8, <2>1
  <2>5. b = 1 <=> o[1] # o[n]
    OBVIOUS
  <2> HIDE DEF g, b
  <2> QED BY <1>6, <1>7, <1>8, <2>1, <2>2, <2>3, <2>4, <2>5 DEF IsWay
<1>10. PICK x \in 1 .. m : x = f[n]
  <2>1. n \in 1 .. n + 1
    BY <1>6
  <2> QED BY <1>8, <2>1
<1>11. x = IF o[1] = o[n] THEN m ELSE m - 1
  <2>1. m = x \/ m = x + 1
    <3>1. n \in 1 .. n
      BY <1>6
    <3> QED BY <1>8, <1>10, <3>1
  <2>2. o[1] = o[n] <=> k[x] = k[m]
    <3>1. 1 \in 1 .. n /\ n \in 1 .. n /\ n \in 1 .. n + 1 /\ n + 1 \in 1 .. n + 1
      BY <1>6
    <3> QED BY <1>6, <1>8, <1>10, <3>1
  <2> DEFINE same == o[1] = o[n]
  <2>3. same \in BOOLEAN /\ (same <=> k[x] = k[m])
    BY <2>2
  <2> HIDE DEF same
  <2>4. x = IF same THEN m ELSE m - 1
    BY <1>8, <2>1, <2>3, LastStep
  <2> QED BY <2>4 DEF same
<1>12. Cycle(r) = SubSeq(k, b, x)
  <2>1. b \in {1, 2} /\ g[n] = x
    <3>1. n \in 1 .. n
      BY <1>6
    <3> QED BY <1>10, <3>1
  <2> HIDE DEF b, g
  <2>2. Cycle(r) = SubSeq(k, b, g[n])
    <3>1. k \in Seq(Cells) /\ n \in Nat /\ n >= 1 /\ b \in {1, 2}
      BY <1>6, <2>1
    <3>2. IsWay(g, Open(r), k, n, b)
      BY <1>9 DEF o
    <3> QED BY ONLY <3>1, <3>2, CycleIs
  <2> QED BY <2>1, <2>2
<1>13. Kept(r) \in Seq(Cells) /\ Len(Kept(r)) >= 1
  BY <1>0, KeptIsSeq
<1>14. CASE o[1] # o[n]
  <2>1. Cycle(r) = Kept(r)
    BY <1>4, <1>7, <1>11, <1>12, <1>14
  <2>2. Kept(r) = RotateTo(Kept(r), 1) /\ 1 \in 1 .. Len(Kept(r))
    <3>1. Len(Kept(r)) >= 1 /\ Len(Kept(r)) \in Nat
      BY <1>13
    <3> QED BY <1>13, <3>1, RotateByOne
  <2> QED BY <2>1, <2>2 DEF IsRotated
<1>15. CASE o[1] = o[n]
  <2>1. Cycle(r) = SubSeq(k, 2, Len(k))
    BY <1>7, <1>11, <1>12, <1>15
  <2>2. SubSeq(k, 2, Len(k)) = RotateTo(Kept(r), 2)
    BY <1>4, <1>7, <1>8, SecondStart
  <2>3. 2 \in 1 .. Len(Kept(r))
    <3>1. 1 \in 1 .. Len(k) + 1 /\ m - 1 \in 0 .. Len(k) /\ 1 <= (m - 1) + 1
      BY <1>7
    <3>2. Len(SubSeq(k, 1, m - 1)) = (m - 1) - 1 + 1
      BY <3>1, PartIs
    <3>3. 2 \in 1 .. (m - 1) - 1 + 1
      BY <1>7
    <3> QED BY <1>4, <1>7, <3>2, <3>3
  <2> QED BY <2>1, <2>2, <2>3 DEF IsRotated
<1> QED BY <1>14, <1>15

(* The bytes of a ring tell it from every other.                           *)
LEMMA RingTells ==
  ASSUME NEW r \in Seq(Position), NEW s \in Seq(Position), IsClosed(r), IsClosed(s),
         SqlCanonRing(r) = SqlCanonRing(s), SqlCanonRing(r) # Degenerate
  PROVE  SameRing(r, s)
<1> DEFINE t == Kept(r)
           u == Kept(s)
           c == Cycle(r)
           d == Cycle(s)
<1>1. /\ r \in Seq(Int \X Int) /\ s \in Seq(Int \X Int)
      /\ Len(r) >= 1 /\ Len(s) >= 1
  BY PositionsArePairs DEF IsClosed
<1>2. t \in Seq(Fitting) /\ u \in Seq(Fitting) /\ Len(t) >= 1 /\ Len(u) >= 1
  BY <1>1, KeptFits
<1>3. Canonical(t) = Canonical(u) /\ Canonical(t) # Degenerate
  BY <1>1, SqlCanonRingIs
<1>4. Len(t) >= 3 /\ Len(u) >= 3 /\ Alike(u, t)
  <2> HIDE DEF t, u
  <2> QED BY <1>2, <1>3, CanonicalTells
<1>5. IsRotated(c, t) /\ IsRotated(d, u)
  <2>1. ~(1 >= 3)
    OBVIOUS
  <2>2. Len(t) # 1 /\ Len(u) # 1
    BY <1>4, <2>1
  <2> QED BY <1>1, <2>2, FlatKept, CycleIsKept
<1> HIDE DEF t, u, c, d
<1>6. /\ c \in Seq(Fitting) /\ Len(c) = Len(t)
      /\ d \in Seq(Fitting) /\ Len(d) = Len(u)
  BY <1>2, <1>5, RotatedIs
<1>7. IsRotated(t, c)
  BY <1>2, <1>5, RotatedBack
<1>8. Reverse(t) \in Seq(Fitting) /\ Len(Reverse(t)) = Len(t)
  BY <1>2, ReverseProperties
<1>9. CASE IsRotated(u, t)
  <2>1. IsRotated(u, c)
    BY <1>6, <1>7, <1>9, RotatedAgain
  <2>2. IsRotated(d, c)
    BY <1>5, <1>6, <2>1, RotatedAgain
  <2>3. Len(d) = Len(c)
    BY <1>6, <2>2, RotatedIs
  <2> QED BY <1>6, <2>2, <2>3 DEF SameRing, IsRotated, c, d
<1>10. CASE IsRotated(u, Reverse(t))
  <2>1. IsRotated(d, Reverse(t))
    BY <1>5, <1>8, <1>10, RotatedAgain
  <2>2. Len(d) = Len(c)
    BY <1>6, <1>8, <2>1, RotatedIs
  <2>3. IsRotated(Reverse(d), t)
    <3>1. IsRotated(Reverse(d), Reverse(Reverse(t)))
      BY <1>8, <2>1, RotatedReversed
    <3>2. Reverse(Reverse(t)) = t
      BY <1>2, ReversedTwice
    <3> QED BY <3>1, <3>2
  <2>4. IsRotated(Reverse(d), c)
    BY <1>6, <1>7, <2>3, RotatedAgain
  <2> QED BY <1>6, <2>2, <2>4 DEF SameRing, IsRotated, c, d
<1> QED BY <1>4, <1>9, <1>10 DEF Alike

(***************************************************************************)
(* Codes: bytes that tell where they end                                   *)
(***************************************************************************)

IsCode(D) ==
  /\ D \subseteq Seq(Int)
  /\ \A x, y \in D : \A u, v \in Seq(Int) : x \o u = y \o v => x = y

LEMMA Cancel ==
  ASSUME NEW x \in Seq(Int), NEW y \in Seq(Int), NEW z \in Seq(Int), x \o y = x \o z
  PROVE  y = z
BY ConcatSimplifications

AreWords(x, y, z) == x \in Seq(Int) /\ y \in Seq(Int) /\ z \in Seq(Int)

LEMMA Regroup ==
  ASSUME NEW x \in Seq(Int), NEW y \in Seq(Int), NEW z \in Seq(Int)
  PROVE  (x \o y) \o z = x \o (y \o z)
BY ConcatAssociative

LEMMA RegroupWords ==
  ASSUME NEW x, NEW y, NEW z, AreWords(x, y, z)
  PROVE  (x \o y) \o z = x \o (y \o z)
BY Regroup DEF AreWords

Meet(x, u, y, v) == x \o u = y \o v

(* Of a code followed by something, both can be told.                      *)
LEMMA CodeTells ==
  ASSUME NEW D, IsCode(D), NEW x \in D, NEW y \in D, NEW u \in Seq(Int), NEW v \in Seq(Int),
         Meet(x, u, y, v)
  PROVE  x = y /\ u = v
<1>1. x = y /\ x \in Seq(Int)
  BY DEF IsCode, Meet
<1>2. x \o u = x \o v
  BY <1>1 DEF Meet
<1> QED BY <1>1, <1>2, Cancel

RingCodes == {RingBytes(u) : u \in Seq(Fitting)}

(* The bytes of rings are a code: the count tells their length.            *)
LEMMA RingCode == IsCode(RingCodes)
<1>1. RingCodes \subseteq Seq(Int)
  BY FittingAreCells, RingBytesIs DEF RingCodes
<1>2. ASSUME NEW x \in RingCodes, NEW y \in RingCodes, NEW u \in Seq(Int), NEW v \in Seq(Int),
             x \o u = y \o v
      PROVE  x = y
  <2>1. PICK s \in Seq(Fitting) : x = RingBytes(s)
    BY DEF RingCodes
  <2>2. PICK t \in Seq(Fitting) : y = RingBytes(t)
    BY DEF RingCodes
  <2>3. PICK m \in Nat : m = Len(s) /\ x \in Seq(Int) /\ Len(x) = 1 + 2 * m /\ x[1] = m
    <3>1. s \in Seq(Cells)
      BY FittingAreCells
    <3>2. x \in Seq(Int) /\ Len(x) = 1 + 2 * Len(s) /\ x[1] = Len(s)
      BY <2>1, <3>1, RingBytesIs
    <3>3. Len(s) \in Nat
      OBVIOUS
    <3> QED BY <3>2, <3>3
  <2>4. PICK n \in Nat : n = Len(t) /\ y \in Seq(Int) /\ Len(y) = 1 + 2 * n /\ y[1] = n
    <3>1. t \in Seq(Cells)
      BY FittingAreCells
    <3>2. y \in Seq(Int) /\ Len(y) = 1 + 2 * Len(t) /\ y[1] = Len(t)
      BY <2>2, <3>1, RingBytesIs
    <3>3. Len(t) \in Nat
      OBVIOUS
    <3> QED BY <3>2, <3>3
  <2>5. IsJoin(x \o u, Int, x, u) /\ IsJoin(y \o v, Int, y, v)
    BY <2>3, <2>4, ConcatIs
  <2>6. (\A j \in 1 .. 1 + 2 * m : (x \o u)[j] = x[j])
        /\ \A j \in 1 .. 1 + 2 * n : (x \o u)[j] = y[j]
    BY <1>2, <2>3, <2>4, <2>5 DEF IsJoin
  <2>7. 1 \in 1 .. 1 + 2 * m /\ 1 \in 1 .. 1 + 2 * n
    OBVIOUS
  <2>8. m = n
    BY <2>3, <2>4, <2>6, <2>7
  <2> QED BY <2>3, <2>4, <2>6, <2>8, SeqEqual
<1> QED BY <1>1, <1>2 DEF IsCode

(* F[i] is the first i members of a, one after the other.                  *)
Joins(F, a, n) ==
  /\ F \in [0 .. n -> Seq(Int)]
  /\ F[0] = <<>>
  /\ \A i \in 1 .. n : F[i] = F[i - 1] \o a[i]

(* A concatenation, member after member.                                   *)
LEMMA Joined ==
  ASSUME NEW D, D \subseteq Seq(Int), NEW a \in Seq(D), NEW n \in Nat, n = Len(a)
  PROVE  \E F : Joins(F, a, n) /\ FlattenSeq(a) = F[n]
<1> DEFINE S == Seq(Int)
           step == [i \in 1 .. n |-> [x \in S |-> x \o a[i]]]
           h == CHOOSE flatten : flatten =
                  [i \in 1 .. n |-> IF i = 1 THEN a[i] ELSE flatten[i - 1] \o a[i]]
<1>1. \A i \in 1 .. n : a[i] \in S
  BY ElementOfSeq
<1>2. <<>> \in S
  OBVIOUS
<1>3. step \in [1 .. n -> [S -> S]]
  <2>1. ASSUME NEW i \in 1 .. n, NEW x \in S PROVE x \o a[i] \in S
    BY <1>1, ConcatProperties
  <2> HIDE DEF S
  <2> QED BY <2>1
<1>4. PICK F : IsLoop(F, S, <<>>, n, step)
  <2> DEFINE c == <<>>
  <2>1. c \in S
    BY <1>2
  <2> HIDE DEF step, S, c
  <2>2. \E g : IsLoop(g, S, c, n, step)
    BY <1>3, <2>1, Iterate
  <2> QED BY <2>2 DEF c
<1>5. /\ F \in [0 .. n -> S]
      /\ F[0] = <<>>
      /\ \A i \in 1 .. n : F[i] = step[i][F[i - 1]]
  BY <1>4 DEF IsLoop
<1>6. \A i \in 1 .. n : F[i] = F[i - 1] \o a[i]
  <2> SUFFICES ASSUME NEW i \in 1 .. n PROVE F[i] = F[i - 1] \o a[i]
    OBVIOUS
  <2>1. i - 1 \in 0 .. n
    OBVIOUS
  <2>2. F[i - 1] \in S
    BY <1>5, <2>1
  <2> HIDE DEF S
  <2> QED BY <1>5, <2>2
<1>7. Joins(F, a, n)
  BY <1>5, <1>6 DEF Joins
<1>8. CASE n = 0
  <2>1. a = <<>> /\ FlattenSeq(a) = a
    <3>1. Len(a) = 0
      BY <1>8
    <3>2. a = <<>>
      BY <3>1, EmptySeq
    <3> QED BY <3>1, <3>2 DEF FlattenSeq
  <2> QED BY <1>5, <1>7, <1>8, <2>1
<1>9. CASE n # 0
  <2>1. FlattenSeq(a) = h[n]
    BY <1>9 DEF FlattenSeq
  <2> DEFINE g == [i \in 1 .. n |-> F[i]]
  <2>2. \A i \in 1 .. n : F[i] = IF i = 1 THEN a[i] ELSE F[i - 1] \o a[i]
    <3> SUFFICES ASSUME NEW i \in 1 .. n PROVE F[i] = IF i = 1 THEN a[i] ELSE F[i - 1] \o a[i]
      OBVIOUS
    <3>1. CASE i = 1
      <4>1. a[1] \in Seq(Int)
        BY <1>1, <3>1
      <4>2. F[1] = F[1 - 1] \o a[1]
        BY <1>6, <3>1
      <4>3. F[1] = <<>> \o a[1]
        BY <1>5, <4>2
      <4> QED BY <3>1, <4>1, <4>3, ConcatEmptySeq
    <3>2. CASE i # 1
      BY <1>6, <3>2
    <3> QED BY <3>1, <3>2
  <2>3. g = [i \in 1 .. n |-> IF i = 1 THEN a[i] ELSE g[i - 1] \o a[i]]
    <3>1. \A i \in 1 .. n : i # 1 => i - 1 \in 1 .. n
      OBVIOUS
    <3>2. \A i \in 1 .. n : F[i] = IF i = 1 THEN a[i] ELSE g[i - 1] \o a[i]
      BY <2>2, <3>1
    <3> QED BY <3>2
  <2> HIDE DEF g
  <2>4. h = [i \in 1 .. n |-> IF i = 1 THEN a[i] ELSE h[i - 1] \o a[i]]
    BY <2>3
  <2> HIDE DEF h
  <2> DEFINE T == {i \in 0 .. n : i # 0 => h[i] = F[i]}
  <2>5. \A i \in 1 .. n : i - 1 \in T => i \in T
    <3> SUFFICES ASSUME NEW i \in 1 .. n, i - 1 \in T PROVE h[i] = F[i]
      <4>1. \A i \in 1 .. n : i \in 0 .. n
        OBVIOUS
      <4> QED BY <4>1
    <3>1. h[i] = IF i = 1 THEN a[i] ELSE h[i - 1] \o a[i]
      BY <2>4
    <3>2. F[i] = IF i = 1 THEN a[i] ELSE F[i - 1] \o a[i]
      BY <2>2
    <3>3. i # 1 => h[i - 1] = F[i - 1]
      OBVIOUS
    <3> QED BY <3>1, <3>2, <3>3
  <2>6. 0 \in T
    OBVIOUS
  <2>7. \A i \in 0 .. n : i \in T
    <3> HIDE DEF T
    <3> QED BY <2>5, <2>6, UpTo
  <2>8. h[n] = F[n]
    <3>1. n \in 0 .. n
      OBVIOUS
    <3>2. n \in T
      BY <2>7, <3>1
    <3> QED BY <1>9, <3>2
  <2> QED BY <1>7, <2>1, <2>8
<1> QED BY <1>8, <1>9

(* What comes after the first members.                                     *)
Follows(x, F, a, i) == \E w \in Seq(Int) : x = F[i - 1] \o (a[i] \o w)

LEMMA Rest ==
  ASSUME NEW n \in Nat, NEW a, \A i \in 1 .. n : a[i] \in Seq(Int), NEW F, Joins(F, a, n),
         NEW u \in Seq(Int)
  PROVE  \A i \in 1 .. n : Follows(F[n] \o u, F, a, i)
<1> DEFINE S == Seq(Int)
           T == {m \in 0 .. n : \E w \in S : F[n] \o u = F[n - m] \o w}
<1>1. /\ F \in [0 .. n -> S]
      /\ \A i \in 1 .. n : F[i] = F[i - 1] \o a[i]
  BY DEF Joins
<1>2. 0 \in T
  <2>1. n - 0 = n /\ 0 \in 0 .. n
    OBVIOUS
  <2> QED BY <2>1
<1>3. ASSUME NEW m \in 1 .. n, NEW w \in S, F[n] \o u = F[n - (m - 1)] \o w
      PROVE  F[n] \o u = F[n - m] \o (a[n - m + 1] \o w) /\ a[n - m + 1] \o w \in S
  <2>1. n - (m - 1) \in 1 .. n /\ n - (m - 1) = n - m + 1 /\ (n - m + 1) - 1 = n - m
        /\ n - m \in 0 .. n
    OBVIOUS
  <2>2. F[n - m + 1] = F[n - m] \o a[n - m + 1]
    BY <1>1, <2>1
  <2>3. F[n - m] \in S /\ a[n - m + 1] \in S
    BY <1>1, <2>1
  <2>4. (F[n - m] \o a[n - m + 1]) \o w = F[n - m] \o (a[n - m + 1] \o w)
    <3> DEFINE x == F[n - m]
               y == a[n - m + 1]
    <3>1. x \in Seq(Int) /\ y \in Seq(Int) /\ w \in Seq(Int)
      BY <2>3
    <3> HIDE DEF x, y
    <3>2. (x \o y) \o w = x \o (y \o w)
      BY ONLY <3>1, Regroup
    <3> QED BY <3>2 DEF x, y
  <2>5. a[n - m + 1] \o w \in S
    BY <2>3, ConcatProperties
  <2> QED BY <1>3, <2>1, <2>2, <2>4, <2>5
<1>4. \A m \in 1 .. n : m - 1 \in T => m \in T
  <2> SUFFICES ASSUME NEW m \in 1 .. n, m - 1 \in T PROVE m \in T
    OBVIOUS
  <2>1. PICK w \in S : F[n] \o u = F[n - (m - 1)] \o w
    OBVIOUS
  <2>2. F[n] \o u = F[n - m] \o (a[n - m + 1] \o w) /\ a[n - m + 1] \o w \in S
    BY <1>3, <2>1
  <2>3. m \in 0 .. n
    OBVIOUS
  <2> HIDE DEF S
  <2> QED BY <2>2, <2>3
<1>5. \A m \in 0 .. n : m \in T
  <2> HIDE DEF T
  <2> QED BY <1>2, <1>4, UpTo
<1>6. ASSUME NEW i \in 1 .. n PROVE \E w \in S : F[n] \o u = F[i - 1] \o (a[i] \o w)
  <2>1. n - i \in 0 .. n /\ n - (n - i) = i
    OBVIOUS
  <2>2. n - i \in T
    BY <1>5, <2>1
  <2>3. PICK w \in S : F[n] \o u = F[n - (n - i)] \o w
    BY <2>2
  <2>4. n - i + 1 \in 1 .. n \/ i = n + 1
    OBVIOUS
  <2>8. i - 1 \in 0 .. n
    OBVIOUS
  <2>5. F[i] = F[i - 1] \o a[i]
    BY <1>1
  <2>6. F[i - 1] \in S /\ a[i] \in S
    BY <1>1, <2>8
  <2>7. (F[i - 1] \o a[i]) \o w = F[i - 1] \o (a[i] \o w)
    BY <2>6, Regroup
  <2> QED BY <2>1, <2>3, <2>5, <2>7
<1> QED BY <1>6 DEF Follows

(* As many codes, one after the other, can all be told.                    *)
LEMMA JoinsTell ==
  ASSUME NEW D, IsCode(D), NEW n \in Nat, NEW a \in Seq(D), NEW b \in Seq(D),
         Len(a) = n, Len(b) = n, NEW u \in Seq(Int), NEW v \in Seq(Int),
         Meet(FlattenSeq(a), u, FlattenSeq(b), v)
  PROVE  a = b
<1>1. D \subseteq Seq(Int)
  BY DEF IsCode
<1>2. PICK F : Joins(F, a, n) /\ FlattenSeq(a) = F[n]
  BY <1>1, Joined
<1>3. PICK G : Joins(G, b, n) /\ FlattenSeq(b) = G[n]
  BY <1>1, Joined
<1>4. \A i \in 1 .. n : a[i] \in D /\ b[i] \in D /\ a[i] \in Seq(Int) /\ b[i] \in Seq(Int)
  BY <1>1, ElementOfSeq
<1>5. \A i \in 1 .. n : Follows(F[n] \o u, F, a, i)
  <2>1. Joins(F, a, n) /\ \A i \in 1 .. n : a[i] \in Seq(Int)
    BY <1>2, <1>4
  <2> QED BY ONLY <2>1, n \in Nat, u \in Seq(Int), Rest
<1>6. \A i \in 1 .. n : Follows(G[n] \o v, G, b, i)
  <2>1. Joins(G, b, n) /\ \A i \in 1 .. n : b[i] \in Seq(Int)
    BY <1>3, <1>4
  <2> QED BY ONLY <2>1, n \in Nat, v \in Seq(Int), Rest
<1> DEFINE T == {i \in 0 .. n : F[i] = G[i] /\ (i # 0 => a[i] = b[i])}
<1>7. 0 \in T
  BY <1>2, <1>3 DEF Joins
<1>8. ASSUME NEW i \in 1 .. n, i - 1 \in T PROVE i \in T
  <2>1. F[i - 1] = G[i - 1] /\ F[i - 1] \in Seq(Int)
    <3>1. F \in [0 .. n -> Seq(Int)] /\ i - 1 \in 0 .. n
      BY <1>2 DEF Joins
    <3> QED BY <1>8, <3>1
  <2>2. PICK w \in Seq(Int) : F[n] \o u = F[i - 1] \o (a[i] \o w)
    BY <1>5 DEF Follows
  <2>3. PICK z \in Seq(Int) : G[n] \o v = G[i - 1] \o (b[i] \o z)
    BY <1>6 DEF Follows
  <2>4. a[i] \o w \in Seq(Int) /\ b[i] \o z \in Seq(Int)
    BY <1>4, ConcatProperties
  <2>5. F[i - 1] \o (a[i] \o w) = F[i - 1] \o (b[i] \o z)
    BY <1>2, <1>3, <2>1, <2>2, <2>3 DEF Meet
  <2>6. a[i] \o w = b[i] \o z
    BY <2>1, <2>4, <2>5, Cancel
  <2>7. a[i] = b[i]
    <3>1. a[i] \in D /\ b[i] \in D
      BY <1>4
    <3>2. Meet(a[i], w, b[i], z)
      BY <2>6 DEF Meet
    <3> QED BY <3>1, <3>2, CodeTells
  <2>8. F[i] = G[i]
    BY <1>2, <1>3, <2>1, <2>7 DEF Joins
  <2> QED BY <2>7, <2>8
<1>9. \A i \in 1 .. n : i - 1 \in T => i \in T
  BY <1>8
<1>10. \A i \in 0 .. n : i \in T
  <2> HIDE DEF T
  <2> QED BY <1>7, <1>9, UpTo
<1>11. \A i \in 1 .. n : a[i] = b[i]
  BY <1>10
<1> QED BY <1>11, SeqEqual

(***************************************************************************)
(* The bytes of a polygon tell its rings                                   *)
(***************************************************************************)

LEMMA SortLexIsSeq ==
  ASSUME NEW D, D \subseteq Seq(Int), NEW n \in Nat, NEW a, DOMAIN a = 1 .. n,
         \A i \in 1 .. n : a[i] \in D
  PROVE  SortLex(a) \in Seq(D) /\ Len(SortLex(a)) = n
<1>1. \A i \in 1 .. n : a[i] \in Seq(Int)
  OBVIOUS
<1>2. PICK p \in Bijection(1 .. n, 1 .. n) : SortLex(a) = [i \in 1 .. n |-> a[p[i]]]
  BY <1>1, SortLexOrders
<1>3. \A i \in 1 .. n : p[i] \in 1 .. n
  BY BijectionIs
<1>4. [i \in 1 .. n |-> a[p[i]]] \in [1 .. n -> D]
  BY <1>3
<1> QED BY <1>2, <1>4

AreMatched(a, b, S) == \E f \in Bijection(S, S) : \A k \in S : a[k] = b[f[k]]

(* Two lists that sort to the same one match, member by member.            *)
LEMMA SortedMatch ==
  ASSUME NEW n \in Nat, NEW a, NEW b, DOMAIN a = 1 .. n, DOMAIN b = 1 .. n,
         \A i \in 1 .. n : a[i] \in Seq(Int), \A i \in 1 .. n : b[i] \in Seq(Int),
         SortLex(a) = SortLex(b)
  PROVE  AreMatched(a, b, 1 .. n)
<1> DEFINE S == 1 .. n
<1>1. \E p \in Bijection(S, S) : SortLex(a) = [i \in S |-> a[p[i]]]
  <2>1. n \in Nat /\ DOMAIN a = 1 .. n /\ \A i \in 1 .. n : a[i] \in Seq(Int)
    OBVIOUS
  <2> QED BY ONLY <2>1, SortLexOrders
<1>2. \E p \in Bijection(S, S) : SortLex(b) = [i \in S |-> b[p[i]]]
  <2>1. n \in Nat /\ DOMAIN b = 1 .. n /\ \A i \in 1 .. n : b[i] \in Seq(Int)
    OBVIOUS
  <2> QED BY ONLY <2>1, SortLexOrders
<1> HIDE DEF S
<1>3. PICK p \in Bijection(S, S), r \in Bijection(S, S) : \A i \in S : a[p[i]] = b[r[i]]
  <2>1. PICK p \in Bijection(S, S) : SortLex(a) = [i \in S |-> a[p[i]]]
    BY <1>1
  <2>2. PICK r \in Bijection(S, S) : SortLex(b) = [i \in S |-> b[r[i]]]
    BY <1>2
  <2>3. ASSUME NEW i \in S PROVE a[p[i]] = b[r[i]]
    <3>1. SortLex(a)[i] = a[p[i]]
      BY ONLY <2>1
    <3>2. SortLex(b)[i] = b[r[i]]
      BY ONLY <2>2
    <3> QED BY <3>1, <3>2
  <2> QED BY <2>3
<1>4. PICK o \in Bijection(S, S) : \A i \in S : p[o[i]] = i /\ o[p[i]] = i
  BY BijectionInverse
<1> DEFINE f == [i \in S |-> r[o[i]]]
<1>5. f \in Bijection(S, S)
  BY BijectionsCompose
<1>6. \A k \in S : o[k] \in S
  BY BijectionIs
<1>7. \A k \in S : a[k] = b[f[k]]
  BY <1>3, <1>4, <1>6
<1> HIDE DEF f
<1> QED BY <1>5, <1>7 DEF AreMatched, S

LEMMA FirstTells ==
  ASSUME NEW n \in Int, NEW m \in Int, NEW x \in Seq(Int), NEW y \in Seq(Int),
         Meet(<<n>>, x, <<m>>, y)
  PROVE  n = m /\ x = y
<1> DEFINE a == <<n>>
           b == <<m>>
<1>1. a \in Seq(Int) /\ Len(a) = 1 /\ a[1] = n /\ b \in Seq(Int) /\ Len(b) = 1 /\ b[1] = m
  OBVIOUS
<1>2. a \o x = b \o y
  BY DEF Meet
<1> HIDE DEF a, b
<1>3. IsJoin(a \o x, Int, a, x) /\ IsJoin(b \o y, Int, b, y)
  BY <1>1, ConcatIs
<1>4. n = m
  <2>1. 1 \in 1 .. Len(a) /\ 1 \in 1 .. Len(b)
    BY <1>1
  <2> QED BY <1>1, <1>2, <1>3, <2>1 DEF IsJoin
<1>5. a = b
  BY <1>4 DEF a, b
<1>6. x = y
  BY <1>1, <1>2, <1>5, Cancel
<1> QED BY <1>4, <1>6

LEMMA JoinIsSeq ==
  ASSUME NEW D, IsCode(D), NEW a \in Seq(D)
  PROVE  FlattenSeq(a) \in Seq(Int)
<1>1. PICK n \in Nat : n = Len(a)
  OBVIOUS
<1>2. D \subseteq Seq(Int)
  BY DEF IsCode
<1>3. PICK F : Joins(F, a, n) /\ FlattenSeq(a) = F[n]
  BY <1>1, <1>2, Joined
<1>4. F \in [0 .. n -> Seq(Int)] /\ n \in 0 .. n
  BY <1>3 DEF Joins
<1> QED BY <1>3, <1>4

(* A count, a first member, and the others, one fewer than the count.      *)
Listed(x, a) == (<<Len(a) + 1>> \o x) \o FlattenSeq(a)

Regrouped(x, a, u) ==
  /\ Listed(x, a) \in Seq(Int)
  /\ x \in Seq(Int)
  /\ FlattenSeq(a) \o u \in Seq(Int)
  /\ x \o (FlattenSeq(a) \o u) \in Seq(Int)
  /\ Listed(x, a) \o u = <<Len(a) + 1>> \o (x \o (FlattenSeq(a) \o u))

LEMMA ListedIsSeq ==
  ASSUME NEW D, IsCode(D), NEW x \in D, NEW a \in Seq(D), NEW u \in Seq(Int)
  PROVE  Regrouped(x, a, u)
<1> DEFINE c == <<Len(a) + 1>>
           z == FlattenSeq(a)
<1>1. c \in Seq(Int) /\ x \in Seq(Int) /\ z \in Seq(Int)
  <2>1. z \in Seq(Int)
    BY JoinIsSeq
  <2>2. x \in Seq(Int)
    BY DEF IsCode
  <2> QED BY <2>1, <2>2
<1> HIDE DEF c, z
<1>2. c \o x \in Seq(Int) /\ z \o u \in Seq(Int)
  BY <1>1, ConcatProperties
<1> DEFINE p == c \o x
           t == z \o u
<1> HIDE DEF p, t
<1>3. p \in Seq(Int) /\ t \in Seq(Int)
  BY <1>2 DEF p, t
<1>4. p \o z \in Seq(Int) /\ x \o t \in Seq(Int)
  BY <1>1, <1>3, ConcatProperties
<1>5. (p \o z) \o u = p \o t
  <2>1. (p \o z) \o u = p \o (z \o u)
    <3>1. AreWords(p, z, u)
      BY <1>1, <1>3 DEF AreWords
    <3> QED BY <3>1, RegroupWords
  <2> QED BY <2>1 DEF t
<1>6. p \o t = c \o (x \o t)
  <2>1. (c \o x) \o t = c \o (x \o t)
    <3>1. AreWords(c, x, t)
      BY <1>1, <1>3 DEF AreWords
    <3> QED BY <3>1, RegroupWords
  <2> QED BY <2>1 DEF p
<1>7. (p \o z) \o u = c \o (x \o t)
  BY <1>5, <1>6
<1> QED BY <1>1, <1>2, <1>4, <1>7 DEF Listed, Regrouped, c, z, p, t

(* A count, an exterior ring and its holes can be told.                    *)
LEMMA ListedTells ==
  ASSUME NEW D, IsCode(D), NEW x \in D, NEW y \in D, NEW a \in Seq(D), NEW b \in Seq(D),
         NEW u \in Seq(Int), NEW v \in Seq(Int), Meet(Listed(x, a), u, Listed(y, b), v)
  PROVE  x = y /\ a = b
<1>0. Regrouped(x, a, u) /\ Regrouped(y, b, v)
  BY ListedIsSeq
<1> DEFINE A == FlattenSeq(a) \o u
           B == FlattenSeq(b) \o v
<1>1. /\ A \in Seq(Int) /\ x \o A \in Seq(Int)
      /\ Listed(x, a) \o u = <<Len(a) + 1>> \o (x \o A)
  BY <1>0 DEF Regrouped
<1>2. /\ B \in Seq(Int) /\ y \o B \in Seq(Int)
      /\ Listed(y, b) \o v = <<Len(b) + 1>> \o (y \o B)
  BY <1>0 DEF Regrouped
<1>3. PICK n \in Nat : n = Len(a)
  OBVIOUS
<1>4. PICK m \in Nat : m = Len(b)
  OBVIOUS
<1> HIDE DEF A, B
<1>5. <<n + 1>> \o (x \o A) = <<m + 1>> \o (y \o B)
  BY <1>1, <1>2, <1>3, <1>4 DEF Meet
<1>6. n + 1 = m + 1 /\ x \o A = y \o B
  <2>1. PICK X \in Seq(Int), Y \in Seq(Int) : X = x \o A /\ Y = y \o B
    BY <1>1, <1>2
  <2>2. PICK i \in Int, j \in Int : i = n + 1 /\ j = m + 1
    OBVIOUS
  <2>3. Meet(<<i>>, X, <<j>>, Y)
    BY <1>5, <2>1, <2>2 DEF Meet
  <2>4. i = j /\ X = Y
    BY <2>3, FirstTells
  <2> QED BY <2>1, <2>2, <2>4
<1>7. x = y /\ A = B
  <2>1. A \in Seq(Int) /\ B \in Seq(Int) /\ Meet(x, A, y, B)
    BY <1>1, <1>2, <1>6 DEF Meet
  <2> QED BY <2>1, CodeTells
<1>8. n = m
  BY <1>6
<1>9. a = b
  <2>1. Len(a) = n /\ Len(b) = n /\ Meet(FlattenSeq(a), u, FlattenSeq(b), v)
    BY <1>3, <1>4, <1>7, <1>8 DEF A, B, Meet
  <2>2. IsCode(D) /\ n \in Nat /\ a \in Seq(D) /\ b \in Seq(D) /\ u \in Seq(Int) /\ v \in Seq(Int)
    OBVIOUS
  <2> QED BY ONLY <2>1, <2>2, JoinsTell
<1> QED BY <1>7, <1>9

BodyCodes == {Listed(x, a) : x \in RingCodes, a \in Seq(RingCodes)}

(* So the bytes of polygons are a code.                                    *)
LEMMA BodyCode == IsCode(BodyCodes)
<1>1. BodyCodes \subseteq Seq(Int)
  <2> SUFFICES ASSUME NEW x \in RingCodes, NEW a \in Seq(RingCodes)
               PROVE  Listed(x, a) \in Seq(Int)
    BY DEF BodyCodes
  <2>1. <<>> \in Seq(Int) /\ IsCode(RingCodes)
    BY RingCode
  <2>2. Regrouped(x, a, <<>>)
    BY <2>1, ListedIsSeq
  <2> QED BY <2>2 DEF Regrouped
<1>2. ASSUME NEW s \in BodyCodes, NEW t \in BodyCodes, NEW u \in Seq(Int), NEW v \in Seq(Int),
             s \o u = t \o v
      PROVE  s = t
  <2>1. PICK x \in RingCodes, a \in Seq(RingCodes) : s = Listed(x, a)
    BY DEF BodyCodes
  <2>2. PICK y \in RingCodes, b \in Seq(RingCodes) : t = Listed(y, b)
    BY DEF BodyCodes
  <2>3. Meet(Listed(x, a), u, Listed(y, b), v)
    BY <1>2, <2>1, <2>2 DEF Meet
  <2>4. x = y /\ a = b
    <3> DEFINE D == RingCodes
    <3>1. /\ IsCode(D) /\ x \in D /\ y \in D /\ a \in Seq(D) /\ b \in Seq(D)
          /\ u \in Seq(Int) /\ v \in Seq(Int)
      BY RingCode
    <3> HIDE DEF D
    <3> QED BY <2>3, <3>1, ListedTells
  <2> QED BY <2>1, <2>2, <2>4
<1> QED BY <1>1, <1>2 DEF IsCode

(* The bytes of a ring that is not degenerate are of that code.            *)
LEMMA RingIsCode ==
  ASSUME NEW r \in Seq(Position), IsClosed(r), SqlCanonRing(r) # Degenerate
  PROVE  SqlCanonRing(r) \in RingCodes
<1> DEFINE t == Kept(r)
<1>1. r \in Seq(Int \X Int) /\ Len(r) >= 1
  BY PositionsArePairs DEF IsClosed
<1>2. t \in Seq(Fitting) /\ Len(t) >= 1
  BY <1>1, KeptFits
<1>3. SqlCanonRing(r) = Canonical(t)
  BY <1>1, SqlCanonRingIs
<1> HIDE DEF t
<1>4. \E x \in {t, Reverse(t)} : \E z \in Seq(Fitting) :
        Len(t) >= 3 /\ IsRotated(z, x) /\ Canonical(t) = RingBytes(z)
  BY <1>2, <1>3, TurnIsRotation
<1> QED BY <1>3, <1>4 DEF RingCodes

Holes(p) == [i \in 1 .. Len(p) - 1 |-> SqlCanonRing(p[i + 1])]

HasBody(p) ==
  /\ \A m \in 1 .. Len(p) : SqlCanonRing(p[m]) \in RingCodes
  /\ SortLex(Holes(p)) \in Seq(RingCodes)
  /\ Len(SortLex(Holes(p))) = Len(p) - 1
  /\ Body(p) = Listed(SqlCanonRing(p[1]), SortLex(Holes(p)))

(* The bytes of a polygon: count, exterior ring, holes in order.           *)
LEMMA BodyIs ==
  ASSUME NEW p, IsPart(p), Body(p) # Degenerate
  PROVE  HasBody(p)
<1> DEFINE rb == RingsBytes(p)
           P == Seq(Position)
<1>0. PICK n \in Nat : n = Len(p)
  BY DEF IsPart
<1>1. DOMAIN p = 1 .. n /\ n >= 1 /\ \A m \in 1 .. n : p[m] \in P /\ IsClosed(p[m])
  <2>1. p \in Seq(P) /\ p # <<>> /\ \A m \in DOMAIN p : IsClosed(p[m])
    BY DEF IsPart
  <2> HIDE DEF P
  <2>2. DOMAIN p = 1 .. n /\ n # 0
    BY <1>0, <2>1
  <2> QED BY <1>0, <2>1, <2>2, ElementOfSeq
<1>2. DOMAIN rb = 1 .. n /\ rb = [k \in 1 .. n |-> rb[k]]
      /\ \A m \in 1 .. n : rb[m] = SqlCanonRing(p[m])
  BY <1>1 DEF RingsBytes
<1>3. Body(p) = PolygonBody(rb)
  BY DEF Body
<1> HIDE DEF rb
<1>4. Tail(rb) = [i \in 1 .. n - 1 |-> rb[i + 1]]
  BY <1>1, <1>2, TailIs
<1>5. Tail(rb) = Holes(p)
  <2>1. \A i \in 1 .. n - 1 : rb[i + 1] = SqlCanonRing(p[i + 1])
    <3>1. \A i \in 1 .. n - 1 : i + 1 \in 1 .. n
      OBVIOUS
    <3> QED BY <1>2, <3>1
  <2> QED BY <1>0, <1>4, <2>1 DEF Holes
<1>6. /\ rb[1] # Degenerate
      /\ Degenerate \notin ToSet(Holes(p))
      /\ Body(p) = (<<Len(rb)>> \o rb[1]) \o FlattenSeq(SortLex(Holes(p)))
  BY <1>3, <1>5 DEF PolygonBody, Assemble
<1>7. Len(rb) = n
  BY <1>2
<1>8. \A m \in 1 .. n : SqlCanonRing(p[m]) # Degenerate
  <2> SUFFICES ASSUME NEW m \in 1 .. n PROVE SqlCanonRing(p[m]) # Degenerate
    OBVIOUS
  <2>1. CASE m = 1
    BY <1>2, <1>6, <2>1
  <2>2. CASE m # 1
    <3>1. m - 1 \in 1 .. n - 1 /\ (m - 1) + 1 = m
      BY <2>2
    <3>2. DOMAIN Holes(p) = 1 .. n - 1 /\ Holes(p)[m - 1] = SqlCanonRing(p[m])
      BY <1>0, <3>1 DEF Holes
    <3>3. Holes(p)[m - 1] \in ToSet(Holes(p))
      BY <3>1, <3>2 DEF ToSet
    <3> QED BY <1>6, <3>2, <3>3
  <2> QED BY <2>1, <2>2
<1>9. \A m \in 1 .. n : SqlCanonRing(p[m]) \in RingCodes
  BY <1>1, <1>8, RingIsCode
<1>10. SortLex(Holes(p)) \in Seq(RingCodes) /\ Len(SortLex(Holes(p))) = n - 1
  <2>1. n - 1 \in Nat /\ \A i \in 1 .. n - 1 : i + 1 \in 1 .. n
    BY <1>1
  <2>2. DOMAIN Holes(p) = 1 .. n - 1 /\ \A i \in 1 .. n - 1 : Holes(p)[i] \in RingCodes
    BY <1>0, <1>9, <2>1 DEF Holes
  <2>3. RingCodes \subseteq Seq(Int)
    BY RingCode DEF IsCode
  <2> QED BY <2>1, <2>2, <2>3, SortLexIsSeq
<1>11. Body(p) = Listed(SqlCanonRing(p[1]), SortLex(Holes(p)))
  <2>1. (n - 1) + 1 = n /\ 1 \in 1 .. n
    BY <1>1
  <2>2. Len(SortLex(Holes(p))) + 1 = n
    BY <1>10, <2>1
  <2> QED BY <1>2, <1>6, <1>7, <2>1, <2>2 DEF Listed
<1> QED BY <1>0, <1>9, <1>10, <1>11 DEF HasBody

LEMMA RingCodeIsNot ==
  ASSUME NEW x \in RingCodes
  PROVE  x # Degenerate
<1>1. PICK u \in Seq(Fitting) : x = RingBytes(u)
  BY DEF RingCodes
<1>2. Len(x) = 1 + 2 * Len(u) /\ Len(u) \in Nat
  BY <1>1, FittingAreCells, RingBytesIs
<1>3. Len(x) # 0
  <2>1. PICK n \in Nat : n = Len(u)
    BY <1>2
  <2>2. 1 + 2 * n # 0
    OBVIOUS
  <2> QED BY <1>2, <2>1, <2>2
<1> QED BY <1>3 DEF Degenerate

LEMMA Shifted ==
  ASSUME NEW n \in Nat, n >= 1, NEW f \in Bijection(1 .. n - 1, 1 .. n - 1)
  PROVE  [k \in 2 .. n |-> f[k - 1] + 1] \in Bijection(2 .. n, 2 .. n)
<1> DEFINE S == 1 .. n - 1
           T == 2 .. n
           g == [k \in T |-> f[k - 1] + 1]
<1>1. /\ f \in [S -> S]
      /\ \A i, j \in S : f[i] = f[j] => i = j
      /\ \A k \in S : \E i \in S : f[i] = k
  <2>1. f \in Bijection(S, S)
    OBVIOUS
  <2> HIDE DEF S
  <2> QED BY <2>1, BijectionIs
<1>2. \A k \in T : k - 1 \in S /\ (k - 1) + 1 = k
  OBVIOUS
<1>3. \A k \in S : k + 1 \in T /\ (k + 1) - 1 = k
  OBVIOUS
<1>4. \A k \in T : f[k - 1] \in S /\ g[k] = f[k - 1] + 1
  BY <1>1, <1>2
<1>5. g \in [T -> T]
  BY <1>3, <1>4
<1>6. ASSUME NEW i \in T, NEW j \in T, g[i] = g[j] PROVE i = j
  <2>1. PICK x \in S, y \in S : x = f[i - 1] /\ y = f[j - 1]
    BY <1>4
  <2>2. x + 1 = y + 1
    BY <1>4, <1>6, <2>1
  <2>3. x = y
    BY <2>2
  <2>4. i - 1 = j - 1
    BY <1>1, <1>2, <2>1, <2>3
  <2> QED BY <2>4
<1>7. ASSUME NEW k \in T PROVE \E i \in T : g[i] = k
  <2>1. PICK i \in S : f[i] = k - 1
    BY <1>1, <1>2
  <2>2. i + 1 \in T /\ (i + 1) - 1 = i
    BY <1>3
  <2>3. g[i + 1] = (k - 1) + 1
    BY <1>4, <2>1, <2>2
  <2> QED BY <1>2, <2>2, <2>3
<1> HIDE DEF g, S, T
<1>8. g \in Bijection(T, T)
  BY <1>5, <1>6, <1>7, BijectionIs
<1> QED BY <1>8 DEF g, T

AreRings(p, n) ==
  n >= 1 /\ \A m \in 1 .. n : p[m] \in Seq(Position) /\ IsClosed(p[m])

LEMMA PartRings ==
  ASSUME NEW p, IsPart(p)
  PROVE  Len(p) \in Nat /\ AreRings(p, Len(p))
<1> DEFINE P == Seq(Position)
<1>1. p \in Seq(P) /\ p # <<>> /\ \A m \in DOMAIN p : IsClosed(p[m])
  BY DEF IsPart
<1> HIDE DEF P
<1>2. Len(p) \in Nat /\ Len(p) # 0 /\ DOMAIN p = 1 .. Len(p)
  BY <1>1
<1>3. Len(p) >= 1
  BY <1>2
<1>4. \A m \in 1 .. Len(p) : p[m] \in P
  BY <1>1, ElementOfSeq
<1> QED BY <1>1, <1>2, <1>3, <1>4 DEF AreRings, P

(* The bytes of a polygon tell it from every other.                        *)
LEMMA PartTells ==
  ASSUME NEW p, NEW q, IsPart(p), IsPart(q), Body(p) = Body(q), Body(p) # Degenerate
  PROVE  SamePart(p, q)
<1> DEFINE x == SqlCanonRing(p[1])
           y == SqlCanonRing(q[1])
           a == SortLex(Holes(p))
           b == SortLex(Holes(q))
<1>1. HasBody(p) /\ HasBody(q)
  BY BodyIs
<1>2. PICK n \in Nat : n = Len(p) /\ AreRings(p, n)
  BY PartRings
<1>3. PICK m \in Nat : m = Len(q) /\ AreRings(q, m)
  BY PartRings
<1>4. /\ \A k \in 1 .. n : SqlCanonRing(p[k]) \in RingCodes
      /\ a \in Seq(RingCodes) /\ Len(a) = n - 1 /\ Body(p) = Listed(x, a)
  BY <1>1, <1>2 DEF HasBody
<1>5. /\ \A k \in 1 .. m : SqlCanonRing(q[k]) \in RingCodes
      /\ b \in Seq(RingCodes) /\ Len(b) = m - 1 /\ Body(q) = Listed(y, b)
  BY <1>1, <1>3 DEF HasBody
<1>6. 1 \in 1 .. n /\ 1 \in 1 .. m /\ n >= 1
  BY <1>2, <1>3 DEF AreRings
<1>7. x = y /\ a = b
  <2>1. x \in RingCodes /\ y \in RingCodes /\ <<>> \in Seq(Int)
    BY <1>4, <1>5, <1>6
  <2>2. Meet(Listed(x, a), <<>>, Listed(y, b), <<>>)
    BY <1>4, <1>5 DEF Meet
  <2> HIDE DEF x, y, a, b
  <2> DEFINE e == <<>>
  <2>3. e \in Seq(Int) /\ Meet(Listed(x, a), e, Listed(y, b), e)
    BY <2>1, <2>2
  <2> HIDE DEF e
  <2> QED BY <1>4, <1>5, <2>1, <2>3, RingCode, ListedTells
<1>8. n = m
  <2>1. n - 1 = m - 1
    BY <1>4, <1>5, <1>7
  <2> QED BY <2>1
<1>9. \A k, l \in 1 .. n : SqlCanonRing(p[k]) = SqlCanonRing(q[l]) => SameRing(p[k], q[l])
  BY <1>2, <1>3, <1>4, <1>8, RingCodeIsNot, RingTells DEF AreRings
<1>10. SameRing(p[1], q[1])
  BY <1>6, <1>7, <1>9
<1>11. AreMatched(Holes(p), Holes(q), 1 .. n - 1)
  <2>1. n - 1 \in Nat
    BY <1>6
  <2>2. DOMAIN Holes(p) = 1 .. n - 1 /\ DOMAIN Holes(q) = 1 .. n - 1
    BY <1>2, <1>3, <1>8 DEF Holes
  <2>3. \A i \in 1 .. n - 1 : i + 1 \in 1 .. n
    OBVIOUS
  <2>4. RingCodes \subseteq Seq(Int)
    BY RingCode DEF IsCode
  <2>5. \A i \in 1 .. n - 1 : Holes(p)[i] \in Seq(Int)
    BY <1>2, <1>4, <2>3, <2>4 DEF Holes
  <2>6. \A i \in 1 .. n - 1 : Holes(q)[i] \in Seq(Int)
    BY <1>3, <1>5, <1>8, <2>3, <2>4 DEF Holes
  <2>7. SortLex(Holes(p)) = SortLex(Holes(q))
    BY <1>7
  <2> QED BY ONLY <2>1, <2>2, <2>5, <2>6, <2>7, SortedMatch
<1>12. PICK f \in Bijection(1 .. n - 1, 1 .. n - 1) :
         \A k \in 1 .. n - 1 : Holes(p)[k] = Holes(q)[f[k]]
  BY <1>11 DEF AreMatched
<1> DEFINE g == [k \in 2 .. n |-> f[k - 1] + 1]
<1>13. g \in Bijection(2 .. n, 2 .. n)
  BY <1>6, Shifted
<1>14. ASSUME NEW k \in 2 .. n PROVE SameRing(p[k], q[g[k]])
  <2>1. k - 1 \in 1 .. n - 1 /\ (k - 1) + 1 = k /\ k \in 1 .. n
    OBVIOUS
  <2>2. PICK j \in 1 .. n - 1 : j = f[k - 1]
    <3> DEFINE S == 1 .. n - 1
    <3>1. f \in Bijection(S, S) /\ k - 1 \in S
      BY <2>1
    <3> HIDE DEF S
    <3>2. f[k - 1] \in S
      BY <3>1, BijectionIs
    <3> QED BY <3>2 DEF S
  <2>3. g[k] = j + 1 /\ j + 1 \in 1 .. n
    BY <2>2
  <2>4. Holes(p)[k - 1] = SqlCanonRing(p[k])
    BY <1>2, <2>1 DEF Holes
  <2>5. Holes(q)[j] = SqlCanonRing(q[j + 1])
    BY <1>3, <1>8 DEF Holes
  <2>6. SqlCanonRing(p[k]) = SqlCanonRing(q[g[k]])
    BY <1>12, <2>1, <2>2, <2>3, <2>4, <2>5
  <2> QED BY <1>9, <2>1, <2>3, <2>6
<1> HIDE DEF g
<1>15. Matched(2 .. Len(p), LAMBDA k, l : SameRing(p[k], q[l]))
  BY <1>2, <1>13, <1>14 DEF Matched
<1> QED BY <1>2, <1>3, <1>8, <1>10, <1>15 DEF SamePart

(***************************************************************************)
(* The bytes of a geometry tell its shape                                  *)
(***************************************************************************)

LEMMA HeadTells ==
  ASSUME NEW a \in Seq(Int), NEW x \in Seq(Int), NEW b \in Seq(Int), NEW y \in Seq(Int),
         a \o x = b \o y, Len(a) = Len(b)
  PROVE  a = b /\ x = y
<1>1. IsJoin(a \o x, Int, a, x) /\ IsJoin(b \o y, Int, b, y)
  BY ConcatIs
<1>2. \A j \in 1 .. Len(a) : a[j] = b[j]
  BY <1>1 DEF IsJoin
<1>3. a = b
  BY <1>2, SeqEqual
<1>4. x = y
  BY <1>3, Cancel
<1> QED BY <1>3, <1>4

Cellular(s) == [i \in 1 .. Len(s) |-> Quantize(s[i])]

LEMMA PointsAre ==
  ASSUME NEW s \in Seq(Position)
  PROVE  /\ DOMAIN Cellular(s) = 1 .. Len(s)
         /\ \A i \in 1 .. Len(s) : Cellular(s)[i] \in Seq(Int)
         /\ SqlPoints(s) = SortLex(Cellular(s))
         /\ SqlPoints(s) \in Seq(Fitting)
         /\ Len(SqlPoints(s)) = Len(s)
<1>1. PICK n \in Nat : n = Len(s)
  OBVIOUS
<1>2. DOMAIN s = 1 .. n /\ \A i \in 1 .. n : s[i] \in Position
  BY <1>1, ElementOfSeq
<1>3. \A i \in 1 .. n : SqlQuantize(s[i]) = Quantize(s[i])
  BY DEF SqlQuantize, Quantize
<1>4. DOMAIN Cellular(s) = 1 .. n /\ \A i \in 1 .. n : Cellular(s)[i] \in Fitting
  BY <1>1, <1>2, CellFits DEF Cellular
<1>5. Fitting \subseteq Seq(Int)
  BY PairIsSeq DEF Fitting
<1>6. [i \in DOMAIN s |-> SqlQuantize(s[i])] = Cellular(s)
  BY <1>1, <1>2, <1>3 DEF Cellular
<1>7. SqlPoints(s) = SortLex(Cellular(s))
  BY <1>6 DEF SqlPoints
<1>8. SortLex(Cellular(s)) \in Seq(Fitting) /\ Len(SortLex(Cellular(s))) = n
  BY <1>4, <1>5, SortLexIsSeq
<1>9. \A i \in 1 .. n : Cellular(s)[i] \in Seq(Int)
  BY <1>4, <1>5
<1> QED BY <1>1, <1>4, <1>7, <1>8, <1>9

PointsBytes(s) == <<2, 2, Len(SqlPoints(s))>> \o Words(SqlPoints(s))

(* The bytes of a MultiPoint tell its cells, repeated ones included.       *)
LEMMA PointsTell ==
  ASSUME NEW s \in Seq(Position), NEW t \in Seq(Position), PointsBytes(s) = PointsBytes(t)
  PROVE  SamePoints(s, t)
<1>1. PICK n \in Nat : n = Len(s)
  OBVIOUS
<1>2. PICK m \in Nat : m = Len(t)
  OBVIOUS
<1> DEFINE u == SqlPoints(s)
           v == SqlPoints(t)
<1>3. /\ DOMAIN Cellular(s) = 1 .. n /\ \A i \in 1 .. n : Cellular(s)[i] \in Seq(Int)
      /\ u = SortLex(Cellular(s)) /\ u \in Seq(Fitting) /\ Len(u) = n
  BY <1>1, PointsAre
<1>4. /\ DOMAIN Cellular(t) = 1 .. m /\ \A i \in 1 .. m : Cellular(t)[i] \in Seq(Int)
      /\ v = SortLex(Cellular(t)) /\ v \in Seq(Fitting) /\ Len(v) = m
  BY <1>2, PointsAre
<1> HIDE DEF u, v
<1>5. Words(u) \in Seq(Int) /\ Words(v) \in Seq(Int)
  BY <1>3, <1>4, FittingAreCells, WordsProperties
<1> DEFINE a == <<2, 2, n>>
           b == <<2, 2, m>>
<1>6. a \in Seq(Int) /\ b \in Seq(Int) /\ Len(a) = 3 /\ Len(b) = 3 /\ a[3] = n /\ b[3] = m
  OBVIOUS
<1>7. a \o Words(u) = b \o Words(v)
  BY <1>3, <1>4 DEF PointsBytes, u, v
<1> HIDE DEF a, b
<1>8. a = b /\ Words(u) = Words(v)
  BY <1>5, <1>6, <1>7, HeadTells
<1>9. n = m
  BY <1>6, <1>8
<1>10. u = v
  BY <1>3, <1>4, <1>8, <1>9, WordsInjective
<1>11. AreMatched(Cellular(s), Cellular(t), 1 .. n)
  <2>1. SortLex(Cellular(s)) = SortLex(Cellular(t))
    BY <1>3, <1>4, <1>10
  <2>2. DOMAIN Cellular(s) = 1 .. n /\ DOMAIN Cellular(t) = 1 .. n
    BY <1>3, <1>4, <1>9
  <2>3. \A i \in 1 .. n : Cellular(s)[i] \in Seq(Int)
    BY <1>3
  <2>4. \A i \in 1 .. n : Cellular(t)[i] \in Seq(Int)
    BY <1>4, <1>9
  <2> QED BY <2>1, <2>2, <2>3, <2>4, SortedMatch
<1>12. PICK f \in Bijection(1 .. n, 1 .. n) :
         \A k \in 1 .. n : Cellular(s)[k] = Cellular(t)[f[k]]
  BY <1>11 DEF AreMatched
<1>13. \A k \in 1 .. n : f[k] \in 1 .. n
  BY BijectionIs
<1>14. \A k \in 1 .. n : Quantize(s[k]) = Quantize(t[f[k]])
  BY <1>1, <1>2, <1>9, <1>12, <1>13 DEF Cellular
<1>15. DOMAIN s = 1 .. n /\ Len(s) = Len(t)
  <2>1. DOMAIN s = 1 .. n
    BY <1>1
  <2>2. Len(s) = Len(t)
    BY <1>1, <1>2, <1>9
  <2> QED BY <2>1, <2>2
<1>16. Matched(DOMAIN s, LAMBDA k, l : Quantize(s[k]) = Quantize(t[l]))
  BY <1>14, <1>15 DEF Matched
<1> QED BY <1>15, <1>16 DEF SamePoints

LEMMA PartsAre ==
  ASSUME NEW s, AreParts(s), Degenerate \notin ToSet(Bodies(s))
  PROVE  /\ Len(s) \in Nat
         /\ DOMAIN s = 1 .. Len(s)
         /\ \A k \in 1 .. Len(s) : IsPart(s[k]) /\ Body(s[k]) # Degenerate
         /\ DOMAIN Bodies(s) = 1 .. Len(s)
         /\ \A k \in 1 .. Len(s) : Bodies(s)[k] = Body(s[k]) /\ Bodies(s)[k] \in BodyCodes
         /\ Len(Bodies(s)) = Len(s)
         /\ SortLex(Bodies(s)) \in Seq(BodyCodes)
         /\ Len(SortLex(Bodies(s))) = Len(s)
<1> DEFINE P == Seq(Seq(Position))
<1>1. s \in Seq(P) /\ \A k \in DOMAIN s : IsPart(s[k])
  BY DEF AreParts
<1> HIDE DEF P
<1>2. PICK n \in Nat : n = Len(s)
  BY <1>1
<1>3. DOMAIN s = 1 .. n
  BY <1>1, <1>2
<1>4. DOMAIN Bodies(s) = 1 .. n /\ \A k \in 1 .. n : Bodies(s)[k] = Body(s[k])
  BY <1>3 DEF Bodies
<1>5. \A k \in 1 .. n : Body(s[k]) # Degenerate
  BY <1>4 DEF ToSet
<1>6. \A k \in 1 .. n : Bodies(s)[k] \in BodyCodes
  <2> SUFFICES ASSUME NEW k \in 1 .. n PROVE Body(s[k]) \in BodyCodes
    BY <1>4
  <2>1. PICK p : p = s[k]
    OBVIOUS
  <2>2. HasBody(p) /\ IsPart(p)
    BY <1>1, <1>3, <1>5, <2>1, BodyIs
  <2>3. 1 \in 1 .. Len(p)
    BY <2>2, PartRings DEF AreRings
  <2>4. Body(p) = Listed(SqlCanonRing(p[1]), SortLex(Holes(p))) /\ SqlCanonRing(p[1]) \in RingCodes
        /\ SortLex(Holes(p)) \in Seq(RingCodes)
    BY <2>2, <2>3 DEF HasBody
  <2> QED BY <2>1, <2>4 DEF BodyCodes
<1>7. BodyCodes \subseteq Seq(Int)
  BY BodyCode DEF IsCode
<1>8. SortLex(Bodies(s)) \in Seq(BodyCodes) /\ Len(SortLex(Bodies(s))) = n
  BY <1>4, <1>6, <1>7, SortLexIsSeq
<1>9. Len(Bodies(s)) = n
  BY <1>4
<1> QED BY <1>1, <1>2, <1>3, <1>4, <1>5, <1>6, <1>8, <1>9

SameParts(s, t) == Matched(DOMAIN s, LAMBDA k, l : SamePart(s[k], t[l]))

(* The bytes of all polygons together tell them.                           *)
LEMMA PartsTell ==
  ASSUME NEW s, NEW t, AreParts(s), AreParts(t), Len(s) = Len(t),
         Degenerate \notin ToSet(Bodies(s)), Degenerate \notin ToSet(Bodies(t)),
         FlattenSeq(SortLex(Bodies(s))) = FlattenSeq(SortLex(Bodies(t)))
  PROVE  SameParts(s, t)
<1> DEFINE a == SortLex(Bodies(s))
           b == SortLex(Bodies(t))
<1>1. PICK n \in Nat : n = Len(s) /\ n = Len(t)
  BY PartsAre
<1>2. /\ DOMAIN s = 1 .. n
      /\ \A k \in 1 .. n : IsPart(s[k]) /\ Body(s[k]) # Degenerate
      /\ DOMAIN Bodies(s) = 1 .. n
      /\ \A k \in 1 .. n : Bodies(s)[k] = Body(s[k]) /\ Bodies(s)[k] \in BodyCodes
      /\ a \in Seq(BodyCodes) /\ Len(a) = n
  BY <1>1, PartsAre
<1>3. /\ \A k \in 1 .. n : IsPart(t[k])
      /\ DOMAIN Bodies(t) = 1 .. n
      /\ \A k \in 1 .. n : Bodies(t)[k] = Body(t[k]) /\ Bodies(t)[k] \in BodyCodes
      /\ b \in Seq(BodyCodes) /\ Len(b) = n
  BY <1>1, PartsAre
<1>4. a = b
  <2> DEFINE e == <<>>
  <2>1. e \in Seq(Int) /\ Meet(FlattenSeq(a), e, FlattenSeq(b), e)
    BY DEF Meet
  <2> HIDE DEF a, b, e
  <2> QED BY <1>2, <1>3, <2>1, BodyCode, JoinsTell
<1>5. AreMatched(Bodies(s), Bodies(t), 1 .. n)
  <2>1. BodyCodes \subseteq Seq(Int)
    BY BodyCode DEF IsCode
  <2>2. DOMAIN Bodies(s) = 1 .. n /\ DOMAIN Bodies(t) = 1 .. n
    BY <1>2, <1>3
  <2>3. \A i \in 1 .. n : Bodies(s)[i] \in Seq(Int)
    BY <1>2, <2>1
  <2>4. \A i \in 1 .. n : Bodies(t)[i] \in Seq(Int)
    BY <1>3, <2>1
  <2>5. SortLex(Bodies(s)) = SortLex(Bodies(t))
    BY <1>4
  <2> QED BY ONLY n \in Nat, <2>2, <2>3, <2>4, <2>5, SortedMatch
<1>6. PICK f \in Bijection(1 .. n, 1 .. n) : \A k \in 1 .. n : Bodies(s)[k] = Bodies(t)[f[k]]
  BY <1>5 DEF AreMatched
<1>7. \A k \in 1 .. n : f[k] \in 1 .. n
  BY BijectionIs
<1>8. \A k \in 1 .. n : SamePart(s[k], t[f[k]])
  BY <1>2, <1>3, <1>6, <1>7, PartTells
<1> QED BY <1>2, <1>8 DEF SameParts, Matched

LEMMA PointsOf ==
  ASSUME NEW g, IsListing(g), g.type = "MultiPoint"
  PROVE  Points(g) \in Seq(Position) /\ SqlCanonicalBytes(g) = PointsBytes(Points(g))
<1>1. g.parts \in Seq(Seq(Seq(Position))) /\ g.parts # <<>>
      /\ \A k \in DOMAIN g.parts : g.parts[k] # <<>>
  BY DEF IsListing
<1>2. 1 \in DOMAIN g.parts /\ g.parts[1] \in Seq(Seq(Position))
  BY <1>1
<1>3. g.parts[1] # <<>>
  BY <1>1, <1>2
<1>4. Points(g) \in Seq(Position)
  BY <1>2, <1>3 DEF Points
<1>5. SqlCanonicalBytes(g) = PointsBytes(Points(g))
  BY SqlBytesOfPoints DEF PointsBytes
<1> QED BY <1>4, <1>5

PartsHead(g) == IF g.type = "Polygon" THEN <<2, 3>> ELSE <<2, 4, Len(g.parts)>>

HasBytes(g) ==
  /\ AreParts(g.parts)
  /\ Len(g.parts) \in Nat
  /\ Degenerate \notin ToSet(Bodies(g.parts))
  /\ FlattenSeq(SortLex(Bodies(g.parts))) \in Seq(Int)
  /\ SqlCanonicalBytes(g) = PartsHead(g) \o FlattenSeq(SortLex(Bodies(g.parts)))

LEMMA PartsOf ==
  ASSUME NEW g, IsListing(g), g.type # "MultiPoint", SqlCanonicalBytes(g) # Degenerate
  PROVE  HasBytes(g)
<1>1. g.type \in Types
  BY DEF IsListing
<1>2. AreParts(g.parts)
  BY ListingOfParts
<1> DEFINE s == g.parts
           head == IF g.type = "Polygon" THEN <<2, 3>> ELSE <<2, 4, Len(Bodies(s))>>
<1>3. SqlCanonicalBytes(g) = Assemble(head, Bodies(s))
  BY <1>1, SqlBytesOfParts
<1> HIDE DEF head, s
<1>4. /\ Degenerate \notin ToSet(Bodies(s))
      /\ SqlCanonicalBytes(g) = head \o FlattenSeq(SortLex(Bodies(s)))
  BY <1>3 DEF Assemble
<1>5. Len(s) \in Nat /\ Len(Bodies(s)) = Len(s) /\ SortLex(Bodies(s)) \in Seq(BodyCodes)
  BY <1>2, <1>4, PartsAre DEF s
<1>6. head = PartsHead(g)
  BY <1>5 DEF head, PartsHead, s
<1>7. FlattenSeq(SortLex(Bodies(s))) \in Seq(Int)
  BY <1>5, BodyCode, JoinIsSeq
<1> QED BY <1>2, <1>4, <1>5, <1>6, <1>7 DEF HasBytes, s

Tag(g) == IF g.type = "MultiPoint" THEN 2 ELSE IF g.type = "Polygon" THEN 3 ELSE 4

(* The second byte is the type.                                            *)
LEMMA TagTells ==
  ASSUME NEW g, IsListing(g), SqlCanonicalBytes(g) # Degenerate
  PROVE  SqlCanonicalBytes(g)[2] = Tag(g)
<1>1. CASE g.type = "MultiPoint"
  <2> DEFINE s == Points(g)
             a == <<2, 2, Len(SqlPoints(s))>>
             x == Words(SqlPoints(s))
  <2>1. s \in Seq(Position) /\ SqlCanonicalBytes(g) = a \o x
    BY <1>1, PointsOf DEF PointsBytes
  <2>2. SqlPoints(s) \in Seq(Cells)
    BY <2>1, PointsAre, FittingAreCells
  <2>3. x \in Seq(Int)
    BY <2>2, WordsProperties
  <2>4. a \in Seq(Int) /\ Len(a) = 3 /\ a[2] = 2
    BY <2>2
  <2> HIDE DEF a, x
  <2>5. IsJoin(a \o x, Int, a, x)
    BY <2>3, <2>4, ConcatIs
  <2>6. 2 \in 1 .. Len(a)
    BY <2>4
  <2> QED BY <1>1, <2>1, <2>4, <2>5, <2>6 DEF IsJoin, Tag
<1>2. CASE g.type # "MultiPoint"
  <2> DEFINE a == PartsHead(g)
             x == FlattenSeq(SortLex(Bodies(g.parts)))
  <2>1. x \in Seq(Int) /\ SqlCanonicalBytes(g) = a \o x /\ Len(g.parts) \in Nat
    BY <1>2, PartsOf DEF HasBytes
  <2>2. a \in Seq(Int) /\ Len(a) >= 2 /\ a[2] = Tag(g)
    <3>1. CASE g.type = "Polygon"
      BY <3>1 DEF PartsHead, Tag
    <3>2. CASE g.type # "Polygon"
      BY <1>2, <2>1, <3>2 DEF PartsHead, Tag
    <3> QED BY <3>1, <3>2
  <2> HIDE DEF a, x
  <2>3. IsJoin(a \o x, Int, a, x)
    BY <2>1, <2>2, ConcatIs
  <2>4. 2 \in 1 .. Len(a)
    BY <2>2
  <2> QED BY <2>1, <2>2, <2>3, <2>4 DEF IsJoin
<1> QED BY <1>1, <1>2

(* Listings with the same bytes are of the same shape.                     *)
LEMMA ShapeTells ==
  ASSUME NEW g, NEW h, IsListing(g), IsListing(h),
         SqlCanonicalBytes(g) = SqlCanonicalBytes(h), SqlCanonicalBytes(g) # Degenerate
  PROVE  SameShape(g, h)
<1>1. g.type \in Types /\ h.type \in Types
  BY DEF IsListing
<1>2. Tag(g) = Tag(h)
  BY TagTells
<1>3. g.type = h.type
  BY <1>1, <1>2 DEF Types, Tag
<1>4. CASE g.type = "MultiPoint"
  <2>1. /\ Points(g) \in Seq(Position) /\ SqlCanonicalBytes(g) = PointsBytes(Points(g))
        /\ Points(h) \in Seq(Position) /\ SqlCanonicalBytes(h) = PointsBytes(Points(h))
    BY <1>3, <1>4, PointsOf
  <2>2. SamePoints(Points(g), Points(h))
    BY <2>1, PointsTell
  <2> QED BY <1>3, <1>4, <2>2 DEF SameShape
<1>5. CASE g.type # "MultiPoint"
  <2>1. HasBytes(g) /\ HasBytes(h)
    BY <1>3, <1>5, PartsOf
  <2> DEFINE s == g.parts
             t == h.parts
             a == PartsHead(g)
             b == PartsHead(h)
             x == FlattenSeq(SortLex(Bodies(s)))
             y == FlattenSeq(SortLex(Bodies(t)))
  <2>2. /\ AreParts(s) /\ Len(s) \in Nat /\ Degenerate \notin ToSet(Bodies(s))
        /\ x \in Seq(Int) /\ SqlCanonicalBytes(g) = a \o x
    BY <2>1 DEF HasBytes
  <2>3. /\ AreParts(t) /\ Len(t) \in Nat /\ Degenerate \notin ToSet(Bodies(t))
        /\ y \in Seq(Int) /\ SqlCanonicalBytes(h) = b \o y
    BY <2>1 DEF HasBytes
  <2>4. Len(s) = Len(t) /\ x = y
    <3>1. CASE g.type = "Polygon"
      <4>1. a = <<2, 3>> /\ b = <<2, 3>>
        BY <1>3, <3>1 DEF PartsHead
      <4>2. a \in Seq(Int) /\ b \in Seq(Int) /\ Len(a) = Len(b)
        BY <4>1
      <4>3. a \o x = b \o y
        BY <2>2, <2>3
      <4> HIDE DEF a, b, x, y
      <4>4. x = y
        BY <2>2, <2>3, <4>2, <4>3, HeadTells
      <4>5. Len(s) = 1 /\ Len(t) = 1
        BY <1>3, <3>1 DEF IsListing
      <4> QED BY <4>4, <4>5
    <3>2. CASE g.type # "Polygon"
      <4>1. a = <<2, 4, Len(s)>> /\ b = <<2, 4, Len(t)>>
        BY <1>3, <3>2 DEF PartsHead
      <4>2. a \in Seq(Int) /\ b \in Seq(Int) /\ Len(a) = 3 /\ Len(b) = 3 /\ a[3] = Len(s)
            /\ b[3] = Len(t)
        BY <2>2, <2>3, <4>1
      <4>3. a \o x = b \o y
        BY <2>2, <2>3
      <4> HIDE DEF a, b, x, y
      <4>4. a = b /\ x = y
        BY <2>2, <2>3, <4>2, <4>3, HeadTells
      <4> QED BY <4>2, <4>4
    <3> QED BY <3>1, <3>2
  <2> HIDE DEF s, t
  <2>5. SameParts(s, t)
    BY <2>2, <2>3, <2>4, PartsTell
  <2> QED BY <1>3, <1>5, <2>4, <2>5 DEF SameShape, SameParts, s, t
<1> QED BY <1>4, <1>5

(* Nothing is merged silently: a geometry of the same bytes as the one     *)
(* that is listed is of the same shape on the lattice.                     *)
THEOREM DistinctShapesStayApart == Spec => []DistinctShapesApart
<1>1. IInv => DistinctShapesApart
  <2> SUFFICES ASSUME IInv, SqlCanonicalBytes(listed) # Degenerate, NEW g \in Listings,
                      BytesOf[g] = SqlCanonicalBytes(listed)
               PROVE  SameShape(g, listed)
    BY DEF DistinctShapesApart
  <2>1. IsListing(g) /\ IsListing(listed)
    BY ListingAssumption DEF IInv
  <2>2. SqlCanonicalBytes(g) = SqlCanonicalBytes(listed)
    BY DEF BytesOf
  <2> QED BY <2>1, <2>2, ShapeTells
<1> QED BY <1>1, InitIInv, StepIInv, PTL DEF Spec

(***************************************************************************)
(* Listings of the same shape have the same bytes                          *)
(***************************************************************************)

(* A ring that stays in one cell goes through none.                        *)
LEMMA FlatCycle ==
  ASSUME NEW r \in Seq(Int \X Int), IsClosed(r), IsFlat(Lattice(r))
  PROVE  Cycle(r) = <<>>
<1> DEFINE q == Lattice(r)
           o == Open(r)
           k == <<q[1]>>
<1>1. PICK n \in Nat : n + 1 = Len(r)
  <2>1. PICK N \in Nat : N = Len(r) /\ N > 1
    BY DEF IsClosed
  <2>2. N - 1 \in Nat /\ (N - 1) + 1 = N
    BY <2>1
  <2> QED BY <2>1, <2>2
<1>2. /\ n >= 1
      /\ Len(o) = n
      /\ Len(q) = n + 1
      /\ \A i \in 1 .. n : o[i] = q[i]
  BY <1>1, OpenIsLattice
<1>3. q \in Seq(Cells)
  BY LatticeProperties
<1> HIDE DEF q, o
<1>4. 1 \in 1 .. n /\ n \in 1 .. n /\ \A i \in 1 .. n : i \in 1 .. n + 1
  BY <1>2
<1>5. \A i \in 1 .. n : o[i] = q[1]
  BY <1>2, <1>4 DEF IsFlat, q
<1>6. k \in Seq(Cells) /\ Len(k) = 1 /\ k[1] = q[1]
  <2>1. q[1] \in Cells
    BY <1>2, <1>3, <1>4, ElementOfSeq
  <2> QED BY <2>1
<1> HIDE DEF k
<1> DEFINE f == [i \in 1 .. n |-> 1]
<1>7. IsWay(f, o, k, n, 2)
  <2>1. f \in [1 .. n -> 1 .. Len(k)] /\ \A i \in 1 .. n : f[i] = 1
    BY <1>6
  <2>2. o[1] = o[n]
    BY <1>4, <1>5
  <2>3. \A i \in 1 .. n - 1 : i \in 1 .. n /\ i + 1 \in 1 .. n
    OBVIOUS
  <2>4. \A j \in 1 .. Len(k) - 1 : k[j] # k[j + 1]
    BY <1>6
  <2> HIDE DEF f
  <2> QED BY <1>2, <1>4, <1>5, <1>6, <2>1, <2>2, <2>3, <2>4 DEF IsWay
<1>8. f[n] = 1
  BY <1>4
<1> HIDE DEF f
<1>9. Cycle(r) = SubSeq(k, 2, f[n])
  BY <1>2, <1>6, <1>7, CycleIs DEF o
<1>10. SubSeq(k, 2, 1) = <<>>
  BY SubSeqEmpty
<1> QED BY <1>8, <1>9, <1>10

(* Rings of the same shape have the same bytes, or none.                   *)
LEMMA SameRingSameBytes ==
  ASSUME NEW r \in Seq(Position), NEW s \in Seq(Position), IsClosed(r), IsClosed(s),
         SameRing(r, s)
  PROVE  SqlCanonRing(r) = SqlCanonRing(s)
<1> DEFINE t == Kept(r)
           u == Kept(s)
           c == Cycle(r)
           d == Cycle(s)
<1>1. /\ r \in Seq(Int \X Int) /\ s \in Seq(Int \X Int)
      /\ Len(r) >= 1 /\ Len(s) >= 1
  BY PositionsArePairs DEF IsClosed
<1>2. t \in Seq(Cells) /\ u \in Seq(Cells) /\ Len(t) >= 1 /\ Len(u) >= 1
  BY <1>1, KeptIsSeq
<1>3. \/ c = d
      \/ Len(c) = Len(d) /\ \E i \in DOMAIN c : RotateTo(c, i) \in {d, Reverse(d)}
  BY DEF SameRing
<1>4. IsFlat(Lattice(r)) => c = <<>> /\ Len(t) = 1
  BY <1>1, FlatCycle, FlatKept
<1>5. IsFlat(Lattice(s)) => d = <<>> /\ Len(u) = 1
  BY <1>1, FlatCycle, FlatKept
<1>6. ~IsFlat(Lattice(r)) => IsRotated(c, t)
  BY <1>1, CycleIsKept
<1>7. ~IsFlat(Lattice(s)) => IsRotated(d, u)
  BY <1>1, CycleIsKept
<1> HIDE DEF t, u, c, d
<1>8. IsRotated(c, t) => c \in Seq(Cells) /\ Len(c) = Len(t) /\ c # <<>>
  BY <1>2, RotatedIs
<1>9. IsRotated(d, u) => d \in Seq(Cells) /\ Len(d) = Len(u) /\ d # <<>>
  BY <1>2, RotatedIs
<1>10. \/ Len(t) = 1 /\ Len(u) = 1
       \/ IsRotated(u, t)
       \/ IsRotated(u, Reverse(t))
  <2>1. CASE c = <<>> \/ d = <<>>
    <3>1. c = <<>> /\ d = <<>>
      <4>1. CASE c = d
        BY <2>1, <4>1
      <4>2. CASE c # d
        <5>1. Len(c) = Len(d) /\ c # <<>>
          BY <1>3, <4>2
        <5>2. IsRotated(c, t) /\ d = <<>>
          BY <1>4, <1>6, <2>1, <5>1
        <5>3. Len(c) >= 1 /\ Len(d) = 0
          BY <1>2, <1>8, <5>2
        <5> QED BY <5>1, <5>3
      <4> QED BY <4>1, <4>2
    <3> QED BY <1>4, <1>5, <1>6, <1>7, <1>8, <1>9, <3>1
  <2>2. CASE c # <<>> /\ d # <<>>
    <3>1. IsRotated(c, t) /\ IsRotated(d, u)
      BY <1>4, <1>5, <1>6, <1>7, <2>2
    <3>2. c \in Seq(Cells) /\ d \in Seq(Cells)
      BY <1>8, <1>9, <3>1
    <3>3. IsRotated(u, d) /\ IsRotated(t, c)
      BY <1>2, <3>1, RotatedBack
    <3>4. CASE c = d
      <4>1. IsRotated(u, c)
        BY <3>3, <3>4
      <4> QED BY <1>2, <3>1, <4>1, RotatedAgain
    <3>5. CASE c # d
      <4>1. PICK i \in DOMAIN c : RotateTo(c, i) = d \/ RotateTo(c, i) = Reverse(d)
        BY <1>3, <3>5
      <4>2. i \in 1 .. Len(c)
        BY <3>2, <4>1
      <4>3. CASE RotateTo(c, i) = d
        <5>1. IsRotated(d, c)
          BY <4>2, <4>3 DEF IsRotated
        <5>2. IsRotated(u, c)
          BY <3>2, <3>3, <5>1, RotatedAgain
        <5> QED BY <1>2, <3>1, <5>2, RotatedAgain
      <4>4. CASE RotateTo(c, i) = Reverse(d)
        <5>1. IsRotated(Reverse(d), c)
          BY <4>2, <4>4 DEF IsRotated
        <5>2. IsRotated(Reverse(u), Reverse(d))
          BY <3>2, <3>3, RotatedReversed
        <5>3. IsRotated(Reverse(u), c)
          BY <3>2, <5>1, <5>2, RotatedAgain
        <5>4. IsRotated(Reverse(u), t)
          BY <1>2, <3>1, <5>3, RotatedAgain
        <5>5. IsRotated(Reverse(Reverse(u)), Reverse(t))
          BY <1>2, <5>4, RotatedReversed
        <5>6. Reverse(Reverse(u)) = u
          BY <1>2, ReversedTwice
        <5> QED BY <5>5, <5>6
      <4> QED BY <4>1, <4>3, <4>4
    <3> QED BY <3>4, <3>5
  <2> QED BY <2>1, <2>2
<1>11. SqlCanonRing(s) = SqlCanonRing(r)
  BY <1>1, <1>10, SameKept DEF t, u
<1> QED BY <1>11

(* So have polygons.                                                       *)
LEMMA SamePartSameBytes ==
  ASSUME NEW p, NEW q, IsPart(p), IsPart(q), SamePart(p, q)
  PROVE  Body(p) = Body(q)
<1>1. PICK n \in Nat : n = Len(p) /\ n = Len(q) /\ AreRings(p, n) /\ AreRings(q, n)
  BY PartRings DEF SamePart
<1>2. DOMAIN p = 1 .. n /\ DOMAIN q = 1 .. n /\ n >= 1
  <2> DEFINE P == Seq(Position)
  <2>1. p \in Seq(P) /\ q \in Seq(P)
    BY DEF IsPart
  <2> HIDE DEF P
  <2>2. DOMAIN p = 1 .. n
    <3>1. DOMAIN p = 1 .. Len(p)
      BY <2>1
    <3> QED BY <1>1, <3>1
  <2>3. DOMAIN q = 1 .. n
    <3>1. DOMAIN q = 1 .. Len(q)
      BY <2>1
    <3> QED BY <1>1, <3>1
  <2>4. n >= 1
    BY <1>1 DEF AreRings
  <2> QED BY <2>2, <2>3, <2>4
<1>3. PICK f \in Bijection(2 .. n, 2 .. n) : \A k \in 2 .. n : SameRing(p[k], q[f[k]])
  BY <1>1 DEF SamePart, Matched
<1>4. SameRing(p[1], q[1])
  BY DEF SamePart
<1> DEFINE S == 1 .. n
           T == 2 .. n
           g == [k \in S |-> IF k = 1 THEN 1 ELSE f[k]]
<1>5. /\ f \in [T -> T]
      /\ \A i, j \in T : f[i] = f[j] => i = j
      /\ \A k \in T : \E i \in T : f[i] = k
  <2>1. f \in Bijection(T, T)
    OBVIOUS
  <2> HIDE DEF T
  <2> QED BY <2>1, BijectionIs
<1>6. 1 \in S /\ 1 \notin T /\ \A k : k \in S <=> k = 1 \/ k \in T
  BY <1>2
<1> HIDE DEF S, T
<1>7. g \in [S -> S] /\ g[1] = 1 /\ \A k \in T : g[k] = f[k]
  BY <1>5, <1>6
<1> HIDE DEF g
<1>8. \A i, j \in S : g[i] = g[j] => i = j
  BY <1>5, <1>6, <1>7
<1>9. \A k \in S : \E i \in S : g[i] = k
  BY <1>5, <1>6, <1>7
<1>10. g \in Bijection(S, S)
  BY <1>7, <1>8, <1>9, BijectionIs
<1>11. \A k \in S : SqlCanonRing(p[k]) = SqlCanonRing(q[g[k]])
  <2> SUFFICES ASSUME NEW k \in S PROVE SqlCanonRing(p[k]) = SqlCanonRing(q[g[k]])
    OBVIOUS
  <2>1. g[k] \in S /\ SameRing(p[k], q[g[k]])
    <3>1. CASE k = 1
      BY <1>4, <1>6, <1>7, <3>1
    <3>2. CASE k \in T
      BY <1>3, <1>7, <3>2 DEF T
    <3> QED BY <1>6, <3>1, <3>2
  <2> QED BY <1>1, <2>1, SameRingSameBytes DEF AreRings, S
<1> DEFINE a == RingsBytes(q)
           b == RingsBytes(p)
<1>12. DOMAIN a = S /\ a = [k \in S |-> a[k]] /\ \A k \in S : a[k] = SqlCanonRing(q[k])
  BY <1>2 DEF RingsBytes, S
<1>13. b = [k \in S |-> SqlCanonRing(p[k])]
  BY <1>2 DEF RingsBytes, S
<1> HIDE DEF a, b
<1>14. \A k \in S : a[g[k]] = SqlCanonRing(p[k])
  BY <1>7, <1>11, <1>12
<1>15. b = [k \in S |-> a[g[k]]]
  BY <1>13, <1>14
<1>16. PolygonBody([k \in 1 .. n |-> a[g[k]]]) = PolygonBody(a)
  <2>1. g \in Bijection(1 .. n, 1 .. n) /\ g[1] = 1 /\ DOMAIN a = 1 .. n
        /\ a = [k \in 1 .. n |-> a[k]]
    BY <1>7, <1>10, <1>12 DEF S
  <2> QED BY ONLY <1>2, <2>1, n \in Nat, HolesPermuted
<1> QED BY <1>15, <1>16 DEF Body, a, b, S

(* And geometries.                                                         *)
LEMMA SameShapeSameBytes ==
  ASSUME NEW g, NEW h, IsListing(g), IsListing(h), SameShape(g, h)
  PROVE  SqlCanonicalBytes(g) = SqlCanonicalBytes(h)
<1>1. g.type = h.type /\ g.type \in Types
  BY DEF SameShape, IsListing
<1>2. CASE g.type = "MultiPoint"
  <2> DEFINE s == Points(g)
             t == Points(h)
  <2>1. /\ s \in Seq(Position) /\ SqlCanonicalBytes(g) = PointsBytes(s)
        /\ t \in Seq(Position) /\ SqlCanonicalBytes(h) = PointsBytes(t)
    BY <1>1, <1>2, PointsOf
  <2>2. SamePoints(s, t)
    BY <1>2 DEF SameShape
  <2> HIDE DEF s, t
  <2>10. Len(s) = Len(t)
    BY <2>2 DEF SamePoints
  <2>3. PICK n \in Nat : n = Len(s) /\ n = Len(t)
    <3>1. Len(s) \in Nat
      BY <2>1
    <3> QED BY <2>10, <3>1
  <2>4. DOMAIN s = 1 .. n
    <3>1. DOMAIN s = 1 .. Len(s)
      BY <2>1
    <3> QED BY <2>3, <3>1
  <2>5. PICK f \in Bijection(1 .. n, 1 .. n) : \A k \in 1 .. n : Quantize(s[k]) = Quantize(t[f[k]])
    BY <2>2, <2>4 DEF SamePoints, Matched
  <2>6. \A k \in 1 .. n : f[k] \in 1 .. n
    BY BijectionIs
  <2> DEFINE a == Cellular(t)
             b == Cellular(s)
  <2>7. DOMAIN a = 1 .. n /\ b = [k \in 1 .. n |-> a[f[k]]]
    BY <2>3, <2>5, <2>6 DEF Cellular
  <2>8. SqlPoints(s) = SortLex(b) /\ SqlPoints(t) = SortLex(a)
    BY <2>1, PointsAre
  <2> HIDE DEF a, b
  <2>9. SortLex(b) = SortLex(a)
    BY <2>7, SortLexPermuted
  <2> QED BY <2>1, <2>8, <2>9 DEF PointsBytes
<1>3. CASE g.type # "MultiPoint"
  <2> DEFINE s == g.parts
             t == h.parts
  <2>1. AreParts(s) /\ AreParts(t)
    BY <1>1, <1>3, ListingOfParts
  <2>2. Len(s) = Len(t) /\ SameParts(s, t)
    BY <1>3 DEF SameShape, SameParts
  <2>3. /\ SqlCanonicalBytes(g) =
             Assemble(IF g.type = "Polygon" THEN <<2, 3>> ELSE <<2, 4, Len(Bodies(s))>>, Bodies(s))
        /\ SqlCanonicalBytes(h) =
             Assemble(IF g.type = "Polygon" THEN <<2, 3>> ELSE <<2, 4, Len(Bodies(t))>>, Bodies(t))
    BY <1>1, <1>3, SqlBytesOfParts
  <2> HIDE DEF s, t
  <2>4. PICK n \in Nat : n = Len(s) /\ n = Len(t) /\ DOMAIN s = 1 .. n /\ DOMAIN t = 1 .. n
    <3> DEFINE P == Seq(Seq(Position))
    <3>1. s \in Seq(P) /\ t \in Seq(P)
      BY <2>1 DEF AreParts
    <3> HIDE DEF P
    <3> QED BY <2>2, <3>1
  <2>5. \A k \in 1 .. n : IsPart(s[k]) /\ IsPart(t[k])
    BY <2>1, <2>4 DEF AreParts
  <2>6. PICK f \in Bijection(1 .. n, 1 .. n) : \A k \in 1 .. n : SamePart(s[k], t[f[k]])
    BY <2>2, <2>4 DEF SameParts, Matched
  <2>7. \A k \in 1 .. n : f[k] \in 1 .. n
    BY BijectionIs
  <2> DEFINE a == Bodies(t)
             b == Bodies(s)
  <2>8. \A k \in 1 .. n : Body(s[k]) = Body(t[f[k]])
    BY <2>5, <2>6, <2>7, SamePartSameBytes
  <2>9. DOMAIN a = 1 .. n /\ DOMAIN b = 1 .. n /\ b = [k \in 1 .. n |-> a[f[k]]]
    BY <2>4, <2>7, <2>8 DEF Bodies
  <2> HIDE DEF a, b
  <2>10. Len(a) = n /\ Len(b) = n
    BY <2>9
  <2>11. \A head : Assemble(head, b) = Assemble(head, a)
    BY <2>9, AssemblePermuted
  <2> QED BY <2>3, <2>10, <2>11 DEF a, b
<1> QED BY <1>2, <1>3

(* Of two geometries whose bytes the recipe takes, the bytes are the same  *)
(* exactly when the shapes are, whatever their listings.                   *)
THEOREM BytesAreTheShape ==
  ASSUME NEW g, NEW h, IsListing(g), IsListing(h), SqlCanonicalBytes(g) # Degenerate
  PROVE  SqlCanonicalBytes(g) = SqlCanonicalBytes(h) <=> SameShape(g, h)
BY ShapeTells, SameShapeSameBytes
=============================================================================
