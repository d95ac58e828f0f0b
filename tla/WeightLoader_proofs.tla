------------------------ MODULE WeightLoader_proofs ------------------------
(***************************************************************************)
(* Proofs about WeightLoader, for any number of tensors, any sizes and any *)
(* order of the tensors in the files.                                      *)
(*                                                                         *)
(* The arena is sized in one order and filled in another, so the proofs    *)
(* need the sum of the sizes over any order: a sum is a function of the    *)
(* names that grows by the cells of the names it counts.  Induction over   *)
(* the naturals is that of a set with its successors.                      *)
(***************************************************************************)
EXTENDS WeightLoader, FiniteSetTheorems, WellFoundedInduction, TLAPS

Given == NAssumption /\ SizeAssumption /\ LayoutAssumption

-----------------------------------------------------------------------------
(* Induction. *)

\* A set of naturals that is not empty has a smallest member.
LEMMA Smallest ==
  ASSUME NEW T, T \subseteq Nat, T # {}
  PROVE  \E x \in T : \A y \in T : x <= y
  <1> DEFINE L == OpToRel(<, Nat)
  <1>1. L = {ss \in Nat \X Nat : ss[1] < ss[2]} BY DEF OpToRel
  <1>2. IsWellFoundedOn(L, Nat) BY NatLessThanWellFounded
  <1> HIDE DEF L
  <1>3. PICK x \in T : \A y \in T : ~ (<<y, x>> \in L) BY <1>2, WFMin
  <1>4. ASSUME NEW y \in T PROVE x <= y
    <2>1. x \in Nat /\ y \in Nat BY <1>3, <1>4
    <2>2. <<y, x>> \in Nat \X Nat BY <2>1
    <2>3. ~(y < x) BY <1>1, <1>3, <2>2
    <2> QED BY <2>1, <2>3
  <1> QED BY <1>3, <1>4

\* A set with zero and with the successor of each of its naturals has them all.
LEMMA Induction ==
  ASSUME NEW S, 0 \in S, \A n \in Nat : n \in S => n + 1 \in S
  PROVE  Nat \subseteq S
  <1> SUFFICES ASSUME Nat \ S # {} PROVE FALSE OBVIOUS
  <1>1. PICK x \in Nat \ S : \A y \in Nat \ S : x <= y BY Smallest
  <1>2. x # 0 OBVIOUS
  <1>3. x - 1 \in Nat BY <1>2
  <1>4. x - 1 \in S BY <1>1, <1>3
  <1> QED BY <1>3, <1>4

-----------------------------------------------------------------------------
(* Rounding up. *)

\* Rounding up takes a size to the next multiple of the alignment.
LEMMA Rounding ==
  ASSUME Given, NEW v \in Nat
  PROVE  /\ AlignUp(v) \in Nat
         /\ v <= AlignUp(v)
         /\ \E q \in Nat : AlignUp(v) = q * Align /\ q * Align < v + Align
  <1>1. Align \in Nat /\ Align > 0 BY DEF Given, SizeAssumption
  <1> DEFINE w == v + Align - 1
             q == w \div Align
  <1>2. w \in Nat BY <1>1
  <1>3. q \in Nat /\ Align * q <= w /\ w < Align * q + Align
    <2>1. \A a \in Nat, m \in Nat : m > 0 => a \div m \in Nat /\ m * (a \div m) <= a /\ a < m * (a \div m) + m
      OBVIOUS
    <2> QED BY <1>1, <1>2, <2>1
  <1>4. q * Align = Align * q /\ q * Align \in Nat BY <1>1, <1>3
  <1>5. AlignUp(v) = q * Align BY DEF AlignUp
  <1> QED BY <1>1, <1>3, <1>4, <1>5

\* Between two multiples of one number there is no other.
LEMMA Multiples ==
  ASSUME NEW m \in Nat, m > 0, NEW p \in Nat, NEW q \in Nat, p * m < q * m + m, q * m < p * m + m
  PROVE  p = q
  <1>1. ASSUME p < q PROVE FALSE
    <2>1. p + 1 <= q BY <1>1
    <2>2. (p + 1) * m <= q * m
      <3>1. \A a \in Nat, b \in Nat, c \in Nat : a <= b => a * c <= b * c OBVIOUS
      <3> QED BY <2>1, <3>1
    <2>3. (p + 1) * m = p * m + m OBVIOUS
    <2>4. p * m \in Nat /\ q * m \in Nat OBVIOUS
    <2> QED BY <2>2, <2>3, <2>4
  <1>2. ASSUME q < p PROVE FALSE
    <2>1. q + 1 <= p BY <1>2
    <2>2. (q + 1) * m <= p * m
      <3>1. \A a \in Nat, b \in Nat, c \in Nat : a <= b => a * c <= b * c OBVIOUS
      <3> QED BY <2>1, <3>1
    <2>3. (q + 1) * m = q * m + m OBVIOUS
    <2>4. p * m \in Nat /\ q * m \in Nat OBVIOUS
    <2> QED BY <2>2, <2>3, <2>4
  <1> QED BY <1>1, <1>2

\* What lies behind a rounded offset is rounded by itself.
LEMMA RoundingAdds ==
  ASSUME Given, NEW v \in Nat, NEW c \in Nat
  PROVE  AlignUp(AlignUp(v) + c) = AlignUp(v) + AlignUp(c)
  <1>1. Align \in Nat /\ Align > 0 BY DEF Given, SizeAssumption
  <1>2. PICK q \in Nat : AlignUp(v) = q * Align BY Rounding
  <1>3. PICK r \in Nat : AlignUp(c) = r * Align /\ r * Align < c + Align BY Rounding
  <1>4. AlignUp(v) + c \in Nat /\ AlignUp(v) \in Nat /\ AlignUp(c) \in Nat /\ c <= AlignUp(c)
    BY Rounding
  <1>5. PICK s \in Nat : /\ AlignUp(AlignUp(v) + c) = s * Align
                         /\ s * Align < AlignUp(v) + c + Align
    BY <1>4, Rounding
  <1>6. AlignUp(v) + c <= s * Align BY <1>4, <1>5, Rounding
  <1>7. (q + r) * Align = q * Align + r * Align BY <1>1
  <1>8. s * Align \in Nat /\ q * Align \in Nat /\ r * Align \in Nat BY <1>1
  <1>9. s * Align < (q + r) * Align + Align BY <1>1, <1>2, <1>3, <1>4, <1>5, <1>7, <1>8
  <1>10. (q + r) * Align < s * Align + Align BY <1>1, <1>2, <1>3, <1>4, <1>6, <1>7, <1>8
  <1>11. s = q + r BY <1>1, <1>9, <1>10, Multiples
  <1> QED BY <1>2, <1>3, <1>5, <1>7, <1>11

-----------------------------------------------------------------------------
(* Sums over the names of a set. *)

\* The cells that a tensor takes up, with what lies between it and the next.
Padded(t) == AlignUp(Cells[t])

\* w adds up what the tensors of T take, name by name.
IsSum(w, T) ==
  /\ w \in [0 .. N -> Nat]
  /\ w[0] = 0
  /\ \A n \in Tensor : w[n] = w[n - 1] + (IF n \in T THEN Padded(n) ELSE 0)

LEMMA PaddedType ==
  ASSUME Given, layout \in Layouts, NEW t \in Tensor
  PROVE  Cells[t] \in Nat /\ Padded(t) \in Nat /\ Cells[t] <= Padded(t)
  <1>1. Cells[t] \in Nat BY DEF Given, LayoutAssumption, Layout, Cells
  <1> QED BY <1>1, Rounding DEF Padded

\* Nothing adds up to nothing.
LEMMA SumOfNone ==
  ASSUME Given
  PROVE  LET w == [n \in 0 .. N |-> 0] IN IsSum(w, {}) /\ w[N] = 0
  BY DEF IsSum, Given, NAssumption, Tensor

\* One tensor more adds what it takes.
LEMMA SumWithOne ==
  ASSUME Given, layout \in Layouts, NEW T, NEW w, IsSum(w, T), NEW t \in Tensor, t \notin T
  PROVE  \E v : IsSum(v, T \cup {t}) /\ v[N] = w[N] + Padded(t)
  <1> DEFINE v == [n \in 0 .. N |-> IF n >= t THEN w[n] + Padded(t) ELSE w[n]]
  <1>0. N \in Nat /\ t \in 1 .. N BY DEF Given, NAssumption, Tensor
  <1>1. Padded(t) \in Nat BY PaddedType
  <1>2. w \in [0 .. N -> Nat] BY DEF IsSum
  <1>3. v \in [0 .. N -> Nat] BY <1>1, <1>2
  <1>4. v[0] = 0 BY <1>0 DEF IsSum
  <1>5. v[N] = w[N] + Padded(t) BY <1>0
  <1>6. ASSUME NEW n \in Tensor
        PROVE  v[n] = v[n - 1] + (IF n \in T \cup {t} THEN Padded(n) ELSE 0)
    <2>0. n \in 1 .. N /\ n \in 0 .. N /\ n - 1 \in 0 .. N BY <1>0, <1>6 DEF Tensor
    <2>1. w[n] \in Nat /\ w[n - 1] \in Nat BY <1>2, <2>0
    <2>2. w[n] = w[n - 1] + (IF n \in T THEN Padded(n) ELSE 0) BY <1>6 DEF IsSum
    <2>3. Padded(n) \in Nat BY <1>6, PaddedType
    <2>4. v[n] = (IF n >= t THEN w[n] + Padded(t) ELSE w[n])
          /\ v[n - 1] = (IF n - 1 >= t THEN w[n - 1] + Padded(t) ELSE w[n - 1])
      BY <2>0
    <2> HIDE DEF v
    <2>5. CASE n = t BY <1>0, <1>1, <2>0, <2>1, <2>2, <2>4, <2>5
    <2>6. CASE n < t BY <1>0, <1>1, <2>0, <2>1, <2>2, <2>3, <2>4, <2>6
    <2>7. CASE n > t
      <3>1. n - 1 >= t BY <1>0, <2>0, <2>7
      <3>2. v[n] = w[n] + Padded(t) /\ v[n - 1] = w[n - 1] + Padded(t)
        BY <1>0, <2>0, <2>4, <2>7, <3>1
      <3>3. n \in T \cup {t} <=> n \in T BY <1>0, <2>0, <2>7
      <3> QED BY <1>1, <2>1, <2>2, <2>3, <3>2, <3>3
    <2> QED BY <1>0, <2>0, <2>5, <2>6, <2>7
  <1>7. IsSum(v, T \cup {t}) BY <1>3, <1>4, <1>6 DEF IsSum
  <1> QED BY <1>5, <1>7

\* No set of tensors takes more than all of them.
LEMMA AllIsMost ==
  ASSUME Given, layout \in Layouts, NEW T, NEW w, IsSum(w, T), NEW e, IsSum(e, Tensor)
  PROVE  w[N] <= e[N]
  <1> DEFINE S == {n \in Nat : n <= N => w[n] <= e[n]}
  <1>0. N \in Nat /\ w \in [0 .. N -> Nat] /\ e \in [0 .. N -> Nat]
    BY DEF IsSum, Given, NAssumption
  <1>1. 0 \in S BY DEF IsSum
  <1>2. ASSUME NEW n \in Nat, n \in S PROVE n + 1 \in S
    <2> SUFFICES ASSUME n + 1 <= N PROVE w[n + 1] <= e[n + 1] OBVIOUS
    <2>1. n + 1 \in Tensor /\ n + 1 \in 0 .. N /\ n \in 0 .. N /\ (n + 1) - 1 = n
      BY <1>0 DEF Tensor
    <2>2. w[n] \in Nat /\ e[n] \in Nat /\ w[n] <= e[n] BY <1>0, <1>2, <2>1
    <2>3. Padded(n + 1) \in Nat BY <2>1, PaddedType
    <2>4. e[n + 1] = e[n] + Padded(n + 1)
          /\ w[n + 1] = w[n] + (IF n + 1 \in T THEN Padded(n + 1) ELSE 0)
      BY <2>1 DEF IsSum
    <2> QED BY <2>2, <2>3, <2>4
  <1>3. Nat \subseteq S BY <1>1, <1>2, Induction
  <1> QED BY <1>0, <1>3

-----------------------------------------------------------------------------
(* Pass 1. *)

\* The ends that pass 1 computes exist.
EndsUpTo(m, g) ==
  /\ g \in [0 .. m -> Nat]
  /\ \A n \in 0 .. m : g[n] = IF n = 0 THEN 0 ELSE AlignUp(g[n - 1]) + Cells[n]

LEMMA EndsExist ==
  ASSUME Given, layout \in Layouts
  PROVE  \E g : EndsUpTo(N, g)
  <1> DEFINE S == {m \in Nat : m <= N => \E g : EndsUpTo(m, g)}
  <1>0. N \in Nat BY DEF Given, NAssumption
  <1>1. 0 \in S
    <2>1. EndsUpTo(0, [n \in 0 .. 0 |-> 0]) BY DEF EndsUpTo
    <2> QED BY <2>1
  <1>2. ASSUME NEW m \in Nat, m \in S PROVE m + 1 \in S
    <2> SUFFICES ASSUME m + 1 <= N PROVE \E g : EndsUpTo(m + 1, g) OBVIOUS
    <2>1. PICK g : EndsUpTo(m, g) BY <1>0, <1>2
    <2>2. m + 1 \in Tensor /\ m \in 0 .. m BY <1>0 DEF Tensor
    <2>3. g \in [0 .. m -> Nat] /\ g[m] \in Nat BY <2>1, <2>2 DEF EndsUpTo
    <2>4. AlignUp(g[m]) + Cells[m + 1] \in Nat
      <3>1. AlignUp(g[m]) \in Nat BY <2>3, Rounding
      <3>2. Cells[m + 1] \in Nat BY <2>2, PaddedType
      <3> QED BY <3>1, <3>2
    <2> DEFINE h == [n \in 0 .. m + 1 |-> IF n = m + 1 THEN AlignUp(g[m]) + Cells[m + 1] ELSE g[n]]
    <2>5. h \in [0 .. m + 1 -> Nat] BY <2>3, <2>4
    <2>6. ASSUME NEW n \in 0 .. m + 1
          PROVE  h[n] = IF n = 0 THEN 0 ELSE AlignUp(h[n - 1]) + Cells[n]
      <3>1. CASE n = m + 1
        <4>1. h[n] = AlignUp(g[m]) + Cells[m + 1] /\ n # 0 BY <2>6, <3>1
        <4>2. n - 1 = m /\ h[m] = g[m] BY <2>2, <3>1
        <4> QED BY <3>1, <4>1, <4>2
      <3>2. CASE n \in 1 .. m
        <4>1. n - 1 \in 0 .. m /\ n - 1 \in 0 .. m + 1 /\ n # m + 1 /\ n - 1 # m + 1 /\ n # 0 BY <3>2
        <4>2. h[n] = g[n] /\ h[n - 1] = g[n - 1] BY <2>6, <4>1
        <4>3. g[n] = AlignUp(g[n - 1]) + Cells[n] BY <2>1, <3>2, <4>1 DEF EndsUpTo
        <4> QED BY <4>1, <4>2, <4>3
      <3>3. CASE n = 0
        <4>1. h[0] = g[0] /\ g[0] = 0 BY <2>1 DEF EndsUpTo
        <4> QED BY <3>3, <4>1
      <3> QED BY <3>1, <3>2, <3>3
    <2>7. EndsUpTo(m + 1, h) BY <2>5, <2>6 DEF EndsUpTo
    <2> QED BY <2>7
  <1>3. Nat \subseteq S BY <1>1, <1>2, Induction
  <1> QED BY <1>0, <1>3

\* Pass 1 comes to the sum of all tensors.
LEMMA PlanIsSum ==
  ASSUME Given, layout \in Layouts
  PROVE  \E e : IsSum(e, Tensor) /\ ArenaCells = e[N]
  <1>0. N \in Nat BY DEF Given, NAssumption
  <1> DEFINE F(f) == f = [n \in 0 .. N |-> IF n = 0 THEN 0 ELSE AlignUp(f[n - 1]) + Cells[n]]
             end == CHOOSE f : F(f)
  <1>1. PICK g : EndsUpTo(N, g) BY EndsExist
  <1>2. F(g)
    <2>1. g = [n \in 0 .. N |-> g[n]] BY <1>1 DEF EndsUpTo
    <2> QED BY <1>1, <2>1 DEF EndsUpTo
  <1>3. F(end) BY <1>2
  <1>4. PlannedEnd = end[N] BY DEF PlannedEnd
  <1> HIDE DEF end
  <1>5. DOMAIN end = 0 .. N BY <1>3
  <1>6. \A n \in 0 .. N : end[n] = IF n = 0 THEN 0 ELSE AlignUp(end[n - 1]) + Cells[n]
    BY <1>3
  <1> HIDE DEF F
  <1> DEFINE S == {n \in Nat : n <= N => end[n] \in Nat}
  <1>7. 0 \in S BY <1>0, <1>6
  <1>8. ASSUME NEW n \in Nat, n \in S PROVE n + 1 \in S
    <2> SUFFICES ASSUME n + 1 <= N PROVE end[n + 1] \in Nat OBVIOUS
    <2>1. n + 1 \in Tensor /\ n + 1 \in 0 .. N /\ (n + 1) - 1 = n /\ n + 1 # 0 BY <1>0 DEF Tensor
    <2>2. end[n] \in Nat BY <1>0, <1>8
    <2>3. end[n + 1] = AlignUp(end[n]) + Cells[n + 1] BY <1>6, <2>1
    <2> QED BY <2>1, <2>2, <2>3, PaddedType, Rounding
  <1>9. Nat \subseteq S BY <1>7, <1>8, Induction
  <1>10. \A n \in 0 .. N : end[n] \in Nat BY <1>0, <1>9
  <1> DEFINE e == [n \in 0 .. N |-> AlignUp(end[n])]
  <1>11. e \in [0 .. N -> Nat] BY <1>10, Rounding
  <1>12. e[0] = 0
    <2>1. end[0] = 0 BY <1>0, <1>6
    <2>2. AlignUp(0) = 0
      <3>1. Align \in Nat /\ Align > 0 BY DEF Given, SizeAssumption
      <3>2. (0 + Align - 1) \div Align = 0 BY <3>1
      <3> QED BY <3>1, <3>2 DEF AlignUp
    <2> QED BY <1>0, <2>1, <2>2
  <1>13. ASSUME NEW n \in Tensor
         PROVE  e[n] = e[n - 1] + (IF n \in Tensor THEN Padded(n) ELSE 0)
    <2>1. n \in 0 .. N /\ n - 1 \in 0 .. N /\ n # 0 BY <1>0, <1>13 DEF Tensor
    <2>2. end[n] = AlignUp(end[n - 1]) + Cells[n] BY <1>6, <2>1
    <2>3. end[n - 1] \in Nat /\ Cells[n] \in Nat BY <1>10, <1>13, <2>1, PaddedType
    <2>4. AlignUp(end[n]) = AlignUp(end[n - 1]) + AlignUp(Cells[n])
      BY <2>2, <2>3, RoundingAdds
    <2> QED BY <1>13, <2>1, <2>4 DEF Padded
  <1>14. e[N] = ArenaCells BY <1>0, <1>4 DEF ArenaCells
  <1>15. IsSum(e, Tensor) BY <1>11, <1>12, <1>13 DEF IsSum
  <1> QED BY <1>14, <1>15

-----------------------------------------------------------------------------
(* The order of the files. *)

\* The tensors that come before t in the files.
Ahead(t) == {u \in Tensor : Before(u, t)}

\* Two tensors of an index lie behind each other, for no two begin at one place.
LEMMA FileOrder ==
  ASSUME Given, layout \in Layouts
  PROVE  /\ \A t \in Tensor : ~Before(t, t)
         /\ \A t, u \in Tensor : t # u => Before(t, u) \/ Before(u, t)
         /\ \A t, u, v \in Tensor : Before(t, u) /\ Before(u, v) => Before(t, v)
  <1>1. \A t \in Tensor : layout.shard[t] \in Nat /\ layout.begin[t] \in Nat
    BY DEF Given, LayoutAssumption, Layout
  <1>2. \A t, u \in Tensor :
          layout.shard[t] = layout.shard[u] /\ layout.begin[t] = layout.begin[u] => t = u
    BY DEF Given, LayoutAssumption
  <1> QED BY <1>1, <1>2 DEF Before

LEMMA TensorsFinite ==
  ASSUME Given
  PROVE  /\ IsFiniteSet(Tensor) /\ Cardinality(Tensor) = N
         /\ IsFiniteSet(0 .. N - 1) /\ Cardinality(0 .. N - 1) = N
  <1>1. N \in Nat BY DEF Given, NAssumption
  <1>2. IsFiniteSet(1 .. N) /\ Cardinality(1 .. N) = (IF 1 > N THEN 0 ELSE N - 1 + 1)
    BY <1>1, FS_Interval
  <1>3. IsFiniteSet(0 .. N - 1)
        /\ Cardinality(0 .. N - 1) = (IF 0 > N - 1 THEN 0 ELSE (N - 1) - 0 + 1)
    BY <1>1, FS_Interval
  <1> QED BY <1>1, <1>2, <1>3 DEF Tensor

\* The number of tensors ahead tells every two tensors apart.
LEMMA AheadDiffers ==
  ASSUME Given, layout \in Layouts, NEW t \in Tensor, NEW u \in Tensor, Before(t, u)
  PROVE  Cardinality(Ahead(t)) < Cardinality(Ahead(u))
  <1>1. Ahead(t) \subseteq Ahead(u) BY FileOrder DEF Ahead
  <1>2. t \in Ahead(u) /\ t \notin Ahead(t) BY FileOrder DEF Ahead
  <1>3. IsFiniteSet(Ahead(t)) /\ IsFiniteSet(Ahead(u))
    <2>1. Ahead(t) \in SUBSET Tensor /\ Ahead(u) \in SUBSET Tensor BY DEF Ahead
    <2> QED BY <2>1, TensorsFinite, FS_Subset
  <1>4. /\ Cardinality(Ahead(t)) <= Cardinality(Ahead(u))
        /\ Cardinality(Ahead(u)) = Cardinality(Ahead(t)) => Ahead(u) = Ahead(t)
    BY <1>1, <1>3, FS_Subset
  <1>5. Cardinality(Ahead(t)) \in Nat /\ Cardinality(Ahead(u)) \in Nat
    BY <1>3, FS_CardinalityType
  <1> QED BY <1>1, <1>2, <1>4, <1>5

\* The table after qsort has every tensor once.
LEMMA OrderIsPermutation ==
  ASSUME Given, layout \in Layouts
  PROVE  /\ Order \in [Tensor -> Tensor]
         /\ \A m, n \in Tensor : Order[m] = Order[n] => m = n
         /\ {Order[n] : n \in Tensor} = Tensor
  <1>0. N \in Nat BY DEF Given, NAssumption
  <1> DEFINE rank == [t \in Tensor |-> Cardinality(Ahead(t))]
  <1>1. \A t \in Tensor : Cardinality(Ahead(t)) \in 0 .. N - 1
    <2> TAKE t \in Tensor
    <2>1. Ahead(t) \in SUBSET Tensor /\ t \notin Ahead(t) BY FileOrder DEF Ahead
    <2>2. /\ IsFiniteSet(Ahead(t)) /\ Cardinality(Ahead(t)) <= N
          /\ N = Cardinality(Ahead(t)) => Tensor = Ahead(t)
      BY <2>1, TensorsFinite, FS_Subset
    <2>3. Cardinality(Ahead(t)) \in Nat BY <2>2, FS_CardinalityType
    <2> QED BY <1>0, <2>1, <2>2, <2>3
  <1>2. rank \in Injection(Tensor, 0 .. N - 1)
    <2>1. rank \in [Tensor -> 0 .. N - 1] BY <1>1
    <2>2. ASSUME NEW t \in Tensor, NEW u \in Tensor, rank[t] = rank[u] PROVE t = u
      <3>1. Before(t, u) => rank[t] < rank[u] BY AheadDiffers
      <3>2. Before(u, t) => rank[u] < rank[t] BY AheadDiffers
      <3>3. rank[t] \in Nat /\ rank[u] \in Nat BY <1>0, <2>1
      <3> QED BY <2>2, <3>1, <3>2, <3>3, FileOrder
    <2> QED BY <2>1, <2>2 DEF Injection, IsInjective
  <1>3. rank \in Surjection(Tensor, 0 .. N - 1)
    BY <1>2, TensorsFinite, FS_Injection
  <1>4. \A n \in Tensor : \E t \in Tensor : Cardinality(Ahead(t)) = n - 1
    <2> TAKE n \in Tensor
    <2>1. n - 1 \in 0 .. N - 1 BY <1>0 DEF Tensor
    <2>2. \E t \in Tensor : rank[t] = n - 1 BY <1>3, <2>1 DEF Surjection
    <2> QED BY <2>2
  <1>5. \A n \in Tensor : Order[n] \in Tensor /\ Cardinality(Ahead(Order[n])) = n - 1
    <2> TAKE n \in Tensor
    <2>1. Order[n] = CHOOSE t \in Tensor : Cardinality(Ahead(t)) = n - 1
      BY DEF Order, Ahead
    <2> QED BY <1>4, <2>1
  <1>6. Order \in [Tensor -> Tensor]
    <2> DEFINE Nth(n) == CHOOSE t \in Tensor : Cardinality({u \in Tensor : Before(u, t)}) = n - 1
    <2>1. Order = [n \in Tensor |-> Nth(n)] BY DEF Order
    <2> HIDE DEF Nth
    <2> QED BY <1>5, <2>1
  <1>7. ASSUME NEW m \in Tensor, NEW n \in Tensor, Order[m] = Order[n] PROVE m = n
    <2>1. m - 1 = n - 1 BY <1>5, <1>7
    <2>2. m \in Nat /\ n \in Nat BY DEF Tensor
    <2> QED BY <2>1, <2>2
  <1>8. Order \in Injection(Tensor, Tensor) BY <1>6, <1>7 DEF Injection, IsInjective
  <1>9. Order \in Surjection(Tensor, Tensor) BY <1>8, TensorsFinite, FS_Injection
  <1>10. \A t \in Tensor : \E n \in Tensor : Order[n] = t BY <1>9 DEF Surjection
  <1> QED BY <1>5, <1>6, <1>7, <1>10

-----------------------------------------------------------------------------
(* The inductive invariant. *)

Early  == {"table", "arena", "pinned", "stream", "shards", "order"}
Within == {"read", "convert", "copy", "place"}

\* Where the host is tells how many copies it has queued and what its buffers hold.
HostPlace ==
  /\ cur = i % 2
  /\ Len(stream) = IF pc = "place" THEN i + 1 ELSE i
  /\ pc \in Early => i = 0
  /\ pc \in Within => i < N
  /\ pc \in {"sync", "gemm", "ready"} => i = N
  /\ pc \in {"gemm", "ready"} => arrived = Len(stream)
  /\ pc = "convert" => raw = Current
  /\ pc = "copy" => slot[cur] = Current

\* Copies are queued in the order of the files and use the slots in turn; the
\* event of a slot lies behind the last copy from it.
InTurn ==
  \A k \in 1 .. Len(stream) :
    /\ stream[k].tensor = Order[k]
    /\ stream[k].slot = (k - 1) % 2
    /\ k <= ticket[stream[k].slot]

\* Behind the wait no queued copy is going to read the slot in use.
SlotFree ==
  pc \in {"read", "convert", "copy"} =>
    \A k \in arrived + 1 .. Len(stream) : stream[k].slot # cur

\* The tensors that have their pointers, in the order of the files.
Done == {Order[k] : k \in 1 .. i}

\* Each tensor lies behind those before it, and what they take adds up to the
\* running offset.
InLine ==
  /\ \A k \in 1 .. Len(stream) : k <= i =>
       ptr[Order[k]] = stream[k].at /\ stream[k].at + Cells[Order[k]] <= arenaOff
  /\ \A k, l \in 1 .. Len(stream) : k < l => stream[k].at + Cells[Order[k]] <= stream[l].at
  /\ \A k \in Tensor : k > i => ptr[Order[k]] = Torn
  /\ pc = "place" => stream[i + 1].at = arenaOff
  /\ \E w : IsSum(w, Done) /\ AlignUp(arenaOff) = w[N]

\* What has arrived is where it was sent.
ArenaContent ==
  \A k \in 1 .. arrived : \A a \in stream[k].at .. stream[k].at + Cells[Order[k]] - 1 :
    arena[a] = Order[k]

\* What has been acquired, by place.
HeldPlace ==
  /\ pc = "table"  => held = {}
  /\ pc = "arena"  => held = {"table"}
  /\ pc = "pinned" => held = {"table", "arena"}
  /\ pc = "stream" => held = {"table", "arena", "pinned"}
  /\ pc = "shards" => held = {"table", "arena", "pinned", "stream", "events"}
  /\ pc = "order"  => held = {"table", "arena", "pinned", "stream", "events", "shard_fds"}
  /\ pc \in Within \cup {"wait"} => held = Resource \ {"gemm"}
  /\ pc \in {"sync", "gemm"} => held = Store \ {"gemm"}
  /\ pc = "ready"  => held = Store

IInv ==
  /\ TypeOK /\ HostPlace /\ InTurn /\ SlotFree /\ SlotIntact /\ InLine /\ ArenaContent
  /\ HeldPlace

\* The index does not change under a load.
LEMMA LayoutFrame ==
  ASSUME layout' = layout
  PROVE  /\ Cells' = Cells /\ Order' = Order /\ ArenaCells' = ArenaCells
         /\ \A w, T : IsSum(w, T)' = IsSum(w, T)
  <1>1. Cells' = Cells BY DEF Cells
  <1>2. Order' = Order BY DEF Order, Before
  <1>3. ArenaCells' = ArenaCells BY <1>1 DEF ArenaCells, PlannedEnd
  <1>4. \A w, T : IsSum(w, T)' = IsSum(w, T) BY <1>1 DEF IsSum, Padded
  <1> QED BY <1>1, <1>2, <1>3, <1>4

LEMMA InitInvariant == ASSUME Given, Init PROVE IInv
  <1>0. N \in Nat BY DEF Given, NAssumption
  <1>1. layout \in Layouts BY DEF Init
  <1>2. TypeOK
    <2>1. stream \in Seq(Copies) /\ Len(stream) = 0 BY DEF Init
    <2> QED BY <1>0, <2>1 DEF Init, TypeOK, PC, Slot, Resource
  <1>3. HostPlace /\ InTurn /\ SlotFree /\ SlotIntact /\ ArenaContent
    BY DEF Init, HostPlace, InTurn, SlotFree, SlotIntact, ArenaContent, Early, Within
  <1>4. InLine
    <2>1. Done = {} BY DEF Init, Done
    <2>2. \E w : IsSum(w, {}) /\ w[N] = 0 BY SumOfNone
    <2>3. AlignUp(arenaOff) = 0
      <3>1. Align \in Nat /\ Align > 0 BY DEF Given, SizeAssumption
      <3>2. (0 + Align - 1) \div Align = 0 BY <3>1
      <3> QED BY <3>1, <3>2 DEF AlignUp, Init
    <2>4. \A k \in Tensor : k > i => ptr[Order[k]] = Torn
      BY <1>1, OrderIsPermutation DEF Init
    <2> QED BY <2>1, <2>2, <2>3, <2>4 DEF Init, InLine
  <1>5. HeldPlace BY DEF Init, HeldPlace, Within
  <1> QED BY <1>2, <1>3, <1>4, <1>5 DEF IInv

\* While nothing is queued or placed, the tensors stay in line.
LEMMA InLineStays ==
  ASSUME InLine, layout' = layout, i' = i, stream' = stream, arenaOff' = arenaOff, ptr' = ptr,
         pc' = "place" => pc = "place"
  PROVE  InLine'
  <1>1. Cells' = Cells /\ Order' = Order /\ \A w, T : IsSum(w, T)' = IsSum(w, T)
    BY LayoutFrame
  <1>2. Done' = Done BY <1>1 DEF Done
  <1>3. AlignUp(arenaOff)' = AlignUp(arenaOff) BY DEF AlignUp
  <1>4. \E w : IsSum(w, Done)' /\ AlignUp(arenaOff)' = w[N] BY <1>1, <1>2, <1>3 DEF InLine
  <1> QED BY <1>1, <1>4 DEF InLine

\* A step of the host that moves on and touches neither buffers nor the arena.
LEMMA QuietStep ==
  ASSUME IInv, UNCHANGED <<dataVars, hostVars>>, pc # "place", pc' # "place",
         pc' \in PC, held' \subseteq Resource, HostPlace', SlotFree', HeldPlace'
  PROVE  IInv'
  <1>1. /\ layout' = layout /\ i' = i /\ cur' = cur /\ stream' = stream /\ ticket' = ticket
        /\ arenaOff' = arenaOff /\ ptr' = ptr /\ raw' = raw /\ slot' = slot /\ arena' = arena
        /\ arrived' = arrived
    BY DEF dataVars, hostVars
  <1>2. Cells' = Cells /\ Order' = Order /\ ArenaCells' = ArenaCells
        /\ \A w, T : IsSum(w, T)' = IsSum(w, T)
    BY <1>1, LayoutFrame
  <1>3. TypeOK' BY <1>1, <1>2 DEF IInv, TypeOK
  <1>4. InTurn' /\ SlotIntact' /\ ArenaContent'
    BY <1>1, <1>2 DEF IInv, InTurn, SlotIntact, ArenaContent
  <1>5. InLine' BY <1>1, InLineStays DEF IInv
  <1> QED BY <1>3, <1>4, <1>5 DEF IInv

Quiet ==
  \/ AllocateTable \/ AllocateArena \/ AllocatePinned \/ AllocateStream \/ OpenShards
  \/ SortTensors \/ WaitForSlot \/ ReleaseStaging \/ DrainStream \/ InitGemm \/ Unwind
  \/ FreeStore

\* What the quiet actions do to the place and to the resources.
LEMMA QuietMoves ==
  ASSUME IInv, Quiet
  PROVE  /\ UNCHANGED <<dataVars, hostVars>> /\ pc # "place" /\ pc' # "place" /\ pc' \in PC
         /\ held' \subseteq Resource /\ HeldPlace'
  <1>0. HeldPlace /\ held \subseteq Resource BY DEF IInv, TypeOK
  <1> USE DEF Acquire, Fails, Goto, PC, Resource, Store
  <1>1. CASE AllocateTable BY <1>0, <1>1 DEF AllocateTable, HeldPlace, Within
  <1>2. CASE AllocateArena BY <1>0, <1>2 DEF AllocateArena, HeldPlace, Within
  <1>3. CASE AllocatePinned BY <1>0, <1>3 DEF AllocatePinned, HeldPlace, Within
  <1>4. CASE AllocateStream BY <1>0, <1>4 DEF AllocateStream, HeldPlace, Within
  <1>5. CASE OpenShards BY <1>0, <1>5 DEF OpenShards, HeldPlace, Within
  <1>6. CASE SortTensors BY <1>0, <1>6 DEF SortTensors, HeldPlace, Within
  <1>7. CASE WaitForSlot BY <1>0, <1>7 DEF WaitForSlot, HeldPlace, Within
  <1>8. CASE ReleaseStaging BY <1>0, <1>8 DEF ReleaseStaging, HeldPlace, Within
  <1>9. CASE DrainStream BY <1>0, <1>9 DEF DrainStream, HeldPlace, Within
  <1>10. CASE InitGemm BY <1>0, <1>10 DEF InitGemm, HeldPlace, Within
  <1>11. CASE Unwind BY <1>0, <1>11 DEF Unwind, HeldPlace, Within
  <1>12. CASE FreeStore BY <1>0, <1>12 DEF FreeStore, HeldPlace, Within
  <1> HIDE DEF Acquire, Fails, Goto, PC, Resource, Store
  <1> QED BY <1>1, <1>2, <1>3, <1>4, <1>5, <1>6, <1>7, <1>8, <1>9, <1>10, <1>11, <1>12 DEF Quiet

\* The wait lets the host at a slot that no queued copy is going to read.
LEMMA WaitFrees ==
  ASSUME Given, IInv, WaitForSlot
  PROVE  \A k \in arrived + 1 .. Len(stream) : stream[k].slot # cur
  <1> SUFFICES ASSUME NEW k \in arrived + 1 .. Len(stream), stream[k].slot = cur
               PROVE  FALSE
    OBVIOUS
  <1>0. /\ N \in Nat /\ i \in Nat /\ arrived \in 0 .. Len(stream) /\ ticket \in [Slot -> Nat]
        /\ cur \in Slot /\ Len(stream) \in Nat
    BY DEF Given, NAssumption, IInv, TypeOK
  <1>1. Len(stream) = i /\ cur = i % 2 BY DEF IInv, HostPlace, WaitForSlot
  <1>2. k \in 1 .. i /\ arrived < k BY <1>0, <1>1
  <1>3. stream[k].slot = (k - 1) % 2 /\ k <= ticket[cur] BY <1>1, <1>2 DEF IInv, InTurn
  <1>4. ticket[cur] \in Nat BY <1>0
  <1>5. ~(i >= 2) BY <1>0, <1>2, <1>3, <1>4 DEF WaitForSlot
  <1>6. i = 1 /\ k = 1 BY <1>0, <1>2, <1>5
  <1>7. (1 - 1) % 2 = 0 /\ 1 % 2 = 1 OBVIOUS
  <1> QED BY <1>1, <1>3, <1>6, <1>7

\* The quiet actions keep the invariant.
LEMMA QuietHolds == ASSUME Given, IInv, Quiet PROVE IInv'
  <1>1. /\ UNCHANGED <<dataVars, hostVars>> /\ pc # "place" /\ pc' # "place" /\ pc' \in PC
        /\ held' \subseteq Resource /\ HeldPlace'
    BY QuietMoves
  <1>2. /\ layout' = layout /\ i' = i /\ cur' = cur /\ stream' = stream /\ raw' = raw
        /\ slot' = slot /\ arrived' = arrived
    BY <1>1 DEF dataVars, hostVars
  <1>3. /\ N \in Nat /\ i \in 0 .. N /\ cur = i % 2 /\ Len(stream) = i
    BY <1>1 DEF Given, NAssumption, IInv, TypeOK, HostPlace
  <1>4. /\ pc' \in Early => pc \in Early
        /\ pc' \in {"read", "convert", "copy"} => pc' = "read" /\ WaitForSlot
        /\ pc' \in {"sync", "gemm", "ready"} => i = N
        /\ pc' \in {"gemm", "ready"} => arrived = Len(stream)
    <2> USE DEF Acquire, Fails, Goto, Early, Within, IInv, HostPlace
    <2>1. CASE AllocateTable BY <2>1 DEF AllocateTable
    <2>2. CASE AllocateArena BY <2>2 DEF AllocateArena
    <2>3. CASE AllocatePinned BY <2>3 DEF AllocatePinned
    <2>4. CASE AllocateStream BY <2>4 DEF AllocateStream
    <2>5. CASE OpenShards BY <2>5 DEF OpenShards
    <2>6. CASE SortTensors BY <2>6 DEF SortTensors
    <2>7. CASE WaitForSlot BY <2>7 DEF WaitForSlot
    <2>8. CASE ReleaseStaging BY <2>8 DEF ReleaseStaging
    <2>9. CASE DrainStream BY <2>9 DEF DrainStream
    <2>10. CASE InitGemm BY <2>10 DEF InitGemm
    <2>11. CASE Unwind BY <2>11 DEF Unwind
    <2>12. CASE FreeStore BY <2>12 DEF FreeStore
    <2> HIDE DEF Acquire, Fails, Goto, Early, Within, IInv, HostPlace
    <2> QED BY <2>1, <2>2, <2>3, <2>4, <2>5, <2>6, <2>7, <2>8, <2>9, <2>10, <2>11, <2>12 DEF Quiet
  <1>5. HostPlace'
    <2>1. pc' \in Within => i < N
      BY <1>1, <1>4 DEF Within, WaitForSlot
    <2>2. pc' \in Early => i = 0 BY <1>4 DEF IInv, HostPlace
    <2> QED BY <1>1, <1>2, <1>3, <1>4, <2>1, <2>2 DEF HostPlace
  <1>6. SlotFree'
    <2>1. pc' \in {"read", "convert", "copy"} =>
            \A k \in arrived + 1 .. Len(stream) : stream[k].slot # cur
      BY <1>4, WaitFrees
    <2> QED BY <1>2, <2>1 DEF SlotFree
  <1> QED BY <1>1, <1>5, <1>6, QuietStep

\* Reading a tensor touches the raw buffer only.
LEMMA ReadHolds == ASSUME Given, IInv, ReadPart \/ ReadTensor PROVE IInv'
  <1>1. /\ pc = "read" /\ raw' \in {raw, Torn, Current} /\ pc' \in {"read", "convert", "unwind"}
        /\ pc' = "convert" => raw' = Current
        /\ layout' = layout /\ i' = i /\ cur' = cur /\ stream' = stream /\ ticket' = ticket
        /\ arenaOff' = arenaOff /\ ptr' = ptr /\ slot' = slot /\ arena' = arena
        /\ arrived' = arrived /\ held' = held
    BY DEF ReadPart, ReadTensor, hostVars, Goto, Fails
  <1>2. Cells' = Cells /\ Order' = Order /\ ArenaCells' = ArenaCells
        /\ \A w, T : IsSum(w, T)' = IsSum(w, T)
    BY <1>1, LayoutFrame
  <1>3. Current' = Current BY <1>1, <1>2 DEF Current
  <1>4. /\ N \in Nat /\ i \in 0 .. N /\ i < N /\ layout \in Layouts
    BY <1>1 DEF Given, NAssumption, IInv, TypeOK, HostPlace, Within
  <1>5. Current \in Tensor
    <2>1. i + 1 \in Tensor BY <1>4 DEF Tensor
    <2> QED BY <1>4, <2>1, OrderIsPermutation DEF Current
  <1>6. TypeOK'
    <2>1. raw' \in Tensor \cup {Nobody, Torn} BY <1>1, <1>5 DEF IInv, TypeOK
    <2>2. pc' \in PC BY <1>1 DEF PC
    <2> QED BY <1>1, <1>2, <2>1, <2>2 DEF IInv, TypeOK
  <1>7. HostPlace' BY <1>1, <1>3 DEF IInv, HostPlace, Early, Within
  <1>8. InTurn' /\ SlotIntact' /\ ArenaContent'
    BY <1>1, <1>2 DEF IInv, InTurn, SlotIntact, ArenaContent
  <1>9. SlotFree' BY <1>1 DEF IInv, SlotFree
  <1>10. InLine' BY <1>1, InLineStays DEF IInv
  <1>11. HeldPlace' BY <1>1 DEF IInv, HeldPlace, Within
  <1> QED BY <1>6, <1>7, <1>8, <1>9, <1>10, <1>11 DEF IInv

\* The slot in use is filled: no queued copy was going to read it.
LEMMA FillHolds == ASSUME Given, IInv, FillSlot PROVE IInv'
  <1>1. /\ pc = "convert" /\ pc' = "copy" /\ slot' = [slot EXCEPT ![cur] = raw]
        /\ layout' = layout /\ i' = i /\ cur' = cur /\ stream' = stream /\ ticket' = ticket
        /\ arenaOff' = arenaOff /\ ptr' = ptr /\ raw' = raw /\ arena' = arena
        /\ arrived' = arrived /\ held' = held
    BY DEF FillSlot, hostVars, Goto
  <1>2. Cells' = Cells /\ Order' = Order /\ ArenaCells' = ArenaCells BY <1>1, LayoutFrame
  <1>3. Current' = Current BY <1>1, <1>2 DEF Current
  <1>4. /\ N \in Nat /\ i \in 0 .. N /\ i < N /\ layout \in Layouts /\ cur \in Slot
        /\ slot \in [Slot -> Tensor \cup {Nobody}] /\ raw = Current
    BY <1>1 DEF Given, NAssumption, IInv, TypeOK, HostPlace, Within
  <1>5. Current \in Tensor
    <2>1. i + 1 \in Tensor BY <1>4 DEF Tensor
    <2> QED BY <1>4, <2>1, OrderIsPermutation DEF Current
  <1>6. slot' \in [Slot -> Tensor \cup {Nobody}] /\ slot'[cur] = Current
        /\ \A q \in Slot \ {cur} : slot'[q] = slot[q]
    BY <1>1, <1>4, <1>5
  <1>7. TypeOK'
    <2>1. pc' \in PC BY <1>1 DEF PC
    <2> QED BY <1>1, <1>2, <1>6, <2>1 DEF IInv, TypeOK
  <1>8. HostPlace' BY <1>1, <1>3, <1>6 DEF IInv, HostPlace, Early, Within
  <1>9. InTurn' /\ ArenaContent' BY <1>1, <1>2 DEF IInv, InTurn, ArenaContent
  <1>10. SlotFree' BY <1>1 DEF IInv, SlotFree
  <1>11. SlotIntact'
    <2> SUFFICES ASSUME NEW k \in arrived + 1 .. Len(stream)
                 PROVE  slot'[stream[k].slot] = stream[k].tensor
      BY <1>1 DEF SlotIntact
    <2>1. stream[k].slot # cur BY <1>1 DEF IInv, SlotFree
    <2>2. stream[k].slot \in Slot
      <3>1. stream \in Seq(Copies) /\ arrived \in Nat /\ k \in 1 .. Len(stream)
        BY DEF IInv, TypeOK
      <3>2. stream[k] \in Copies BY <3>1
      <3> QED BY <3>2 DEF Copies
    <2>3. slot[stream[k].slot] = stream[k].tensor BY DEF IInv, SlotIntact
    <2> QED BY <1>6, <2>1, <2>2, <2>3
  <1>12. InLine' BY <1>1, InLineStays DEF IInv
  <1>13. HeldPlace' BY <1>1 DEF IInv, HeldPlace, Within
  <1> QED BY <1>7, <1>8, <1>9, <1>10, <1>11, <1>12, <1>13 DEF IInv

\* The copy is queued behind the others, from a slot that holds its tensor.
LEMMA QueueHolds == ASSUME Given, IInv, QueueCopy PROVE IInv'
  <1>0. /\ N \in Nat /\ i \in 0 .. N /\ i < N /\ layout \in Layouts /\ cur \in Slot
        /\ cur = i % 2 /\ Len(stream) = i /\ stream \in Seq(Copies) /\ pc = "copy"
        /\ arenaOff \in Nat /\ ticket \in [Slot -> Nat] /\ slot[cur] = Current
        /\ arrived \in 0 .. i
    BY DEF Given, NAssumption, IInv, TypeOK, HostPlace, Within, QueueCopy
  <1>a. Current \in Tensor /\ Current = Order[i + 1]
    <2>1. i + 1 \in Tensor BY <1>0 DEF Tensor
    <2> QED BY <1>0, <2>1, OrderIsPermutation DEF Current
  <1>1. CASE pc' = "unwind" /\ UNCHANGED <<dataVars, hostVars, held>>
    <2>1. /\ layout' = layout /\ i' = i /\ cur' = cur /\ stream' = stream /\ held' = held
          /\ arrived' = arrived
      BY <1>1 DEF dataVars, hostVars
    <2>2. pc' \in PC /\ held' \subseteq Resource BY <1>1, <2>1 DEF PC, IInv, TypeOK
    <2>3. HostPlace' BY <1>0, <1>1, <2>1 DEF HostPlace, Early, Within
    <2>4. SlotFree' /\ HeldPlace' BY <1>1 DEF SlotFree, HeldPlace, Within
    <2> QED BY <1>0, <1>1, <2>2, <2>3, <2>4, QuietStep
  <1>2. CASE /\ stream' = Append(stream, [slot |-> cur, tensor |-> Current, at |-> arenaOff])
             /\ ticket' = [ticket EXCEPT ![cur] = Len(stream) + 1]
             /\ pc' = "place"
             /\ UNCHANGED <<dataVars, layout, i, cur, arenaOff, ptr, held>>
    <2>1. /\ layout' = layout /\ i' = i /\ cur' = cur /\ arenaOff' = arenaOff /\ ptr' = ptr
          /\ raw' = raw /\ slot' = slot /\ arena' = arena /\ arrived' = arrived /\ held' = held
      BY <1>2 DEF dataVars
    <2>2. Cells' = Cells /\ Order' = Order /\ ArenaCells' = ArenaCells
          /\ \A w, T : IsSum(w, T)' = IsSum(w, T)
      BY <2>1, LayoutFrame
    <2> DEFINE c == [slot |-> cur, tensor |-> Current, at |-> arenaOff]
    <2>3. c \in Copies BY <1>0, <1>a DEF Copies
    <2>4. c.slot = cur /\ c.tensor = Current /\ c.at = arenaOff OBVIOUS
    <2> HIDE DEF c
    <2>5. /\ stream' \in Seq(Copies) /\ Len(stream') = i + 1 /\ stream'[i + 1] = c
          /\ \A k \in 1 .. i : stream'[k] = stream[k]
      BY <1>0, <1>2, <2>3 DEF c
    <2>6. /\ ticket' \in [Slot -> Nat] /\ ticket'[cur] = i + 1
          /\ \A q \in Slot \ {cur} : ticket'[q] = ticket[q]
      BY <1>0, <1>2
    <2>7. TypeOK'
      <3>1. pc' \in PC BY <1>2 DEF PC
      <3>2. arrived' \in 0 .. Len(stream') BY <1>0, <2>1, <2>5
      <3> QED BY <2>1, <2>2, <2>5, <2>6, <3>1, <3>2 DEF IInv, TypeOK
    <2>8. HostPlace' BY <1>0, <1>2, <2>1, <2>5 DEF HostPlace, Early, Within
    <2>9. InTurn'
      <3> SUFFICES ASSUME NEW k \in 1 .. i + 1
                   PROVE  /\ stream'[k].tensor = Order[k] /\ stream'[k].slot = (k - 1) % 2
                          /\ k <= ticket'[stream'[k].slot]
        BY <2>2, <2>5 DEF InTurn
      <3>1. CASE k \in 1 .. i
        <4>1. /\ stream[k].tensor = Order[k] /\ stream[k].slot = (k - 1) % 2
              /\ k <= ticket[stream[k].slot] /\ stream'[k] = stream[k]
          BY <1>0, <2>5, <3>1 DEF IInv, InTurn
        <4>2. stream[k].slot \in Slot
          <5>1. stream[k] \in Copies BY <1>0, <3>1
          <5> QED BY <5>1 DEF Copies
        <4>3. k <= ticket'[stream[k].slot] BY <1>0, <2>6, <3>1, <4>1, <4>2
        <4> QED BY <4>1, <4>3
      <3>2. CASE k = i + 1
        <4>1. (i + 1) - 1 = i BY <1>0
        <4> QED BY <1>0, <1>a, <2>4, <2>5, <2>6, <3>2, <4>1
      <3> QED BY <1>0, <3>1, <3>2
    <2>10. SlotFree' BY <1>2 DEF SlotFree
    <2>11. SlotIntact'
      <3> SUFFICES ASSUME NEW k \in arrived + 1 .. i + 1
                   PROVE  slot[stream'[k].slot] = stream'[k].tensor
        BY <2>1, <2>5 DEF SlotIntact
      <3>1. CASE k = i + 1 BY <1>0, <2>4, <2>5, <3>1
      <3>2. CASE k \in arrived + 1 .. i
        <4>1. k \in 1 .. i BY <1>0, <3>2
        <4> QED BY <1>0, <2>5, <3>2, <4>1 DEF IInv, SlotIntact
      <3> QED BY <1>0, <3>1, <3>2
    <2>12. InLine'
      <3>1. \A k \in 1 .. i + 1 : k <= i =>
              ptr[Order[k]] = stream'[k].at /\ stream'[k].at + Cells[Order[k]] <= arenaOff
        BY <1>0, <2>5 DEF IInv, InLine
      <3>2. ASSUME NEW k \in 1 .. i + 1, NEW l \in 1 .. i + 1, k < l
            PROVE  stream'[k].at + Cells[Order[k]] <= stream'[l].at
        <4>1. k \in 1 .. i BY <1>0, <3>2
        <4>2. CASE l = i + 1 BY <2>4, <2>5, <3>1, <4>1, <4>2
        <4>3. CASE l \in 1 .. i BY <1>0, <2>5, <3>2, <4>1, <4>3 DEF IInv, InLine
        <4> QED BY <1>0, <4>2, <4>3
      <3>3. Done' = Done BY <2>1, <2>2 DEF Done
      <3>4. AlignUp(arenaOff)' = AlignUp(arenaOff) BY <2>1 DEF AlignUp
      <3>5. \E w : IsSum(w, Done)' /\ AlignUp(arenaOff)' = w[N]
        BY <2>2, <3>3, <3>4 DEF IInv, InLine
      <3>6. \A k \in Tensor : k > i => ptr[Order[k]] = Torn BY DEF IInv, InLine
      <3> QED BY <2>1, <2>2, <2>4, <2>5, <3>1, <3>2, <3>5, <3>6 DEF InLine
    <2>13. ArenaContent'
      <3>1. \A k \in 1 .. arrived : stream'[k] = stream[k] BY <1>0, <2>5
      <3> QED BY <2>1, <2>2, <3>1 DEF IInv, ArenaContent
    <2>14. HeldPlace' BY <1>0, <1>2, <2>1 DEF IInv, HeldPlace, Within
    <2> QED BY <2>7, <2>8, <2>9, <2>10, <2>11, <2>12, <2>13, <2>14 DEF IInv
  <1> QED BY <1>1, <1>2 DEF QueueCopy, Goto, Fails, hostVars

\* The tensor gets its pointer, and the next one lies behind it.
LEMMA PlaceHolds == ASSUME Given, IInv, PlaceTensor PROVE IInv'
  <1>0. /\ N \in Nat /\ i \in 0 .. N /\ i < N /\ layout \in Layouts /\ cur \in Slot
        /\ cur = i % 2 /\ Len(stream) = i + 1 /\ stream \in Seq(Copies) /\ pc = "place"
        /\ arenaOff \in Nat /\ stream[i + 1].at = arenaOff
        /\ ptr \in [Tensor -> Nat \cup {Torn}]
    BY DEF Given, NAssumption, IInv, TypeOK, HostPlace, Within, PlaceTensor, InLine
  <1>1. /\ ptr' = [ptr EXCEPT ![Current] = arenaOff]
        /\ arenaOff' = AlignUp(arenaOff) + Cells[Current]
        /\ i' = i + 1 /\ cur' = 1 - cur /\ pc' = "wait"
        /\ layout' = layout /\ raw' = raw /\ slot' = slot /\ arena' = arena
        /\ arrived' = arrived /\ stream' = stream /\ ticket' = ticket /\ held' = held
    BY DEF PlaceTensor, dataVars, Goto
  <1>2. Cells' = Cells /\ Order' = Order /\ ArenaCells' = ArenaCells
        /\ \A w, T : IsSum(w, T)' = IsSum(w, T)
    BY <1>1, LayoutFrame
  <1>3. i + 1 \in Tensor /\ Current \in Tensor /\ Current = Order[i + 1]
    <2>1. i + 1 \in Tensor BY <1>0 DEF Tensor
    <2> QED BY <1>0, <2>1, OrderIsPermutation DEF Current
  <1>4. \A k \in Tensor : Order[k] \in Tensor /\ (k # i + 1 => Order[k] # Current)
    BY <1>0, <1>3, OrderIsPermutation
  <1>5. /\ ptr' \in [Tensor -> Nat \cup {Torn}] /\ ptr'[Current] = arenaOff
        /\ \A t \in Tensor \ {Current} : ptr'[t] = ptr[t]
    BY <1>0, <1>1, <1>3
  <1>6. Cells[Current] \in Nat /\ Padded(Current) \in Nat BY <1>0, <1>3, PaddedType
  <1>7. AlignUp(arenaOff) \in Nat /\ arenaOff <= AlignUp(arenaOff) BY <1>0, Rounding
  <1>8. /\ arenaOff' \in Nat /\ arenaOff <= arenaOff'
        /\ arenaOff + Cells[Current] <= arenaOff'
    BY <1>0, <1>1, <1>6, <1>7
  <1>9. TypeOK'
    <2>1. pc' \in PC BY <1>1 DEF PC
    <2>2. i' \in 0 .. N /\ cur' \in Slot BY <1>0, <1>1 DEF Slot
    <2> QED BY <1>1, <1>2, <1>5, <1>8, <2>1, <2>2 DEF IInv, TypeOK
  <1>10. HostPlace'
    <2>1. 1 - (i % 2) = (i + 1) % 2 BY <1>0
    <2> QED BY <1>0, <1>1, <2>1 DEF HostPlace, Early, Within
  <1>11. InTurn' /\ SlotIntact' /\ ArenaContent'
    BY <1>1, <1>2 DEF IInv, InTurn, SlotIntact, ArenaContent
  <1>12. SlotFree' BY <1>1 DEF SlotFree
  <1>13. InLine'
    <2>1. ASSUME NEW k \in 1 .. i + 1
          PROVE  ptr'[Order[k]] = stream[k].at /\ stream[k].at + Cells[Order[k]] <= arenaOff'
      <3>1. CASE k = i + 1 BY <1>0, <1>3, <1>5, <1>8, <3>1
      <3>2. CASE k \in 1 .. i
        <4>1. k \in Tensor /\ k # i + 1 BY <1>0, <3>2 DEF Tensor
        <4>2. ptr'[Order[k]] = ptr[Order[k]] BY <1>4, <1>5, <4>1
        <4>3. ptr[Order[k]] = stream[k].at /\ stream[k].at + Cells[Order[k]] <= arenaOff
          BY <1>0, <2>1, <3>2 DEF IInv, InLine
        <4>4. stream[k].at \in Nat
          <5>1. stream[k] \in Copies BY <1>0, <2>1
          <5> QED BY <5>1 DEF Copies
        <4>5. Cells[Order[k]] \in Nat BY <1>0, <1>4, <4>1, PaddedType
        <4> QED BY <1>0, <1>8, <4>2, <4>3, <4>4, <4>5
      <3> QED BY <1>0, <3>1, <3>2
    <2>2. \A k, l \in 1 .. i + 1 : k < l => stream[k].at + Cells[Order[k]] <= stream[l].at
      BY <1>0 DEF IInv, InLine
    <2>3. ASSUME NEW k \in Tensor, k > i + 1 PROVE ptr'[Order[k]] = Torn
      <3>1. k > i /\ k # i + 1 BY <1>0, <2>3 DEF Tensor
      <3>2. ptr[Order[k]] = Torn BY <2>3, <3>1 DEF IInv, InLine
      <3> QED BY <1>4, <1>5, <2>3, <3>1, <3>2
    <2>4. Done' = Done \cup {Current} /\ Current \notin Done
      <3>1. 1 .. (i + 1) = 1 .. i \cup {i + 1} BY <1>0
      <3>2. Done' = {Order[k] : k \in 1 .. (i + 1)} BY <1>1, <1>2 DEF Done
      <3>3. \A k \in 1 .. i : k \in Tensor /\ k # i + 1 BY <1>0 DEF Tensor
      <3> QED BY <1>3, <1>4, <3>1, <3>2, <3>3 DEF Done
    <2>5. PICK w : IsSum(w, Done) /\ AlignUp(arenaOff) = w[N] BY DEF IInv, InLine
    <2>6. PICK v : IsSum(v, Done \cup {Current}) /\ v[N] = w[N] + Padded(Current)
      <3>1. PICK T : T = Done OBVIOUS
      <3>2. PICK t : t = Current OBVIOUS
      <3>3. IsSum(w, T) /\ t \in Tensor /\ t \notin T BY <1>3, <2>4, <2>5, <3>1, <3>2
      <3>4. \E v : IsSum(v, T \cup {t}) /\ v[N] = w[N] + Padded(t) BY <1>0, <3>3, SumWithOne
      <3> QED BY <3>1, <3>2, <3>4
    <2>7. AlignUp(AlignUp(arenaOff) + Cells[Current]) = AlignUp(arenaOff) + Padded(Current)
      BY <1>0, <1>6, RoundingAdds DEF Padded
    <2>8. AlignUp(arenaOff)' = v[N] BY <1>1, <2>5, <2>6, <2>7 DEF AlignUp
    <2>9. IsSum(v, Done)' BY <1>2, <2>4, <2>6
    <2> QED BY <1>0, <1>1, <1>2, <2>1, <2>2, <2>3, <2>8, <2>9 DEF InLine
  <1>14. HeldPlace' BY <1>0, <1>1 DEF IInv, HeldPlace, Within
  <1> QED BY <1>9, <1>10, <1>11, <1>12, <1>13, <1>14 DEF IInv

\* What one copy brings lies within the arena that was sized by name.
LEMMA CopiesFit ==
  ASSUME Given, IInv, NEW k \in 1 .. Len(stream)
  PROVE  /\ stream[k].at \in Nat /\ Cells[Order[k]] \in Nat /\ ArenaCells \in Nat
         /\ Order[k] \in Tensor /\ k \in Tensor
         /\ stream[k].at + Cells[Order[k]] <= ArenaCells
  <1>0. /\ N \in Nat /\ i \in 0 .. N /\ layout \in Layouts /\ stream \in Seq(Copies)
        /\ arenaOff \in Nat /\ Len(stream) = (IF pc = "place" THEN i + 1 ELSE i)
        /\ pc = "place" => i < N /\ stream[i + 1].at = arenaOff
    BY DEF Given, NAssumption, IInv, TypeOK, HostPlace, Within, InLine
  <1>1. k \in Tensor /\ k \in Nat BY <1>0 DEF Tensor
  <1>2. Order[k] \in Tensor BY <1>0, <1>1, OrderIsPermutation
  <1>3. Cells[Order[k]] \in Nat /\ Padded(Order[k]) \in Nat
        /\ Cells[Order[k]] <= Padded(Order[k])
    BY <1>0, <1>2, PaddedType
  <1>4. stream[k].at \in Nat
    <2>1. stream[k] \in Copies BY <1>0
    <2> QED BY <2>1 DEF Copies
  <1>5. PICK w : IsSum(w, Done) /\ AlignUp(arenaOff) = w[N] BY DEF IInv, InLine
  <1>6. PICK e : IsSum(e, Tensor) /\ ArenaCells = e[N] BY <1>0, PlanIsSum
  <1>7. ArenaCells \in Nat /\ w[N] \in Nat BY <1>0, <1>5, <1>6 DEF IsSum
  <1>8. arenaOff <= AlignUp(arenaOff) BY <1>0, Rounding
  <1>9. CASE k <= i
    <2>1. stream[k].at + Cells[Order[k]] <= arenaOff BY <1>9 DEF IInv, InLine
    <2>2. w[N] <= e[N] BY <1>0, <1>5, <1>6, AllIsMost
    <2> QED BY SMTT(60), <1>0, <1>1, <1>2, <1>3, <1>4, <1>5, <1>6, <1>7, <1>8, <2>1, <2>2
  <1>10. CASE pc = "place" /\ k = i + 1
    <2>1. Order[k] \notin Done
      <3>1. \A m \in 1 .. i : m \in Tensor /\ m # k BY <1>0, <1>1, <1>10 DEF Tensor
      <3> QED BY <1>0, <1>1, <3>1, OrderIsPermutation DEF Done
    <2>2. PICK v : IsSum(v, Done \cup {Order[k]}) /\ v[N] = w[N] + Padded(Order[k])
      <3>1. PICK T : T = Done OBVIOUS
      <3>2. PICK t : t = Order[k] OBVIOUS
      <3>3. IsSum(w, T) /\ t \in Tensor /\ t \notin T BY <1>2, <1>5, <2>1, <3>1, <3>2
      <3>4. \E v : IsSum(v, T \cup {t}) /\ v[N] = w[N] + Padded(t) BY <1>0, <3>3, SumWithOne
      <3> QED BY <3>1, <3>2, <3>4
    <2>3. v[N] <= e[N] BY <1>0, <1>6, <2>2, AllIsMost
    <2>4. stream[k].at = arenaOff BY <1>0, <1>10
    <2> QED BY <1>0, <1>1, <1>2, <1>3, <1>5, <1>6, <1>7, <1>8, <2>2, <2>3, <2>4
  <1> QED BY <1>0, <1>1, <1>9, <1>10

\* A copy brings its own tensor and disturbs none that is there.
LEMMA TransferHolds == ASSUME Given, IInv, Transfer PROVE IInv'
  <1>0. /\ layout \in Layouts /\ stream \in Seq(Copies) /\ arrived \in Nat /\ Len(stream) \in Nat
        /\ arrived < Len(stream) /\ slot \in [Slot -> Tensor \cup {Nobody}]
        /\ arena \in [0 .. ArenaCells - 1 -> Tensor \cup {Nobody}]
    BY DEF Transfer, IInv, TypeOK
  <1> DEFINE k == arrived + 1
             copy == stream[k]
  <1>1. /\ arena' = [a \in DOMAIN arena |->
                      IF a \in copy.at .. copy.at + Cells[copy.tensor] - 1
                      THEN slot[copy.slot] ELSE arena[a]]
        /\ arrived' = k
        /\ pc' = pc /\ raw' = raw /\ slot' = slot /\ layout' = layout /\ i' = i /\ cur' = cur
        /\ stream' = stream /\ ticket' = ticket /\ arenaOff' = arenaOff /\ ptr' = ptr
        /\ held' = held
    BY DEF Transfer, hostVars
  <1>2. Cells' = Cells /\ Order' = Order /\ ArenaCells' = ArenaCells BY <1>1, LayoutFrame
  <1>3. k \in 1 .. Len(stream) /\ k \in arrived + 1 .. Len(stream) BY <1>0
  <1>4. /\ slot[copy.slot] = Order[k] /\ copy.tensor = Order[k]
        /\ copy.at \in Nat /\ Cells[Order[k]] \in Nat /\ ArenaCells \in Nat
        /\ Order[k] \in Tensor /\ copy.at + Cells[Order[k]] <= ArenaCells
    BY <1>3, CopiesFit DEF IInv, InTurn, SlotIntact
  <1> HIDE DEF k, copy
  <1>5. arena' \in [0 .. ArenaCells - 1 -> Tensor \cup {Nobody}] BY <1>0, <1>1, <1>4
  <1>6. arrived' \in 0 .. Len(stream) BY <1>1, <1>3
  <1>7. TypeOK' BY <1>1, <1>2, <1>5, <1>6 DEF IInv, TypeOK
  <1>8. HostPlace'
    <2>1. pc \notin {"gemm", "ready"} BY <1>0 DEF IInv, HostPlace
    <2>2. Current' = Current BY <1>1, <1>2 DEF Current
    <2> QED BY <1>1, <2>1, <2>2 DEF IInv, HostPlace
  <1>9. InTurn' BY <1>1, <1>2 DEF IInv, InTurn
  <1>10. SlotFree' /\ SlotIntact'
    <2>1. \A l \in arrived' + 1 .. Len(stream) : l \in arrived + 1 .. Len(stream)
      BY <1>0, <1>1 DEF k
    <2> QED BY <1>1, <2>1 DEF IInv, SlotFree, SlotIntact
  <1>11. InLine' BY <1>1, InLineStays DEF IInv
  <1>12. ArenaContent'
    <2> SUFFICES ASSUME NEW l \in 1 .. k, NEW a \in stream[l].at .. stream[l].at + Cells[Order[l]] - 1
                 PROVE  arena'[a] = Order[l]
      BY <1>1, <1>2 DEF ArenaContent
    <2>1. l \in 1 .. Len(stream) BY <1>0, <1>3
    <2>2. /\ stream[l].at \in Nat /\ Cells[Order[l]] \in Nat
          /\ stream[l].at + Cells[Order[l]] <= ArenaCells
      BY <2>1, CopiesFit
    <2>3. a \in DOMAIN arena
      <3>1. a \in Int /\ a >= stream[l].at /\ a < stream[l].at + Cells[Order[l]] BY <2>2
      <3>2. a \in 0 .. ArenaCells - 1 BY <2>2, <3>1, <1>4
      <3> QED BY <1>0, <3>2
    <2>4. CASE l = k
      BY <1>1, <1>4, <2>3, <2>4 DEF copy
    <2>5. CASE l < k
      <3>1. l \in 1 .. arrived BY <1>0, <2>5 DEF k
      <3>2. arena[a] = Order[l] BY <3>1 DEF IInv, ArenaContent
      <3>3. stream[l].at + Cells[Order[l]] <= copy.at
        BY <1>3, <2>1, <2>5 DEF IInv, InLine, copy
      <3>4. ~(a \in copy.at .. copy.at + Cells[copy.tensor] - 1)
        BY <1>4, <2>2, <3>3
      <3> QED BY <1>1, <2>3, <3>2, <3>4
    <2> QED BY <1>3, <2>1, <2>4, <2>5
  <1>13. HeldPlace' BY <1>1 DEF IInv, HeldPlace
  <1> QED BY <1>7, <1>8, <1>9, <1>10, <1>11, <1>12, <1>13 DEF IInv

\* Nothing happens.
LEMMA StutterHolds == ASSUME IInv, UNCHANGED vars PROVE IInv'
  <1>1. /\ pc' = pc /\ held' = held /\ layout' = layout /\ i' = i /\ cur' = cur
        /\ stream' = stream /\ ticket' = ticket /\ arenaOff' = arenaOff /\ ptr' = ptr
        /\ raw' = raw /\ slot' = slot /\ arena' = arena /\ arrived' = arrived
    BY DEF vars, dataVars, hostVars
  <1>2. Cells' = Cells /\ Order' = Order /\ ArenaCells' = ArenaCells BY <1>1, LayoutFrame
  <1>3. Current' = Current BY <1>1, <1>2 DEF Current
  <1>4. TypeOK' /\ HostPlace' BY <1>1, <1>2, <1>3 DEF IInv, TypeOK, HostPlace
  <1>5. InTurn' /\ SlotFree' /\ SlotIntact' /\ ArenaContent' /\ HeldPlace'
    BY <1>1, <1>2 DEF IInv, InTurn, SlotFree, SlotIntact, ArenaContent, HeldPlace
  <1>6. InLine' BY <1>1, InLineStays DEF IInv
  <1> QED BY <1>4, <1>5, <1>6 DEF IInv

\* Every step keeps the invariant.
LEMMA StepHolds == ASSUME Given, IInv, [Next \/ Ended]_vars PROVE IInv'
  <1>1. CASE Quiet BY <1>1, QuietHolds
  <1>2. CASE ReadPart \/ ReadTensor BY <1>2, ReadHolds
  <1>3. CASE FillSlot BY <1>3, FillHolds
  <1>4. CASE QueueCopy BY <1>4, QueueHolds
  <1>5. CASE PlaceTensor BY <1>5, PlaceHolds
  <1>6. CASE Transfer BY <1>6, TransferHolds
  <1>7. CASE UNCHANGED vars BY <1>7, StutterHolds
  <1> QED BY <1>1, <1>2, <1>3, <1>4, <1>5, <1>6, <1>7 DEF Next, Host, Ended, Quiet

-----------------------------------------------------------------------------
(* Theorems. *)

\* The inductive invariant of the shard loader holds in every reachable state.
THEOREM Invariance == ASSUME Given PROVE Spec => []IInv
  <1>1. Init => IInv BY InitInvariant
  <1>2. IInv /\ [Next \/ Ended]_vars => IInv' BY StepHolds
  <1> QED BY <1>1, <1>2, PTL DEF Spec

\* The variables of the shard loader keep their types, the arena its size.
THEOREM TypeCorrect == ASSUME Given PROVE Spec => []TypeOK
  <1>1. IInv => TypeOK BY DEF IInv
  <1> QED BY <1>1, Invariance, PTL

\* A queued copy reads the tensor it was queued for, with two slots for any number
\* of tensors.
THEOREM SlotsStayIntact == ASSUME Given PROVE Spec => []SlotIntact
  <1>1. IInv => SlotIntact BY DEF IInv
  <1> QED BY <1>1, Invariance, PTL

\* A tensor that has its pointer is one of those behind pass 2.
LEMMA PlacedIsDone ==
  ASSUME Given, IInv, NEW t \in Placed
  PROVE  \E k \in 1 .. i : /\ k \in 1 .. Len(stream) /\ t = Order[k] /\ ptr[t] = stream[k].at
  <1>0. /\ N \in Nat /\ i \in 0 .. N /\ layout \in Layouts /\ Len(stream) \in Nat
        /\ i <= Len(stream)
    BY DEF Given, NAssumption, IInv, TypeOK, HostPlace
  <1>1. t \in Tensor /\ ptr[t] # Torn BY DEF Placed
  <1>2. PICK k \in Tensor : Order[k] = t BY <1>0, <1>1, OrderIsPermutation
  <1>3. k <= i BY <1>0, <1>1, <1>2 DEF IInv, InLine, Tensor
  <1>4. k \in 1 .. i /\ k \in 1 .. Len(stream) BY <1>0, <1>2, <1>3 DEF Tensor
  <1> QED BY <1>2, <1>3, <1>4 DEF IInv, InLine

\* No tensor leaves the arena that was sized by name, and no two share a cell.
THEOREM RegionsAlwaysFit == ASSUME Given PROVE Spec => []RegionsFit
  <1>1. ASSUME IInv PROVE RegionsFit
    <2>1. ASSUME NEW t \in Placed PROVE Region(t) \subseteq 0 .. ArenaCells - 1
      <3>1. PICK k \in 1 .. i : k \in 1 .. Len(stream) /\ t = Order[k] /\ ptr[t] = stream[k].at
        BY <1>1, PlacedIsDone
      <3>2. /\ stream[k].at \in Nat /\ Cells[Order[k]] \in Nat /\ ArenaCells \in Nat
            /\ stream[k].at + Cells[Order[k]] <= ArenaCells
        BY <1>1, <3>1, CopiesFit
      <3> QED BY <3>1, <3>2 DEF Region
    <2>2. ASSUME NEW t \in Placed, NEW u \in Placed, t # u PROVE Region(t) \cap Region(u) = {}
      <3>1. PICK k \in 1 .. i : k \in 1 .. Len(stream) /\ t = Order[k] /\ ptr[t] = stream[k].at
        BY <1>1, PlacedIsDone
      <3>2. PICK l \in 1 .. i : l \in 1 .. Len(stream) /\ u = Order[l] /\ ptr[u] = stream[l].at
        BY <1>1, PlacedIsDone
      <3>3. /\ stream[k].at \in Nat /\ Cells[t] \in Nat
            /\ stream[l].at \in Nat /\ Cells[u] \in Nat
        BY <1>1, <3>1, <3>2, CopiesFit
      <3>4. k < l => stream[k].at + Cells[t] <= stream[l].at
        BY <1>1, <3>1, <3>2 DEF IInv, InLine
      <3>5. l < k => stream[l].at + Cells[u] <= stream[k].at
        BY <1>1, <3>1, <3>2 DEF IInv, InLine
      <3>6. k # l /\ k \in Int /\ l \in Int BY <2>2, <3>1, <3>2
      <3> SUFFICES ASSUME NEW a \in Region(t), a \in Region(u) PROVE FALSE OBVIOUS
      <3>7. /\ a \in stream[k].at .. stream[k].at + Cells[t] - 1
            /\ a \in stream[l].at .. stream[l].at + Cells[u] - 1
        BY <3>1, <3>2 DEF Region
      <3> QED BY <3>3, <3>4, <3>5, <3>6, <3>7
    <2> QED BY <2>1, <2>2 DEF RegionsFit
  <1> QED BY <1>1, Invariance, PTL

\* HD_OK comes with every tensor at its pointer and nothing held but the store.
THEOREM CompleteWhenReady == ASSUME Given PROVE Spec => []ReadyIsComplete
  <1>1. ASSUME IInv, pc = "ready"
        PROVE  Placed = Tensor /\ (\A t \in Tensor : \A a \in Region(t) : arena[a] = t) /\ held = Store
    <2>0. /\ N \in Nat /\ i = N /\ Len(stream) = N /\ arrived = N /\ layout \in Layouts
      BY <1>1 DEF Given, NAssumption, IInv, TypeOK, HostPlace
    <2>1. ASSUME NEW t \in Tensor
          PROVE  ptr[t] # Torn /\ \A a \in Region(t) : arena[a] = t
      <3>1. PICK k \in Tensor : Order[k] = t BY <2>0, <2>1, OrderIsPermutation
      <3>2. k \in 1 .. Len(stream) /\ k <= i /\ k \in 1 .. arrived BY <2>0 DEF Tensor
      <3>3. ptr[t] = stream[k].at BY <1>1, <3>1, <3>2 DEF IInv, InLine
      <3>4. stream[k].at \in Nat BY <1>1, <3>2, CopiesFit
      <3>5. \A a \in stream[k].at .. stream[k].at + Cells[Order[k]] - 1 : arena[a] = Order[k]
        BY <1>1, <3>2 DEF IInv, ArenaContent
      <3> QED BY <3>1, <3>3, <3>4, <3>5 DEF Region, Torn
    <2>2. held = Store BY <1>1 DEF IInv, HeldPlace
    <2> QED BY <2>1, <2>2 DEF Placed
  <1>2. IInv => ReadyIsComplete BY <1>1 DEF ReadyIsComplete
  <1> QED BY <1>2, Invariance, PTL

-----------------------------------------------------------------------------
(* The promise. *)

\* The tensors whose copies have been carried out.
Arrivals == {Order[k] : k \in 1 .. arrived}

\* The two variables of the promise, as the loader's state gives them.
Memory == [t \in Tensor |->
            IF pc \in {"failed", "freed"} \/ ~\E k \in 1 .. arrived : stream[k].tensor = t
            THEN "missing"
            ELSE IF \E k \in 1 .. arrived :
                      /\ stream[k].tensor = t
                      /\ \A a \in stream[k].at .. stream[k].at + Cells[t] - 1 : arena[a] = t
                 THEN "loaded" ELSE "wrong"]

Outcome == IF pc \in {"ready", "failed", "freed"} THEN pc ELSE "loading"

Progress == [t \in Tensor |->
              IF pc \in {"failed", "freed"} \/ t \notin Arrivals THEN "missing" ELSE "loaded"]

\* What has arrived is loaded: nothing in the arena is ever wrong.
LEMMA MemoryIsProgress == ASSUME IInv PROVE Memory = Progress
  <1>0. stream \in Seq(Copies) /\ arrived \in 0 .. Len(stream) /\ Len(stream) \in Nat
    BY DEF IInv, TypeOK
  <1>1. \A k \in 1 .. arrived : stream[k].tensor = Order[k]
    BY <1>0 DEF IInv, InTurn
  <1>2. ASSUME NEW t \in Tensor
        PROVE  /\ t \in Arrivals <=> \E k \in 1 .. arrived : stream[k].tensor = t
               /\ t \in Arrivals =>
                    \E k \in 1 .. arrived :
                      /\ stream[k].tensor = t
                      /\ \A a \in stream[k].at .. stream[k].at + Cells[t] - 1 : arena[a] = t
    BY <1>1 DEF Arrivals, IInv, ArenaContent
  <1> QED BY <1>2 DEF Memory, Progress

\* When every copy is done, every tensor is there.
LEMMA AllArrived ==
  ASSUME Given, IInv, pc \in {"gemm", "ready"}
  PROVE  Arrivals = Tensor
  <1>1. arrived = N /\ layout \in Layouts BY DEF IInv, HostPlace, TypeOK
  <1> QED BY <1>1, OrderIsPermutation DEF Arrivals, Tensor

\* The steps of the promise in these terms.
LEMMA PromiseArrives ==
  ASSUME NEW t \in Tensor, Outcome = "loading", Memory[t] = "missing",
         Memory' = [Memory EXCEPT ![t] = "loaded"], Outcome' = Outcome
  PROVE  Promise!Next
  <1>1. Promise!Arrive(t) BY DEF Promise!Arrive, Memory, Outcome
  <1> QED BY Zenon, <1>1 DEF Promise!Next

LEMMA PromiseHandsOut ==
  ASSUME Outcome = "loading", \A t \in Tensor : Memory[t] = "loaded",
         Outcome' = "ready", Memory' = Memory
  PROVE  Promise!Next
  <1>1. Promise!HandOut BY ZenonT(60) DEF Promise!HandOut, Memory, Outcome
  <1> QED BY Zenon, <1>1 DEF Promise!Next

LEMMA PromiseFails ==
  ASSUME Outcome = "loading", Outcome' = "failed", Memory' = [t \in Tensor |-> "missing"]
  PROVE  Promise!Next
  <1>1. Promise!Fail BY ZenonT(60) DEF Promise!Fail, Memory, Outcome
  <1> QED BY Zenon, <1>1 DEF Promise!Next

LEMMA PromiseFrees ==
  ASSUME Outcome = "ready", Outcome' = "freed", Memory' = [t \in Tensor |-> "missing"]
  PROVE  Promise!Next
  <1>1. Promise!Free BY ZenonT(60) DEF Promise!Free, Memory, Outcome
  <1> QED BY Zenon, <1>1 DEF Promise!Next

\* Every step of the shard loader is a step of the promise or a stutter.
LEMMA PromiseStep ==
  ASSUME Given, IInv, Memory = Progress, Memory' = Progress', [Next \/ Ended]_vars
  PROVE  [Promise!Next]_(Promise!vars)
  <1>0. Memory = Progress /\ Memory' = Progress' OBVIOUS
  <1>m. Promise!vars = <<Memory, Outcome>> BY DEF Promise!vars, Memory, Outcome
  <1>v. Promise!vars' = <<Memory', Outcome'>> BY DEF Promise!vars, Memory, Outcome
  <1>1. CASE \/ AllocateTable \/ AllocateArena \/ AllocatePinned \/ AllocateStream \/ OpenShards
             \/ SortTensors \/ WaitForSlot \/ ReadPart \/ ReadTensor \/ FillSlot \/ QueueCopy
             \/ PlaceTensor \/ ReleaseStaging \/ DrainStream \/ Unwind
    <2>1. /\ arrived' = arrived /\ layout' = layout
          /\ pc \notin {"ready", "failed", "freed"} /\ pc' \notin {"ready", "freed"}
      BY ZenonT(60), <1>1 DEF AllocateTable, AllocateArena, AllocatePinned, AllocateStream,
         OpenShards, SortTensors, WaitForSlot, ReadPart, ReadTensor, FillSlot, QueueCopy,
         PlaceTensor, ReleaseStaging, DrainStream, Unwind, Acquire, Fails, Goto, dataVars, hostVars
    <2>2. Arrivals' = Arrivals BY <2>1, LayoutFrame DEF Arrivals
    <2>3. CASE pc' = "failed"
      <3>1. Progress' = [t \in Tensor |-> "missing"] BY <2>3 DEF Progress
      <3>2. Outcome = "loading" /\ Outcome' = "failed" BY <2>1, <2>3 DEF Outcome
      <3> QED BY <1>0, PromiseFails, <3>1, <3>2
    <2>4. CASE pc' # "failed"
      <3>1. Progress' = Progress BY <2>1, <2>2, <2>4 DEF Progress
      <3>2. Outcome' = Outcome BY <2>1, <2>4 DEF Outcome
      <3> QED BY <1>0, <1>m, <1>v, <3>1, <3>2
    <2> QED BY <2>3, <2>4
  <1>2. CASE InitGemm
    <2>1. arrived' = arrived /\ layout' = layout /\ pc = "gemm" /\ pc' \in {"ready", "unwind"}
      BY <1>2 DEF InitGemm, Acquire, Fails, Goto, dataVars, hostVars
    <2>2. Arrivals' = Arrivals BY <2>1, LayoutFrame DEF Arrivals
    <2>3. Progress' = Progress BY <2>1, <2>2 DEF Progress
    <2>4. CASE pc' = "ready"
      <3>1. \A t \in Tensor : Progress[t] = "loaded" BY <2>1, AllArrived DEF Progress
      <3>2. Outcome = "loading" /\ Outcome' = "ready" BY <2>1, <2>4 DEF Outcome
      <3> QED BY <1>0, PromiseHandsOut, <2>3, <3>1, <3>2
    <2>5. CASE pc' = "unwind"
      <3>1. Outcome' = Outcome BY <2>1, <2>5 DEF Outcome
      <3> QED BY <1>0, <1>m, <1>v, <2>3, <3>1
    <2> QED BY <2>1, <2>4, <2>5
  <1>3. CASE FreeStore
    <2>1. pc = "ready" /\ pc' = "freed" BY <1>3 DEF FreeStore, Goto
    <2>2. Progress' = [t \in Tensor |-> "missing"] BY <2>1 DEF Progress
    <2>3. Outcome = "ready" /\ Outcome' = "freed" BY <2>1 DEF Outcome
    <2> QED BY <1>0, PromiseFrees, <2>2, <2>3
  <1>4. CASE Transfer
    <2>1. /\ arrived' = arrived + 1 /\ layout' = layout /\ pc' = pc /\ arrived < Len(stream)
          /\ pc \notin {"failed", "freed"}
      BY <1>4 DEF Transfer, hostVars
    <2>2. N \in Nat /\ arrived \in Nat /\ Len(stream) \in Nat /\ layout \in Layouts
      BY DEF Given, NAssumption, IInv, TypeOK
    <2>3. arrived + 1 \in 1 .. Len(stream) BY <2>1, <2>2
    <2>4. PICK t : t = Order[arrived + 1] OBVIOUS
    <2>5. t \in Tensor /\ arrived + 1 \in Tensor BY <2>3, <2>4, CopiesFit
    <2>6. t \notin Arrivals
      <3>1. \A k \in 1 .. arrived : k \in Tensor /\ k # arrived + 1
        BY <2>2, <2>5 DEF Tensor
      <3> QED BY <2>2, <2>4, <2>5, <3>1, OrderIsPermutation DEF Arrivals
    <2>7. Arrivals' = Arrivals \cup {t}
      <3>1. 1 .. (arrived + 1) = 1 .. arrived \cup {arrived + 1} BY <2>2
      <3>2. Arrivals' = {Order[k] : k \in 1 .. (arrived + 1)}
        BY <2>1, LayoutFrame DEF Arrivals
      <3> QED BY <2>4, <3>1, <3>2 DEF Arrivals
    <2>8. Progress' = [Progress EXCEPT ![t] = "loaded"] /\ Progress[t] = "missing"
      BY <2>1, <2>5, <2>6, <2>7 DEF Progress
    <2>9. pc # "ready" BY <2>1 DEF IInv, HostPlace
    <2>10. Outcome = "loading" /\ Outcome' = Outcome BY <2>1, <2>9 DEF Outcome
    <2> QED BY <1>0, PromiseArrives, <2>5, <2>8, <2>10
  <1>5. CASE Ended \/ UNCHANGED vars
    <2>1. /\ pc' = pc /\ arrived' = arrived /\ layout' = layout
      BY <1>5 DEF Ended, vars, dataVars, hostVars
    <2>2. Arrivals' = Arrivals BY <2>1, LayoutFrame DEF Arrivals
    <2>3. Progress' = Progress /\ Outcome' = Outcome BY <2>1, <2>2 DEF Progress, Outcome
    <2> QED BY <1>0, <1>m, <1>v, <2>3
  <1> QED BY <1>1, <1>2, <1>3, <1>4, <1>5 DEF Next, Host

\* The shard loader implements the promise: tensors arrive one by one, each
\* whole and its own, and the store is handed out complete or not at all.
THEOREM LoaderKeepsPromise == ASSUME Given PROVE Spec => ImplementsIngest
  <1>1. Init => Promise!Init
    <2> SUFFICES ASSUME Init PROVE Promise!Init OBVIOUS
    <2>1. pc = "table" /\ arrived = 0 BY DEF Init
    <2> QED BY <2>1 DEF Promise!Init
  <1>2. IInv => Memory = Progress BY MemoryIsProgress
  <1>3. ASSUME IInv, Memory = Progress, (Memory = Progress)', [Next \/ Ended]_vars
        PROVE  [Promise!Next]_(Promise!vars)
    BY <1>3, PromiseStep
  <1> QED BY <1>1, <1>2, <1>3, Invariance, PTL DEF Spec, ImplementsIngest, Promise!Spec
=============================================================================
