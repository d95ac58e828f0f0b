-------------------------- MODULE PromptPath_proofs --------------------------
(***************************************************************************)
(* Proofs about PromptPath, for any captions, any table of merges in which *)
(* each makes a token of its own, and any number and any grids of the      *)
(* references.                                                             *)
(*                                                                         *)
(* First the tokens: induction for recursive functions, the merges, and    *)
(* EncodingIsExact.  Then the rows: how many there are (ExpansionFits),    *)
(* where those of the references and the blocks begin, and which place     *)
(* each has (RowsAreWhole, PlacesDistinct).                                *)
(***************************************************************************)
EXTENDS PromptPath, SequenceTheorems, FiniteSetTheorems, TLAPS

-----------------------------------------------------------------------------
(* Induction and recursion. *)

\* A set of naturals that is not empty has a smallest member.
LEMMA Smallest ==
  ASSUME NEW T, T \subseteq Nat, T # {}
  PROVE  \E x \in T : \A y \in T : x <= y
  <1> DEFINE L == OpToRel(<, Nat)
  <1>1. L = {ss \in Nat \X Nat : ss[1] < ss[2]} BY DEF OpToRel
  <1>2. IsWellFoundedOn(L, Nat) BY NatLessThanWellFounded
  <1> HIDE DEF L
  <1>3. PICK x \in T : \A y \in T : ~ (<<y, x>> \in L) BY <1>2, WFMin
  <1>4. ASSUME NEW y \in T PROVE x <= y
    <2>1. x \in Nat /\ y \in Nat BY <1>3, <1>4
    <2>2. <<y, x>> \in Nat \X Nat BY <2>1
    <2>3. ~(y < x) BY <1>1, <1>3, <2>2
    <2> QED BY <2>1, <2>3
  <1> QED BY <1>3, <1>4

\* A set with zero and with the successor of each of its naturals has them all.
LEMMA Induction ==
  ASSUME NEW S, 0 \in S, \A n \in Nat : n \in S => n + 1 \in S
  PROVE  Nat \subseteq S
  <1> SUFFICES ASSUME Nat \ S # {} PROVE FALSE OBVIOUS
  <1>1. PICK x \in Nat \ S : \A y \in Nat \ S : x <= y BY Smallest
  <1>2. x # 0 OBVIOUS
  <1>3. PICK m \in Nat : m + 1 = x
    <2>1. x - 1 \in Nat /\ (x - 1) + 1 = x BY <1>2
    <2> QED BY <2>1
  <1>4. m \notin S BY <1>3
  <1>5. x <= m BY <1>1, <1>4
  <1> QED BY <1>3, <1>5

\* The same as far as n.
LEMMA UpTo ==
  ASSUME NEW S, NEW n \in Nat, 0 \in S, \A i \in 1 .. n : i - 1 \in S => i \in S
  PROVE  0 .. n \subseteq S
  <1> DEFINE T == {i \in Nat : i <= n => i \in S}
  <1>1. 0 \in T OBVIOUS
  <1>2. ASSUME NEW i \in Nat, i \in T PROVE i + 1 \in T
    <2> SUFFICES ASSUME i + 1 <= n PROVE i + 1 \in S OBVIOUS
    <2>1. i + 1 \in 1 .. n /\ (i + 1) - 1 = i /\ i <= n OBVIOUS
    <2> QED BY <1>2, <2>1
  <1> HIDE DEF T
  <1>3. Nat \subseteq T BY <1>1, <1>2, Induction
  <1> QED BY <1>3 DEF T

\* g begins with a, and each step makes its value from the one before.
Follows(g, a, step, n) ==
  /\ g = [i \in 0 .. n |-> g[i]]
  /\ g[0] = a
  /\ \A i \in 1 .. n : g[i] = step[i][g[i - 1]]

\* There is such a sequence, whatever the steps are.
LEMMA RecursionExists ==
  ASSUME NEW a, NEW step, NEW n \in Nat
  PROVE  \E g : Follows(g, a, step, n)
  <1> DEFINE S == {k \in Nat : \E g : Follows(g, a, step, k)}
  <1>1. 0 \in S
    <2> DEFINE g == [i \in 0 .. 0 |-> a]
    <2>1. g[0] = a /\ g = [i \in 0 .. 0 |-> g[i]] OBVIOUS
    <2>2. Follows(g, a, step, 0) BY <2>1 DEF Follows
    <2> QED BY <2>2
  <1>2. ASSUME NEW k \in Nat, k \in S PROVE k + 1 \in S
    <2>1. PICK g : Follows(g, a, step, k) BY <1>2
    <2> DEFINE next == step[k + 1][g[k]]
               h == [i \in 0 .. k + 1 |-> IF i = k + 1 THEN next ELSE g[i]]
    <2> HIDE DEF next
    <2>2. h[k + 1] = next /\ \A i \in 0 .. k : h[i] = g[i] OBVIOUS
    <2>3. h = [i \in 0 .. k + 1 |-> h[i]] OBVIOUS
    <2> HIDE DEF h
    <2>4. ASSUME NEW i \in 1 .. k + 1 PROVE h[i] = step[i][h[i - 1]]
      <3>1. CASE i = k + 1
        <4>1. i - 1 = k /\ k \in 0 .. k BY <3>1
        <4>2. h[i - 1] = g[k] /\ h[i] = next BY <2>2, <3>1, <4>1
        <4> QED BY <3>1, <4>2 DEF next
      <3>2. CASE i \in 1 .. k
        <4>1. i - 1 \in 0 .. k /\ i \in 0 .. k BY <3>2
        <4>2. g[i] = step[i][g[i - 1]] BY <2>1, <3>2 DEF Follows
        <4>3. h[i] = g[i] /\ h[i - 1] = g[i - 1] BY <2>2, <4>1
        <4> QED BY <4>2, <4>3
      <3> QED BY <2>4, <3>1, <3>2
    <2>5. h[0] = a BY <2>1, <2>2 DEF Follows
    <2>6. Follows(h, a, step, k + 1) BY <2>3, <2>4, <2>5 DEF Follows
    <2> QED BY <2>6
  <1> HIDE DEF S
  <1>3. Nat \subseteq S BY <1>1, <1>2, Induction
  <1> QED BY <1>3 DEF S

\* The sum of the first values, one by one.
LEMMA TotalFollows ==
  ASSUME NEW f, NEW k \in Nat, \A i \in 1 .. k : f[i] \in Nat
  PROVE  /\ Total(f, 0) = 0
         /\ \A i \in 0 .. k : Total(f, i) \in Nat
         /\ \A i \in 1 .. k : Total(f, i) = Total(f, i - 1) + f[i]
  <1> DEFINE step == [i \in 1 .. k |-> [x \in Nat |-> x + f[i]]]
  <1>1. PICK g : Follows(g, 0, step, k) BY RecursionExists
  <1> DEFINE S == {i \in 0 .. k : g[i] \in Nat}
  <1>2. 0 .. k \subseteq S
    <2>1. 0 \in S BY <1>1 DEF Follows
    <2>2. ASSUME NEW i \in 1 .. k, i - 1 \in S PROVE i \in S
      <3>1. g[i] = step[i][g[i - 1]] BY <1>1 DEF Follows
      <3>2. g[i] = g[i - 1] + f[i] BY <2>2, <3>1
      <3> QED BY <2>2, <3>2
    <2> HIDE DEF S
    <2> QED BY <2>1, <2>2, UpTo
  <1>3. \A i \in 1 .. k : g[i] = g[i - 1] + f[i]
    <2> SUFFICES ASSUME NEW i \in 1 .. k PROVE g[i] = g[i - 1] + f[i] OBVIOUS
    <2>1. g[i] = step[i][g[i - 1]] BY <1>1 DEF Follows
    <2>2. i - 1 \in 0 .. k OBVIOUS
    <2>3. g[i - 1] \in Nat BY <1>2, <2>2
    <2> QED BY <2>1, <2>3
  <1>4. \A i \in 0 .. k : g[i] \in Nat BY <1>2
  <1>5. g[0] = 0 BY <1>1 DEF Follows
  <1> HIDE DEF step, S
  <1>6. ASSUME NEW m \in 0 .. k PROVE Total(f, m) = g[m]
    <2> DEFINE F(h) == h = [n \in 0 .. m |-> IF n = 0 THEN 0 ELSE h[n - 1] + f[n]]
               sum == CHOOSE h : F(h)
               d == [n \in 0 .. m |-> g[n]]
    <2>1. F(d)
      <3>1. ASSUME NEW n \in 0 .. m, n # 0 PROVE d[n] = d[n - 1] + f[n]
        <4>1. n \in 1 .. k /\ n - 1 \in 0 .. m BY <3>1
        <4> QED BY <1>3, <4>1
      <3>2. d[0] = 0 BY <1>5
      <3>3. d = [n \in 0 .. m |-> d[n]] OBVIOUS
      <3> HIDE DEF d
      <3> QED BY <3>1, <3>2, <3>3
    <2> HIDE DEF d, F
    <2>2. F(sum) BY <2>1
    <2> HIDE DEF sum
    <2>3. sum[0] = 0 BY <2>2 DEF F
    <2> DEFINE T == {n \in 0 .. m : sum[n] = g[n]}
    <2>4. 0 \in T BY <1>5, <2>3
    <2>5. ASSUME NEW n \in 1 .. m, n - 1 \in T PROVE n \in T
      <3>1. n \in 1 .. k /\ n \in 0 .. m /\ n # 0 OBVIOUS
      <3>2. sum[n] = sum[n - 1] + f[n] BY <2>2, <3>1 DEF F
      <3> QED BY <1>3, <2>5, <3>1, <3>2
    <2> HIDE DEF T
    <2>6. 0 .. m \subseteq T BY <2>4, <2>5, UpTo
    <2>7. sum[m] = g[m] BY <2>6 DEF T
    <2>8. Total(f, m) = sum[m] BY DEF Total, sum, F
    <2> QED BY <2>7, <2>8
  <1> QED
    <2>1. ASSUME NEW i \in 1 .. k PROVE Total(f, i) = Total(f, i - 1) + f[i]
      <3>1. i \in 0 .. k /\ i - 1 \in 0 .. k OBVIOUS
      <3> QED BY <1>3, <1>6, <3>1
    <2> QED BY <1>4, <1>5, <1>6, <2>1
-----------------------------------------------------------------------------
(* Sequences. *)

\* g holds what FlattenSeq has put together after each part.
Flattens(g, s, S) ==
  /\ g[0] = <<>>
  /\ \A i \in 0 .. Len(s) : g[i] \in Seq(S)
  /\ \A i \in 1 .. Len(s) : g[i] = g[i - 1] \o s[i]
  /\ FlattenSeq(s) = g[Len(s)]

\* FlattenSeq, element by element.
LEMMA FlattenFollows ==
  ASSUME NEW S, NEW s \in Seq(Seq(S))
  PROVE  \E g : Flattens(g, s, S)
  <1> DEFINE n == Len(s)
             step == [i \in 1 .. n |-> [x \in Seq(S) |-> x \o s[i]]]
  <1>0. n \in Nat /\ \A i \in 1 .. n : s[i] \in Seq(S) OBVIOUS
  <1>00. ASSUME NEW i \in 1 .. n, NEW x \in Seq(S) PROVE step[i][x] = x \o s[i] OBVIOUS
  <1> HIDE DEF n, step
  <1>1. PICK g : Follows(g, <<>>, step, n) BY <1>0, RecursionExists
  <1> DEFINE P == {i \in 0 .. n : g[i] \in Seq(S)}
  <1>2. 0 .. n \subseteq P
    <2>1. 0 \in P
      <3>1. g[0] = <<>> /\ 0 \in 0 .. n BY <1>0, <1>1 DEF Follows
      <3>2. <<>> \in Seq(S) OBVIOUS
      <3> QED BY <3>1, <3>2
    <2>2. ASSUME NEW i \in 1 .. n, i - 1 \in P PROVE i \in P
      <3>1. g[i] = step[i][g[i - 1]] BY <1>1 DEF Follows
      <3>2. g[i] = g[i - 1] \o s[i] BY <1>00, <2>2, <3>1
      <3>3. g[i] \in Seq(S) BY <1>0, <2>2, <3>2
      <3>4. i \in 0 .. n BY <1>0
      <3> QED BY <3>3, <3>4
    <2> HIDE DEF P
    <2> QED BY <1>0, <2>1, <2>2, UpTo
  <1>3. \A i \in 0 .. n : g[i] \in Seq(S) BY <1>2
  <1>4. ASSUME NEW i \in 1 .. n PROVE g[i] = g[i - 1] \o s[i]
    <2>1. g[i] = step[i][g[i - 1]] BY <1>1 DEF Follows
    <2>2. i - 1 \in 0 .. n BY <1>0
    <2> QED BY <1>00, <1>3, <2>1, <2>2
  <1>5. g[0] = <<>> BY <1>1 DEF Follows
  <1> HIDE DEF P
  <1>6. FlattenSeq(s) = g[n]
    <2>1. CASE n = 0
      <3>1. s = <<>> BY <2>1 DEF n
      <3>2. FlattenSeq(s) = s BY <2>1 DEF FlattenSeq, n
      <3> QED BY <1>5, <2>1, <3>1, <3>2
    <2>2. CASE n > 0
      <3> DEFINE F(h) == h = [i \in 1 .. n |-> IF i = 1 THEN s[i] ELSE h[i - 1] \o s[i]]
                 flatten == CHOOSE h : F(h)
                 d == [i \in 1 .. n |-> g[i]]
      <3>1. F(d)
        <4>1. ASSUME NEW i \in 1 .. n, i # 1 PROVE d[i] = d[i - 1] \o s[i]
          <5>1. i - 1 \in 1 .. n BY <1>0, <4>1
          <5> QED BY <1>4, <5>1
        <4>2. d[1] = s[1]
          <5>1. 1 \in 1 .. n /\ 1 - 1 = 0 BY <1>0, <2>2
          <5>2. g[1] = g[0] \o s[1] BY <1>4, <5>1
          <5>3. s[1] \in Seq(S) BY <1>0, <5>1
          <5> QED BY <1>5, <5>1, <5>2, <5>3
        <4>3. d = [i \in 1 .. n |-> d[i]] OBVIOUS
        <4> HIDE DEF d
        <4> QED BY <4>1, <4>2, <4>3
      <3> HIDE DEF d, F
      <3>2. F(flatten) BY <3>1
      <3> HIDE DEF flatten
      <3> DEFINE T == {i \in 0 .. n : i > 0 => flatten[i] = g[i]}
      <3>3. 0 \in T BY <1>0
      <3>4. ASSUME NEW i \in 1 .. n, i - 1 \in T PROVE i \in T
        <4>1. flatten[i] = IF i = 1 THEN s[i] ELSE flatten[i - 1] \o s[i] BY <3>2 DEF F
        <4>2. g[i] = g[i - 1] \o s[i] BY <1>4
        <4>3. CASE i = 1
          <5>1. s[1] \in Seq(S) /\ 1 \in 0 .. n /\ 1 - 1 = 0 BY <1>0, <4>3
          <5>2. <<>> \o s[1] = s[1] BY <5>1
          <5>3. flatten[1] = g[1] BY <1>5, <4>1, <4>2, <4>3, <5>1, <5>2
          <5> QED BY <4>3, <5>1, <5>3
        <4>4. CASE i # 1
          <5>1. i - 1 > 0 /\ i \in 0 .. n BY <1>0, <4>4
          <5>2. flatten[i - 1] = g[i - 1] BY <3>4, <5>1
          <5>3. flatten[i] = g[i] BY <4>1, <4>2, <4>4, <5>2
          <5> QED BY <5>1, <5>3
        <4> QED BY <4>3, <4>4
      <3> HIDE DEF T
      <3>5. 0 .. n \subseteq T BY <1>0, <3>3, <3>4, UpTo
      <3>6. n \in 0 .. n BY <1>0
      <3>7. flatten[n] = g[n] BY <2>2, <3>5, <3>6 DEF T
      <3>8. FlattenSeq(s) = flatten[n] BY <2>2 DEF FlattenSeq, flatten, F, n
      <3> QED BY <3>7, <3>8
    <2> QED BY <1>0, <2>1, <2>2
  <1> QED BY <1>3, <1>4, <1>5, <1>6 DEF Flattens, n

\* Parts put together in two groups are the same symbols.
LEMMA FlattenConcat ==
  ASSUME NEW S, NEW s \in Seq(Seq(S)), NEW t \in Seq(Seq(S))
  PROVE  /\ FlattenSeq(s) \in Seq(S)
         /\ FlattenSeq(s \o t) = FlattenSeq(s) \o FlattenSeq(t)
  <1> DEFINE m == Len(s)
             n == Len(t)
             u == s \o t
  <1>1. /\ m \in Nat /\ n \in Nat /\ u \in Seq(Seq(S)) /\ Len(u) = m + n
        /\ \A i \in 1 .. m : u[i] = s[i]
        /\ \A i \in 1 .. n : u[m + i] = t[i] /\ t[i] \in Seq(S)
    OBVIOUS
  <1>2. PICK g : Flattens(g, s, S) BY FlattenFollows
  <1>3. PICK h : Flattens(h, t, S) BY FlattenFollows
  <1> HIDE DEF u
  <1>4. PICK f : Flattens(f, u, S) BY <1>1, FlattenFollows
  <1> HIDE DEF m, n
  <1> DEFINE T == {i \in 0 .. m : f[i] = g[i]}
             R == {i \in 0 .. n : f[m + i] = g[m] \o h[i]}
  <1>5. 0 .. m \subseteq T
    <2>1. 0 \in T BY <1>1, <1>2, <1>4 DEF Flattens
    <2>2. ASSUME NEW i \in 1 .. m, i - 1 \in T PROVE i \in T
      <3>1. i \in 1 .. Len(u) /\ i \in 0 .. m BY <1>1
      <3>2. f[i] = f[i - 1] \o u[i] BY <1>4, <3>1 DEF Flattens
      <3>3. g[i] = g[i - 1] \o s[i] BY <1>2 DEF Flattens, m
      <3> QED BY <1>1, <2>2, <3>1, <3>2, <3>3
    <2> HIDE DEF T
    <2> QED BY <1>1, <2>1, <2>2, UpTo
  <1>6. m \in 0 .. m /\ n \in 0 .. n BY <1>1
  <1>a. \A x, y, z \in Seq(S) : (x \o y) \o z = x \o (y \o z) BY ConcatAssociative
  <1>7. f[m] = g[m] /\ g[m] \in Seq(S) BY <1>2, <1>5, <1>6 DEF Flattens, m
  <1>8. 0 .. n \subseteq R
    <2>1. 0 \in R
      <3>1. h[0] = <<>> /\ m + 0 = m /\ 0 \in 0 .. n BY <1>1, <1>3 DEF Flattens
      <3>2. g[m] \o <<>> = g[m] BY <1>7
      <3> QED BY <1>7, <3>1, <3>2
    <2>2. ASSUME NEW i \in 1 .. n, i - 1 \in R PROVE i \in R
      <3>1. m + i \in 1 .. Len(u) /\ (m + i) - 1 = m + (i - 1) /\ i \in 0 .. n /\ i - 1 \in 0 .. n
        BY <1>1
      <3>2. f[m + i] = f[m + (i - 1)] \o u[m + i] BY <1>4, <3>1 DEF Flattens
      <3>3. h[i] = h[i - 1] \o t[i] /\ h[i - 1] \in Seq(S) BY <1>3, <3>1 DEF Flattens, n
      <3>4. f[m + i] = (g[m] \o h[i - 1]) \o t[i] BY <1>1, <2>2, <3>2
      <3>5. t[i] \in Seq(S) BY <1>1
      <3>6. (g[m] \o h[i - 1]) \o t[i] = g[m] \o (h[i - 1] \o t[i])
        BY <1>7, <1>a, <3>3, <3>5
      <3> QED BY <3>1, <3>3, <3>4, <3>6
    <2> HIDE DEF R
    <2> QED BY <1>1, <2>1, <2>2, UpTo
  <1>9. f[m + n] = g[m] \o h[n] BY <1>6, <1>8
  <1>10. FlattenSeq(u) = f[m + n] BY <1>1, <1>4 DEF Flattens
  <1> QED BY <1>2, <1>3, <1>7, <1>9, <1>10 DEF Flattens, m, n, u

\* One part, and parts of one symbol each.
LEMMA FlattenSmall ==
  ASSUME NEW S
  PROVE  /\ FlattenSeq(<<>>) = <<>>
         /\ \A x \in Seq(S) : FlattenSeq(<<x>>) = x
         /\ \A w \in Seq(S) : FlattenSeq([i \in DOMAIN w |-> <<w[i]>>]) = w
  <1>1. FlattenSeq(<<>>) = <<>> BY DEF FlattenSeq
  <1>2. ASSUME NEW x \in Seq(S) PROVE FlattenSeq(<<x>>) = x
    <2>1. <<x>> \in Seq(Seq(S)) /\ Len(<<x>>) = 1 /\ <<x>>[1] = x OBVIOUS
    <2>2. PICK g : Flattens(g, <<x>>, S) BY <2>1, FlattenFollows
    <2>3. 1 \in 1 .. Len(<<x>>) /\ 1 - 1 = 0 OBVIOUS
    <2>4. g[1] = g[0] \o <<x>>[1] /\ g[0] = <<>> BY Zenon, <2>2, <2>3 DEF Flattens
    <2> QED BY <2>1, <2>2, <2>4 DEF Flattens
  <1>3. ASSUME NEW w \in Seq(S) PROVE FlattenSeq([i \in DOMAIN w |-> <<w[i]>>]) = w
    <2> DEFINE s == [i \in DOMAIN w |-> <<w[i]>>]
               n == Len(w)
    <2>0. n \in Nat /\ DOMAIN w = 1 .. n /\ \A i \in 1 .. n : <<w[i]>> \in Seq(S) OBVIOUS
    <2>1. n \in Nat /\ s \in Seq(Seq(S)) /\ Len(s) = n /\ \A i \in 1 .. n : s[i] = <<w[i]>>
      <3> HIDE DEF n
      <3>1. s \in [1 .. n -> Seq(S)] /\ \A i \in 1 .. n : s[i] = <<w[i]>> BY <2>0
      <3> HIDE DEF s
      <3> QED BY <2>0, <3>1
    <2> HIDE DEF s
    <2>2. PICK g : Flattens(g, s, S) BY <2>1, FlattenFollows
    <2> DEFINE T == {i \in 0 .. n : g[i] = SubSeq(w, 1, i)}
    <2>3. 0 \in T BY <2>1, <2>2 DEF Flattens
    <2>4. ASSUME NEW i \in 1 .. n, i - 1 \in T PROVE i \in T
      <3>1. g[i] = g[i - 1] \o <<w[i]>> BY <2>1, <2>2 DEF Flattens
      <3>2. SubSeq(w, 1, i) = SubSeq(w, 1, i - 1) \o <<w[i]>>
        <4>1. 1 \in 1 .. Len(w) /\ i \in 1 .. Len(w) OBVIOUS
        <4> QED BY <4>1, SubSeqRecursiveSecond
      <3>3. i \in 0 .. n OBVIOUS
      <3>4. g[i] = SubSeq(w, 1, i) BY <2>4, <3>1, <3>2
      <3> QED BY <3>3, <3>4
    <2> HIDE DEF n
    <2>5. 0 .. n \subseteq T
      <3> HIDE DEF T
      <3> QED BY <2>1, <2>3, <2>4, UpTo
    <2>6. g[n] = SubSeq(w, 1, n) BY <2>1, <2>5
    <2>7. SubSeq(w, 1, n) = w BY SubSeqFull DEF n
    <2> QED BY <2>1, <2>2, <2>6, <2>7 DEF Flattens, s
  <1> QED BY <1>1, <1>2, <1>3

-----------------------------------------------------------------------------
(* Merging. *)

\* Merge m is made at position i of a word if its pair is there.
Joins(w, m, i) == i < Len(w) /\ <<w[i], w[i + 1]>> = Merges[m]

\* f holds what MergeAll makes of the word from each position on.
MergesFrom(f, w, m) ==
  /\ f[Len(w) + 1] = <<>>
  /\ \A i \in 1 .. Len(w) + 1 : f[i] \in Seq(Tokens)
  /\ \A i \in 1 .. Len(w) :
       f[i] = IF Joins(w, m, i) THEN <<w[i] \o w[i + 1]>> \o f[i + 2] ELSE <<w[i]>> \o f[i + 1]
  /\ MergeAll(w, m) = f[1]

\* MergeAll, position by position.
LEMMA MergeAllFollows ==
  ASSUME NEW w \in Seq(Tokens), NEW m
  PROVE  \E f : MergesFrom(f, w, m)
  <1> DEFINE L == Len(w)
             Q == Seq(Tokens) \X Seq(Tokens)
             At(i, p) == IF Joins(w, m, i) THEN <<w[i] \o w[i + 1]>> \o p[2] ELSE <<w[i]>> \o p[1]
             step == [n \in 1 .. L |-> [p \in Q |-> <<At((L + 1) - n, p), p[1]>>]]
  <1>1. L \in Nat /\ \A i \in 1 .. L : w[i] \in Tokens OBVIOUS
  <1>2. ASSUME NEW i \in 1 .. L, NEW p \in Q PROVE At(i, p) \in Seq(Tokens)
    <2>1. p[1] \in Seq(Tokens) /\ p[2] \in Seq(Tokens) OBVIOUS
    <2>2. ASSUME Joins(w, m, i) PROVE w[i] \o w[i + 1] \in Tokens
      <3>1. i + 1 \in 1 .. L BY <2>2 DEF Joins
      <3>2. w[i] \in Tokens /\ w[i + 1] \in Tokens BY <1>1, <3>1
      <3> QED BY <3>2 DEF Tokens
    <2>3. <<w[i]>> \in Seq(Tokens) BY <1>1
    <2>4. ASSUME NEW t \in Tokens PROVE <<t>> \in Seq(Tokens) OBVIOUS
    <2> QED BY <2>1, <2>2, <2>3, <2>4
  <1> HIDE DEF At, L
  <1>3. ASSUME NEW n \in 1 .. L, NEW p \in Q
        PROVE  step[n][p] = <<At((L + 1) - n, p), p[1]>>
    OBVIOUS
  <1> HIDE DEF step
  <1>4. PICK g : Follows(g, <<<<>>, <<>>>>, step, L) BY <1>1, RecursionExists
  <1> DEFINE S == {n \in 0 .. L : g[n] \in Q}
  <1>5. \A n \in 0 .. L : g[n] \in Q
    <2>1. 0 \in S
      <3>1. <<>> \in Seq(Tokens) /\ 0 \in 0 .. L BY <1>1
      <3>2. g[0] = <<<<>>, <<>>>> BY <1>4 DEF Follows
      <3>3. \A a, b \in Seq(Tokens) : <<a, b>> \in Q OBVIOUS
      <3>4. g[0] \in Q BY <3>1, <3>2, <3>3
      <3> QED BY <3>1, <3>4
    <2>2. ASSUME NEW n \in 1 .. L, n - 1 \in S PROVE n \in S
      <3>1. g[n] = step[n][g[n - 1]] BY <1>4 DEF Follows
      <3>2. g[n - 1] \in Q /\ n \in 0 .. L /\ (L + 1) - n \in 1 .. L BY <1>1, <2>2
      <3>3. g[n] = <<At((L + 1) - n, g[n - 1]), g[n - 1][1]>> BY <1>3, <3>1, <3>2
      <3>4. At((L + 1) - n, g[n - 1]) \in Seq(Tokens) BY <1>2, <3>2
      <3>5. g[n - 1][1] \in Seq(Tokens) BY <3>2
      <3>6. \A a, b \in Seq(Tokens) : <<a, b>> \in Q OBVIOUS
      <3>7. g[n] \in Q BY <3>3, <3>4, <3>5, <3>6
      <3> QED BY <3>2, <3>7
    <2> HIDE DEF S
    <2>3. 0 .. L \subseteq S BY <1>1, <2>1, <2>2, UpTo
    <2> QED BY <2>3 DEF S
  <1> HIDE DEF S
  <1>6. ASSUME NEW n \in 1 .. L
        PROVE  /\ g[n][1] = At((L + 1) - n, g[n - 1])
               /\ g[n][2] = g[n - 1][1]
    <2>1. g[n] = step[n][g[n - 1]] BY <1>4 DEF Follows
    <2>2. n - 1 \in 0 .. L BY <1>1
    <2>3. g[n] = <<At((L + 1) - n, g[n - 1]), g[n - 1][1]>> BY <1>3, <1>5, <2>1, <2>2
    <2> QED BY <2>3
  <1> DEFINE d == [i \in 1 .. L + 1 |-> g[(L + 1) - i][1]]
             F(h) == h = [i \in 1 .. L + 1 |->
                            IF i > L THEN <<>>
                            ELSE IF i < L /\ <<w[i], w[i + 1]>> = Merges[m]
                                 THEN <<w[i] \o w[i + 1]>> \o h[i + 2]
                                 ELSE <<w[i]>> \o h[i + 1]]
             from == CHOOSE h : F(h)
  <1>7. d[L + 1] = <<>>
    <2>1. (L + 1) - (L + 1) = 0 /\ L + 1 \in 1 .. L + 1 BY <1>1
    <2>2. g[0] = <<<<>>, <<>>>> BY <1>4 DEF Follows
    <2> QED BY <2>1, <2>2
  <1>8. \A i \in 1 .. L + 1 : d[i] \in Seq(Tokens)
    <2> SUFFICES ASSUME NEW i \in 1 .. L + 1 PROVE d[i] \in Seq(Tokens) OBVIOUS
    <2>1. (L + 1) - i \in 0 .. L BY <1>1
    <2>2. g[(L + 1) - i] \in Q BY <1>5, <2>1
    <2> QED BY <2>2
  <1>9. ASSUME NEW i \in 1 .. L
        PROVE  d[i] = IF Joins(w, m, i) THEN <<w[i] \o w[i + 1]>> \o d[i + 2] ELSE <<w[i]>> \o d[i + 1]
    <2>1. /\ i \in 1 .. L + 1 /\ i + 1 \in 1 .. L + 1 /\ (L + 1) - i \in 1 .. L
          /\ ((L + 1) - i) - 1 = (L + 1) - (i + 1) /\ (L + 1) - ((L + 1) - i) = i
      BY <1>1
    <2>2. d[i] = At(i, g[(L + 1) - (i + 1)]) BY <1>6, <2>1
    <2>3. g[(L + 1) - (i + 1)][1] = d[i + 1] BY <2>1
    <2>4. ASSUME Joins(w, m, i) PROVE g[(L + 1) - (i + 1)][2] = d[i + 2]
      <3>1. i < L BY <2>4 DEF Joins, L
      <3>2. /\ (L + 1) - (i + 1) \in 1 .. L /\ i + 2 \in 1 .. L + 1
            /\ ((L + 1) - (i + 1)) - 1 = (L + 1) - (i + 2)
        BY <1>1, <3>1
      <3> QED BY <1>6, <3>2
    <2> HIDE DEF d
    <2> QED BY <2>2, <2>3, <2>4 DEF At
  <1>10. d = [i \in 1 .. L + 1 |-> d[i]] OBVIOUS
  <1> HIDE DEF d
  <1>11. F(d)
    <2>1. ASSUME NEW i \in 1 .. L + 1
          PROVE  d[i] = IF i > L THEN <<>>
                        ELSE IF i < L /\ <<w[i], w[i + 1]>> = Merges[m]
                             THEN <<w[i] \o w[i + 1]>> \o d[i + 2] ELSE <<w[i]>> \o d[i + 1]
      <3>1. CASE i = L + 1
        <4>1. i > L BY <1>1, <3>1
        <4> QED BY <1>7, <3>1, <4>1
      <3>2. CASE i \in 1 .. L
        <4>1. ~(i > L) BY <1>1, <3>2
        <4> QED BY <1>9, <3>2, <4>1 DEF Joins, L
      <3> QED BY <1>1, <3>1, <3>2
    <2> QED BY <1>10, <2>1
  <1> HIDE DEF F
  <1>12. F(from) BY <1>11
  <1>13. MergeAll(w, m) = from[1] BY DEF MergeAll, from, F, L
  <1> HIDE DEF from
  <1>14. /\ from[L + 1] = <<>>
         /\ \A i \in 1 .. L :
              from[i] = IF Joins(w, m, i) THEN <<w[i] \o w[i + 1]>> \o from[i + 2]
                        ELSE <<w[i]>> \o from[i + 1]
    <2>1. L + 1 \in 1 .. L + 1 /\ L + 1 > L BY <1>1
    <2>2. from[L + 1] = <<>> BY <1>12, <2>1 DEF F
    <2>3. ASSUME NEW i \in 1 .. L
          PROVE  from[i] = IF Joins(w, m, i) THEN <<w[i] \o w[i + 1]>> \o from[i + 2]
                           ELSE <<w[i]>> \o from[i + 1]
      <3>1. i \in 1 .. L + 1 /\ ~(i > L) BY <1>1
      <3> QED BY <1>12, <3>1 DEF F, Joins, L
    <2> QED BY <2>2, <2>3
  <1> DEFINE T == {n \in 0 .. L : /\ from[(L + 1) - n] = d[(L + 1) - n]
                                  /\ n > 0 => from[(L + 2) - n] = d[(L + 2) - n]}
  <1>15. 0 .. L \subseteq T
    <2>1. 0 \in T
      <3>1. (L + 1) - 0 = L + 1 /\ 0 \in 0 .. L BY <1>1
      <3> QED BY <1>7, <1>14, <3>1
    <2>2. ASSUME NEW n \in 1 .. L, n - 1 \in T PROVE n \in T
      <3> DEFINE i == (L + 1) - n
      <3>1. /\ i \in 1 .. L /\ i + 1 = (L + 2) - n /\ i + 1 = (L + 1) - (n - 1)
            /\ i + 2 = (L + 2) - (n - 1) /\ n \in 0 .. L /\ n > 0
        BY <1>1
      <3>2. from[i + 1] = d[i + 1] BY <2>2, <3>1
      <3>3. ASSUME Joins(w, m, i) PROVE from[i + 2] = d[i + 2]
        <4>1. n - 1 > 0 BY <1>1, <3>3 DEF Joins, L
        <4> QED BY <2>2, <3>1, <4>1
      <3>4. from[i] = d[i] BY <1>9, <1>14, <3>1, <3>2, <3>3
      <3> QED BY <3>1, <3>2, <3>4
    <2> HIDE DEF T
    <2> QED BY <1>1, <2>1, <2>2, UpTo
  <1>16. \A i \in 1 .. L + 1 : from[i] = d[i]
    <2> SUFFICES ASSUME NEW i \in 1 .. L + 1 PROVE from[i] = d[i] OBVIOUS
    <2>1. (L + 1) - i \in 0 .. L /\ (L + 1) - ((L + 1) - i) = i BY <1>1
    <2> QED BY <1>15, <2>1
  <1>17. \A i \in 1 .. L + 1 : from[i] \in Seq(Tokens) BY <1>8, <1>16
  <1> QED BY <1>13, <1>14, <1>17 DEF MergesFrom, L

\* Where no pair fits, nothing changes.
LEMMA NothingToMerge ==
  ASSUME NEW w \in Seq(Tokens), NEW m, \A i \in 1 .. Len(w) : ~ Joins(w, m, i)
  PROVE  MergeAll(w, m) = w
  <1> DEFINE L == Len(w)
  <1>1. PICK f : MergesFrom(f, w, m) BY MergeAllFollows
  <1>2. L \in Nat OBVIOUS
  <1>3. \A i \in 1 .. L : f[i] = <<w[i]>> \o f[i + 1] BY <1>1 DEF MergesFrom
  <1>4. f[L + 1] = <<>> BY <1>1 DEF MergesFrom
  <1> DEFINE S == {n \in 0 .. L : f[(L + 1) - n] = SubSeq(w, (L + 1) - n, L)}
  <1>5. 0 \in S
    <2>1. (L + 1) - 0 = L + 1 /\ SubSeq(w, L + 1, L) = <<>> /\ 0 \in 0 .. L BY <1>2
    <2>2. f[(L + 1) - 0] = SubSeq(w, (L + 1) - 0, L) BY <1>4, <2>1
    <2> QED BY <2>1, <2>2
  <1>6. ASSUME NEW n \in 1 .. L, n - 1 \in S PROVE n \in S
    <2> DEFINE i == (L + 1) - n
    <2>1. i \in 1 .. L /\ i + 1 = (L + 1) - (n - 1) /\ L \in i .. L /\ n \in 0 .. L BY <1>2
    <2>2. f[i] = <<w[i]>> \o f[i + 1] BY <1>3, <2>1
    <2>3. SubSeq(w, i, L) = <<w[i]>> \o SubSeq(w, i + 1, L) BY <2>1, SubSeqRecursiveFirst
    <2>4. f[i] = SubSeq(w, i, L) BY <1>6, <2>1, <2>2, <2>3
    <2> QED BY <2>1, <2>4
  <1> HIDE DEF S
  <1>7. 0 .. L \subseteq S BY <1>2, <1>5, <1>6, UpTo
  <1>8. f[1] = SubSeq(w, 1, L)
    <2>1. L \in S /\ (L + 1) - L = 1 BY <1>2, <1>7
    <2> QED BY <2>1 DEF S
  <1> QED BY <1>1, <1>8, SubSeqFull DEF MergesFrom

\* One merge makes the word one token shorter and changes nothing else.
LEMMA MergedAtIs ==
  ASSUME NEW w \in Seq(Tokens), NEW i \in 1 .. Len(w) - 1
  PROVE  /\ MergedAt(w, i) \in Seq(Tokens)
         /\ Len(MergedAt(w, i)) = Len(w) - 1
         /\ \A j \in 1 .. i - 1 : MergedAt(w, i)[j] = w[j]
         /\ MergedAt(w, i)[i] = w[i] \o w[i + 1]
         /\ \A j \in i + 1 .. Len(w) - 1 : MergedAt(w, i)[j] = w[j + 1]
         /\ FlattenSeq(MergedAt(w, i)) = FlattenSeq(w)
  <1> DEFINE L == Len(w)
             a == SubSeq(w, 1, i - 1)
             t == w[i] \o w[i + 1]
             b == SubSeq(w, i + 2, L)
  <1>1. L \in Nat /\ i \in 1 .. L /\ i + 1 \in 1 .. L /\ \A j \in 1 .. L : w[j] \in Tokens OBVIOUS
  <1>2. w[i] \in Tokens /\ w[i + 1] \in Tokens BY <1>1
  <1>3. t \in Tokens BY <1>2 DEF Tokens
  <1>4. /\ a \in Seq(Tokens) /\ Len(a) = i - 1 /\ \A j \in 1 .. i - 1 : a[j] = w[j]
    <2>1. \A j \in 1 .. i - 1 : j \in 1 .. L BY <1>1
    <2>2. \A j \in 1 .. i - 1 : w[j] \in Tokens BY <1>1, <2>1
    <2>3. 1 \in Int /\ i - 1 \in Int BY <1>1
    <2> QED BY <2>2, <2>3, SubSeqProperties
  <1>5. /\ b \in Seq(Tokens) /\ Len(b) = L - (i + 1)
        /\ \A j \in 1 .. L - (i + 1) : b[j] = w[j + (i + 1)]
    <2>1. \A j \in i + 2 .. L : j \in 1 .. L BY <1>1
    <2>2. \A j \in i + 2 .. L : w[j] \in Tokens BY <1>1, <2>1
    <2>3. i + 2 \in Int /\ L \in Int BY <1>1
    <2>4. /\ b \in Seq(Tokens) /\ Len(b) = IF i + 2 <= L THEN L - (i + 2) + 1 ELSE 0
          /\ \A j \in 1 .. L - (i + 2) + 1 : b[j] = w[(i + 2) + j - 1]
      BY <2>2, <2>3, SubSeqProperties
    <2> HIDE DEF b
    <2>5. Len(b) = L - (i + 1) BY <1>1, <2>4
    <2>6. \A j \in 1 .. L - (i + 1) : b[j] = w[j + (i + 1)]
      <3> SUFFICES ASSUME NEW j \in 1 .. L - (i + 1) PROVE b[j] = w[j + (i + 1)] OBVIOUS
      <3>1. j \in 1 .. L - (i + 2) + 1 /\ (i + 2) + j - 1 = j + (i + 1) BY <1>1
      <3> QED BY <2>4, <3>1
    <2> QED BY <2>4, <2>5, <2>6
  <1> HIDE DEF a, b
  <1> DEFINE c == a \o <<t>>
  <1> HIDE DEF t
  <1>6. <<t>> \in Seq(Tokens) /\ Len(<<t>>) = 1 /\ <<t>>[1] = t BY <1>3
  <1>7. c \in Seq(Tokens) /\ Len(c) = i /\ c[i] = t /\ \A j \in 1 .. i - 1 : c[j] = a[j]
    BY <1>1, <1>4, <1>6
  <1>8. MergedAt(w, i) = c \o b BY DEF MergedAt, a, b, t
  <1>9. FlattenSeq(c \o b) = FlattenSeq(w)
    <2> USE DEF Tokens
    <2>1. /\ FlattenSeq(c \o b) = FlattenSeq(c) \o FlattenSeq(b)
          /\ FlattenSeq(c) = FlattenSeq(a) \o FlattenSeq(<<t>>)
      BY <1>4, <1>5, <1>6, <1>7, FlattenConcat
    <2>2. FlattenSeq(<<t>>) = t BY <1>3, FlattenSmall
    <2> DEFINE p == <<w[i], w[i + 1]>>
               q == <<w[i + 1]>>
    <2>3. p \in Seq(Tokens) /\ p = <<w[i]>> \o q /\ <<w[i]>> \in Seq(Tokens) /\ q \in Seq(Tokens)
      BY <1>2
    <2>4. FlattenSeq(p) = FlattenSeq(<<w[i]>>) \o FlattenSeq(q) BY <2>3, FlattenConcat
    <2>5. FlattenSeq(p) = t BY <1>2, <2>4, FlattenSmall DEF t
    <2>6. w = (a \o p) \o b
      <3>1. p \in Seq(Tokens) /\ Len(p) = 2 /\ p[1] = w[i] /\ p[2] = w[i + 1] BY <2>3
      <3> HIDE DEF p
      <3> DEFINE ap == a \o p
      <3>2. /\ ap \in Seq(Tokens) /\ Len(ap) = i + 1
            /\ \A j \in 1 .. i - 1 : ap[j] = a[j]
            /\ ap[i] = w[i] /\ ap[i + 1] = w[i + 1]
        <4>1. /\ ap \in Seq(Tokens) /\ Len(ap) = Len(a) + Len(p)
              /\ \A j \in 1 .. Len(a) + Len(p) : ap[j] = IF j <= Len(a) THEN a[j] ELSE p[j - Len(a)]
          BY <1>4, <3>1, ConcatProperties
        <4> HIDE DEF ap
        <4>2. i - (i - 1) = 1 /\ (i + 1) - (i - 1) = 2 /\ (i - 1) + 2 = i + 1 BY <1>1
        <4>3. Len(ap) = i + 1 BY <1>4, <3>1, <4>1, <4>2
        <4>4. \A j \in 1 .. i - 1 : ap[j] = a[j]
          <5> SUFFICES ASSUME NEW j \in 1 .. i - 1 PROVE ap[j] = a[j] OBVIOUS
          <5>1. j \in 1 .. Len(a) + Len(p) /\ j <= Len(a) BY <1>1, <1>4, <3>1
          <5> QED BY <4>1, <5>1
        <4>5. ap[i] = p[1]
          <5>1. i \in 1 .. Len(a) + Len(p) /\ ~(i <= Len(a)) /\ i - Len(a) = 1 BY <1>1, <1>4, <3>1
          <5> QED BY <4>1, <5>1
        <4>6. ap[i + 1] = p[2]
          <5>1. i + 1 \in 1 .. Len(a) + Len(p) /\ ~(i + 1 <= Len(a)) /\ (i + 1) - Len(a) = 2
            BY <1>1, <1>4, <3>1
          <5> QED BY <4>1, <5>1
        <4> QED BY <3>1, <4>1, <4>3, <4>4, <4>5, <4>6
      <3> HIDE DEF ap
      <3>3. /\ ap \o b \in Seq(Tokens) /\ Len(ap \o b) = L
            /\ \A j \in 1 .. L : (ap \o b)[j] = IF j <= i + 1 THEN ap[j] ELSE b[j - (i + 1)]
        <4>1. /\ ap \o b \in Seq(Tokens) /\ Len(ap \o b) = Len(ap) + Len(b)
              /\ \A j \in 1 .. Len(ap) + Len(b) :
                   (ap \o b)[j] = IF j <= Len(ap) THEN ap[j] ELSE b[j - Len(ap)]
          <5>1. ap \in Seq(Tokens) /\ b \in Seq(Tokens) BY <1>5, <3>2
          <5> QED BY <5>1, ConcatProperties
        <4>2. Len(ap) + Len(b) = L BY <1>1, <1>5, <3>2
        <4> HIDE DEF L
        <4> QED BY <3>2, <4>1, <4>2
      <3>4. ASSUME NEW j \in 1 .. L PROVE (ap \o b)[j] = w[j]
        <4>1. CASE j \in 1 .. i - 1 BY <1>1, <1>4, <3>2, <3>3, <4>1
        <4>2. CASE j = i \/ j = i + 1 BY <1>1, <3>2, <3>3, <4>2
        <4>3. CASE j > i + 1
          <5>1. j - (i + 1) \in 1 .. L - (i + 1) /\ (j - (i + 1)) + (i + 1) = j BY <1>1, <4>3
          <5>2. ~(j <= i + 1) BY <1>1, <4>3
          <5>3. (ap \o b)[j] = b[j - (i + 1)] BY <3>3, <5>2
          <5>4. b[j - (i + 1)] = w[(j - (i + 1)) + (i + 1)] BY <1>5, <5>1
          <5> QED BY <5>1, <5>3, <5>4
        <4>4. j \in 1 .. i - 1 \/ j = i \/ j = i + 1 \/ j > i + 1 BY <1>1
        <4> QED BY <4>1, <4>2, <4>3, <4>4
      <3>5. ap \o b = w BY <3>3, <3>4, SeqEqual
      <3> QED BY <3>5 DEF ap
    <2>7. a \o p \in Seq(Tokens) BY <1>4, <2>3
    <2>8. FlattenSeq(w) = (FlattenSeq(a) \o FlattenSeq(p)) \o FlattenSeq(b)
      BY <1>4, <1>5, <2>3, <2>6, <2>7, FlattenConcat
    <2> QED BY <2>1, <2>2, <2>5, <2>8
  <1> HIDE DEF c
  <1>10. /\ c \o b \in Seq(Tokens) /\ Len(c \o b) = L - 1
         /\ \A j \in 1 .. L - 1 : (c \o b)[j] = IF j <= i THEN c[j] ELSE b[j - i]
    <2>1. /\ c \o b \in Seq(Tokens) /\ Len(c \o b) = Len(c) + Len(b)
          /\ \A j \in 1 .. Len(c) + Len(b) :
               (c \o b)[j] = IF j <= Len(c) THEN c[j] ELSE b[j - Len(c)]
      BY <1>5, <1>7, ConcatProperties
    <2>2. Len(c) + Len(b) = L - 1 BY <1>1, <1>5, <1>7
    <2> HIDE DEF L
    <2> QED BY <1>7, <2>1, <2>2
  <1>11. \A j \in 1 .. i - 1 : (c \o b)[j] = w[j] BY <1>1, <1>4, <1>7, <1>10
  <1>12. (c \o b)[i] = w[i] \o w[i + 1]
    <2>1. i \in 1 .. L - 1 /\ i <= i BY <1>1
    <2>2. (c \o b)[i] = t BY <1>7, <1>10, <2>1
    <2> QED BY <2>2 DEF t
  <1>13. ASSUME NEW j \in i + 1 .. L - 1 PROVE (c \o b)[j] = w[j + 1]
    <2>1. j - i \in 1 .. L - (i + 1) /\ (j - i) + (i + 1) = j + 1 /\ j \in 1 .. L - 1 /\ ~(j <= i)
      BY <1>1
    <2> QED BY <1>5, <1>10, <2>1
  <1> QED BY <1>8, <1>9, <1>10, <1>11, <1>12, <1>13

\* What a merge makes is longer than either side.
LEMMA MadeIsLonger ==
  ASSUME NEW m \in DOMAIN Merges
  PROVE  /\ Merges[m] = <<Merges[m][1], Merges[m][2]>>
         /\ Merges[m][1] \in Tokens /\ Merges[m][2] \in Tokens
         /\ Made(m) # Merges[m][1] /\ Made(m) # Merges[m][2]
         /\ Len(Made(m)) # 1
  <1> DEFINE l == Merges[m][1]
             r == Merges[m][2]
  <1>1. Merges[m] \in (Tokens \ {<<>>}) \X (Tokens \ {<<>>}) BY MergesAssumption
  <1>2. Merges[m] = <<l, r>> /\ l \in Tokens \ {<<>>} /\ r \in Tokens \ {<<>>} BY <1>1
  <1> HIDE DEF l, r
  <1>3. ASSUME NEW t \in Tokens \ {<<>>} PROVE Len(t) \in Nat \ {0}
    BY EmptySeq DEF Tokens
  <1>4. Len(l \o r) = Len(l) + Len(r) BY <1>2 DEF Tokens
  <1>5. Len(l) \in Nat \ {0} /\ Len(r) \in Nat \ {0} BY <1>2, <1>3
  <1>6. Len(l \o r) # Len(l) /\ Len(l \o r) # Len(r) /\ Len(l \o r) # 1 BY <1>4, <1>5
  <1>7. Made(m) = l \o r BY DEF Made, l, r
  <1> QED BY <1>2, <1>6, <1>7 DEF l, r

\* A pair with what merge m made comes with a worse merge.
LEMMA NewPairsAreWorse ==
  ASSUME NEW m \in DOMAIN Merges, NEW k \in DOMAIN Merges,
         Merges[k][1] = Made(m) \/ Merges[k][2] = Made(m)
  PROVE  k > m
  <1>1. PICK side \in {1, 2} : Merges[k][side] = Made(m) OBVIOUS
  <1>2. Len(Merges[k][side]) # 1 BY <1>1, MadeIsLonger
  <1>3. PICK j \in 1 .. k - 1 : Merges[k][side] = Made(j) BY <1>2, MergesAssumption
  <1>4. k \in Nat /\ m \in Nat /\ DOMAIN Merges = 1 .. Len(Merges) /\ Len(Merges) \in Nat
    BY MergesAssumption
  <1>5. j \in DOMAIN Merges BY <1>4
  <1>6. j = m BY <1>1, <1>3, <1>5, MergesAssumption
  <1> QED BY <1>4, <1>6

\* The pairs of a word in which one merge was made are those it had before and
\* those with the new token.
LEMMA PairsAfterMerge ==
  ASSUME NEW w \in Seq(Tokens), NEW i \in 1 .. Len(w) - 1,
         NEW m \in DOMAIN Merges, Joins(w, m, i),
         NEW k \in DOMAIN Merges, k <= m, NEW j \in 1 .. Len(w) - 1,
         Joins(MergedAt(w, i), k, j)
  PROVE  /\ j < i - 1 \/ j > i
         /\ j < i - 1 => Joins(w, k, j)
         /\ j > i => Joins(w, k, j + 1)
  <1> DEFINE v == MergedAt(w, i)
             L == Len(w)
  <1>1. /\ Len(v) = L - 1
        /\ \A n \in 1 .. i - 1 : v[n] = w[n]
        /\ v[i] = w[i] \o w[i + 1]
        /\ \A n \in i + 1 .. L - 1 : v[n] = w[n + 1]
    BY MergedAtIs
  <1> HIDE DEF v, L
  <1>2. L \in Nat /\ k \in Nat /\ m \in Nat /\ i \in 1 .. L - 1 /\ j \in 1 .. L - 1
    BY MergesAssumption DEF L
  <1>3. j < L - 1 /\ <<v[j], v[j + 1]>> = Merges[k] BY <1>1 DEF Joins, v
  <1>4. v[j] = Merges[k][1] /\ v[j + 1] = Merges[k][2] BY <1>3
  <1>5. v[i] = Made(m)
    <2>1. <<w[i], w[i + 1]>> = Merges[m] BY DEF Joins
    <2>2. w[i] = Merges[m][1] /\ w[i + 1] = Merges[m][2] BY <2>1
    <2> QED BY <1>1, <2>2 DEF Made
  <1>6. ~(k > m) BY <1>2
  <1>7. j # i BY <1>4, <1>5, <1>6, NewPairsAreWorse
  <1>8. j + 1 # i BY <1>4, <1>5, <1>6, NewPairsAreWorse
  <1>9. j < i - 1 \/ j > i BY <1>2, <1>7, <1>8
  <1>10. ASSUME j < i - 1 PROVE Joins(w, k, j)
    <2>1. j \in 1 .. i - 1 /\ j + 1 \in 1 .. i - 1 /\ j < L BY <1>2, <1>10
    <2> QED BY <1>1, <1>3, <2>1 DEF Joins, L
  <1>11. ASSUME j > i PROVE Joins(w, k, j + 1)
    <2>1. j \in i + 1 .. L - 1 /\ j + 1 \in i + 1 .. L - 1 /\ j + 1 < L BY <1>2, <1>3, <1>11
    <2> QED BY <1>1, <1>3, <2>1 DEF Joins, L
  <1> QED BY <1>9, <1>10, <1>11

\* To merge the leftmost occurrence of a pair before all of them changes nothing.
LEMMA LeftmostFirst ==
  ASSUME NEW w \in Seq(Tokens), NEW i \in 1 .. Len(w) - 1,
         NEW m \in DOMAIN Merges, Joins(w, m, i),
         \A j \in 1 .. i - 1 : ~ Joins(w, m, j)
  PROVE  MergeAll(MergedAt(w, i), m) = MergeAll(w, m)
  <1> DEFINE v == MergedAt(w, i)
             L == Len(w)
  <1>1. /\ v \in Seq(Tokens) /\ Len(v) = L - 1
        /\ \A n \in 1 .. i - 1 : v[n] = w[n]
        /\ v[i] = w[i] \o w[i + 1]
        /\ \A n \in i + 1 .. L - 1 : v[n] = w[n + 1]
    BY MergedAtIs
  <1>2. m \in Nat /\ L \in Nat /\ i \in 1 .. L - 1 BY MergesAssumption
  <1>3. ASSUME NEW j \in 1 .. L - 1, Joins(v, m, j)
        PROVE  j > i /\ Joins(w, m, j + 1)
    <2>1. m <= m BY <1>2
    <2>2. (j < i - 1 \/ j > i) /\ (j < i - 1 => Joins(w, m, j)) /\ (j > i => Joins(w, m, j + 1))
      BY <1>3, <2>1, PairsAfterMerge
    <2>3. j < i - 1 => j \in 1 .. i - 1 BY <1>2
    <2> QED BY <2>2, <2>3
  <1>4. ASSUME NEW j \in i + 1 .. L - 1, Joins(w, m, j + 1) PROVE Joins(v, m, j)
    <2>1. j + 1 < L /\ <<w[j + 1], w[(j + 1) + 1]>> = Merges[m] BY <1>4 DEF Joins
    <2>2. j + 1 \in i + 1 .. L - 1 /\ j < L - 1 BY <1>2, <2>1
    <2>3. v[j] = w[j + 1] /\ v[j + 1] = w[(j + 1) + 1] BY <1>1, <2>2
    <2> QED BY <1>1, <2>1, <2>2, <2>3 DEF Joins
  <1>5. PICK f : MergesFrom(f, w, m) BY MergeAllFollows
  <1> HIDE DEF v
  <1>6. PICK h : MergesFrom(h, v, m) BY <1>1, MergeAllFollows
  <1> HIDE DEF L
  <1>7. /\ f[L + 1] = <<>> /\ MergeAll(w, m) = f[1]
        /\ \A j \in 1 .. L :
             f[j] = IF Joins(w, m, j) THEN <<w[j] \o w[j + 1]>> \o f[j + 2] ELSE <<w[j]>> \o f[j + 1]
    BY <1>5 DEF MergesFrom, L
  <1>8. /\ h[L] = <<>> /\ MergeAll(v, m) = h[1]
        /\ \A j \in 1 .. L - 1 :
             h[j] = IF Joins(v, m, j) THEN <<v[j] \o v[j + 1]>> \o h[j + 2] ELSE <<v[j]>> \o h[j + 1]
    <2>1. (L - 1) + 1 = L BY <1>2
    <2> QED BY <1>1, <1>6, <2>1 DEF MergesFrom
  <1> DEFINE N == (L - 1) - i
             S == {n \in 0 .. N : /\ h[L - n] = f[(L + 1) - n]
                                  /\ n > 0 => h[(L + 1) - n] = f[(L + 2) - n]}
  <1>9. 0 .. N \subseteq S
    <2>0. N \in Nat BY <1>2
    <2>1. 0 \in S
      <3>1. L - 0 = L /\ (L + 1) - 0 = L + 1 /\ 0 \in 0 .. N BY <1>2, <2>0
      <3> QED BY <1>7, <1>8, <3>1
    <2>2. ASSUME NEW n \in 1 .. N, n - 1 \in S PROVE n \in S
      <3> DEFINE j == L - n
      <3>1. /\ j \in i + 1 .. L - 1 /\ j + 1 \in 1 .. L /\ j \in 1 .. L - 1 /\ n \in 0 .. N
            /\ j + 1 = L - (n - 1) /\ j + 2 = (L + 1) - (n - 1) /\ j + 3 = (L + 2) - (n - 1)
            /\ j + 1 = (L + 1) - n /\ j + 2 = (L + 2) - n /\ (j + 1) + 1 = j + 2 /\ (j + 1) + 2 = j + 3
        BY <1>2
      <3>2. h[j + 1] = f[j + 2] BY <2>2, <3>1
      <3>3. v[j] = w[j + 1] BY <1>1, <3>1
      <3>4. CASE Joins(v, m, j)
        <4>1. Joins(w, m, j + 1) BY <1>3, <3>1, <3>4
        <4>2. j < L - 1 BY <1>1, <3>4 DEF Joins
        <4>3. n - 1 > 0 /\ j + 1 \in i + 1 .. L - 1 BY <1>2, <4>2
        <4>4. h[j + 2] = f[j + 3] BY <2>2, <3>1, <4>3
        <4>5. v[j + 1] = w[j + 2] BY <1>1, <3>1, <4>3
        <4>6. h[j] = <<v[j] \o v[j + 1]>> \o h[j + 2] BY <1>8, <3>1, <3>4
        <4>7. f[j + 1] = <<w[j + 1] \o w[j + 2]>> \o f[j + 3] BY <1>7, <3>1, <4>1
        <4>8. h[j] = f[j + 1] BY <3>3, <4>4, <4>5, <4>6, <4>7
        <4> QED BY <3>1, <3>2, <4>8
      <3>5. CASE ~ Joins(v, m, j)
        <4>1. ~ Joins(w, m, j + 1) BY <1>4, <3>1, <3>5
        <4>2. h[j] = <<v[j]>> \o h[j + 1] BY <1>8, <3>1, <3>5
        <4>3. f[j + 1] = <<w[j + 1]>> \o f[j + 2] BY <1>7, <3>1, <4>1
        <4>4. h[j] = f[j + 1] BY <3>2, <3>3, <4>2, <4>3
        <4> QED BY <3>1, <3>2, <4>4
      <3> QED BY <3>4, <3>5
    <2> HIDE DEF S, N
    <2> QED BY <2>0, <2>1, <2>2, UpTo
  <1>10. h[i + 1] = f[i + 2]
    <2>1. N \in 0 .. N /\ L - N = i + 1 /\ (L + 1) - N = i + 2 BY <1>2
    <2>2. N \in S BY <1>9, <2>1
    <2> QED BY <2>1, <2>2
  <1>11. h[i] = f[i]
    <2>1. i \in 1 .. L /\ i \in 1 .. L - 1 /\ ~(i > i) BY <1>2
    <2>2. ~ Joins(v, m, i) BY <1>3, <2>1
    <2> QED BY <1>1, <1>7, <1>8, <1>10, <2>1, <2>2
  <1> DEFINE T == {n \in 0 .. i - 1 : h[i - n] = f[i - n]}
  <1>12. 0 .. i - 1 \subseteq T
    <2>0. i - 1 \in Nat BY <1>2
    <2>1. 0 \in T
      <3>1. i - 0 = i /\ 0 \in 0 .. i - 1 BY <1>2
      <3> QED BY <1>11, <3>1
    <2>2. ASSUME NEW n \in 1 .. i - 1, n - 1 \in T PROVE n \in T
      <3> DEFINE j == i - n
      <3>1. /\ j \in 1 .. i - 1 /\ j \in 1 .. L /\ j \in 1 .. L - 1 /\ n \in 0 .. i - 1
            /\ j + 1 = i - (n - 1) /\ ~(j > i)
        BY <1>2
      <3>2. h[j + 1] = f[j + 1] BY <2>2, <3>1
      <3>3. ~ Joins(v, m, j) BY <1>3, <3>1
      <3>4. ~ Joins(w, m, j) BY <3>1
      <3>5. v[j] = w[j] BY <1>1, <3>1
      <3>6. h[j] = <<v[j]>> \o h[j + 1] BY <1>8, <3>1, <3>3
      <3>7. f[j] = <<w[j]>> \o f[j + 1] BY <1>7, <3>1, <3>4
      <3>8. h[j] = f[j] BY <3>2, <3>5, <3>6, <3>7
      <3> QED BY <3>1, <3>8
    <2> HIDE DEF T
    <2> QED BY <2>0, <2>1, <2>2, UpTo
  <1>13. h[1] = f[1]
    <2>1. i - 1 \in 0 .. i - 1 /\ i - (i - 1) = 1 BY <1>2
    <2>2. i - 1 \in T BY <1>12, <2>1
    <2> QED BY <2>1, <2>2
  <1> QED BY <1>7, <1>8, <1>13 DEF v

\* The least of some naturals is one of them.
LEMMA MinIs ==
  ASSUME NEW S, S \subseteq Nat, S # {}
  PROVE  Min(S) \in S /\ \A y \in S : Min(S) <= y
  <1>1. PICK x \in S : \A y \in S : x <= y BY Smallest
  <1> QED BY <1>1 DEF Min

\* The pair that bpe_apply_merge takes has the best rank of all, and none on its
\* left has it, too.
LEMMA BestIsLeftmost ==
  ASSUME NEW w \in Seq(Tokens), Mergeable(w) # {}
  PROVE  /\ Best(w) \in 1 .. Len(w) - 1
         /\ \E m \in DOMAIN Merges :
              /\ Joins(w, m, Best(w))
              /\ \A j \in 1 .. Best(w) - 1 : ~ Joins(w, m, j)
              /\ \A k \in 1 .. m - 1, j \in 1 .. Len(w) : ~ Joins(w, k, j)
  <1> DEFINE L == Len(w)
             D == 1 .. Len(Merges)
  <1>1. L \in Nat /\ Len(Merges) \in Nat /\ DOMAIN Merges = D BY MergesAssumption
  <1> HIDE DEF L
  <1>2. ASSUME NEW i \in Mergeable(w)
        PROVE  /\ i \in 1 .. L - 1 /\ Rank(w, i) \in D /\ Joins(w, Rank(w, i), i)
               /\ \A k \in D : Joins(w, k, i) => Rank(w, i) <= k
    <2>1. i \in 1 .. L - 1 /\ Ranks(w, i) # {} BY DEF Mergeable, L
    <2>2. Ranks(w, i) = {m \in D : Merges[m] = <<w[i], w[i + 1]>>} BY <1>1 DEF Ranks
    <2>3. Ranks(w, i) \subseteq Nat BY <1>1, <2>2
    <2>4. Rank(w, i) \in Ranks(w, i) /\ \A y \in Ranks(w, i) : Rank(w, i) <= y
      BY <2>1, <2>3, MinIs DEF Rank
    <2>5. i < L BY <1>1, <2>1
    <2> QED BY <2>1, <2>2, <2>4, <2>5 DEF Joins, L
  <1>3. ASSUME NEW k \in D, NEW j \in 1 .. L, Joins(w, k, j)
        PROVE  j \in Mergeable(w) /\ Rank(w, j) <= k
    <2>1. j < L /\ Merges[k] = <<w[j], w[j + 1]>> BY <1>3 DEF Joins, L
    <2>2. j \in 1 .. L - 1 BY <1>1, <2>1
    <2>3. k \in Ranks(w, j) BY <1>1, <2>1 DEF Ranks
    <2>4. j \in Mergeable(w) BY <2>2, <2>3 DEF Mergeable, L
    <2> QED BY <1>2, <1>3, <2>4
  <1> DEFINE R == {Rank(w, i) : i \in Mergeable(w)}
  <1>4. PICK r \in R : \A y \in R : r <= y
    <2>1. R \subseteq Nat /\ R # {} BY <1>1, <1>2
    <2> HIDE DEF R
    <2> QED BY <2>1, Smallest
  <1> DEFINE E == {i \in Mergeable(w) : Rank(w, i) = r}
  <1>5. PICK b \in E : \A y \in E : b <= y
    <2>1. E \subseteq Nat /\ E # {} BY <1>1, <1>2, <1>4
    <2> HIDE DEF E
    <2> QED BY <2>1, Smallest
  <1>6. ASSUME NEW j \in Mergeable(w)
        PROVE  Rank(w, b) < Rank(w, j) \/ (Rank(w, b) = Rank(w, j) /\ b <= j)
    <2>1. Rank(w, b) = r /\ r <= Rank(w, j) BY <1>4, <1>5
    <2>2. r \in Nat /\ Rank(w, j) \in Nat BY <1>1, <1>2, <1>5, <2>1
    <2>3. CASE r < Rank(w, j) BY <2>1, <2>3
    <2>4. CASE r = Rank(w, j) BY <1>5, <2>1, <2>4
    <2> QED BY <2>1, <2>2, <2>3, <2>4
  <1> DEFINE best == Best(w)
  <1>7. /\ best \in Mergeable(w)
        /\ \A j \in Mergeable(w) :
             Rank(w, best) < Rank(w, j) \/ (Rank(w, best) = Rank(w, j) /\ best <= j)
    BY <1>5, <1>6 DEF Best
  <1> HIDE DEF best
  <1> DEFINE m == Rank(w, best)
  <1>8. m \in D /\ best \in 1 .. L - 1 /\ Joins(w, m, best) BY <1>2, <1>7
  <1>9. ASSUME NEW j \in 1 .. best - 1, Joins(w, m, j) PROVE FALSE
    <2>1. j \in 1 .. L BY <1>1, <1>8
    <2>2. j \in Mergeable(w) /\ Rank(w, j) <= m BY <1>3, <1>8, <1>9, <2>1
    <2>3. Rank(w, j) \in D BY <1>2, <2>2
    <2>4. ~(m < Rank(w, j)) /\ ~(best <= j) BY <1>1, <1>8, <2>2, <2>3
    <2> QED BY <1>7, <2>2, <2>4
  <1>10. ASSUME NEW k \in 1 .. m - 1, NEW j \in 1 .. L, Joins(w, k, j) PROVE FALSE
    <2>1. k \in D BY <1>1, <1>8
    <2>2. j \in Mergeable(w) /\ Rank(w, j) <= k BY <1>3, <1>10, <2>1
    <2>3. Rank(w, j) \in D BY <1>2, <2>2
    <2>4. Rank(w, j) < m BY <1>1, <1>8, <2>1, <2>2, <2>3
    <2>5. ~(m < Rank(w, j)) /\ m # Rank(w, j) BY <1>1, <1>8, <2>3, <2>4
    <2> QED BY <1>7, <2>2, <2>5
  <1> HIDE DEF m
  <1> QED BY <1>1, <1>8, <1>9, <1>10 DEF best, L

\* p holds what the definition has made of a word after each of the merges.
Passes(p, w) ==
  /\ p[0] = w
  /\ \A m \in 0 .. Len(Merges) : p[m] \in Seq(Tokens)
  /\ \A m \in 1 .. Len(Merges) : p[m] = MergeAll(p[m - 1], m)
  /\ Reference(w) = p[Len(Merges)]

\* Reference, merge by merge.
LEMMA ReferenceFollows ==
  ASSUME NEW w \in Seq(Tokens)
  PROVE  \E p : Passes(p, w)
  <1> DEFINE M == Len(Merges)
             step == [m \in 1 .. M |-> [x \in Seq(Tokens) |-> MergeAll(x, m)]]
             F(h) == h = [m \in 0 .. M |-> IF m = 0 THEN w ELSE MergeAll(h[m - 1], m)]
             passed == CHOOSE h : F(h)
  <1>1. M \in Nat BY MergesAssumption
  <1>2. ASSUME NEW m \in 1 .. M, NEW x \in Seq(Tokens)
        PROVE  step[m][x] = MergeAll(x, m) /\ MergeAll(x, m) \in Seq(Tokens)
    <2>1. PICK f : MergesFrom(f, x, m) BY MergeAllFollows
    <2>2. Len(x) \in Nat /\ 1 \in 1 .. Len(x) + 1 OBVIOUS
    <2>3. MergeAll(x, m) \in Seq(Tokens) BY <2>1, <2>2 DEF MergesFrom
    <2> QED BY <2>3
  <1> HIDE DEF M, step
  <1>3. PICK g : Follows(g, w, step, M) BY <1>1, RecursionExists
  <1> DEFINE S == {m \in 0 .. M : g[m] \in Seq(Tokens)}
  <1>4. 0 .. M \subseteq S
    <2>1. 0 \in S BY <1>1, <1>3 DEF Follows
    <2>2. ASSUME NEW m \in 1 .. M, m - 1 \in S PROVE m \in S
      <3>1. g[m] = step[m][g[m - 1]] /\ m \in 0 .. M BY <1>1, <1>3 DEF Follows
      <3> QED BY <1>2, <2>2, <3>1
    <2> HIDE DEF S
    <2> QED BY <1>1, <2>1, <2>2, UpTo
  <1>5. ASSUME NEW m \in 1 .. M PROVE g[m] = MergeAll(g[m - 1], m)
    <2>1. g[m] = step[m][g[m - 1]] BY <1>3 DEF Follows
    <2>2. m - 1 \in 0 .. M BY <1>1
    <2> QED BY <1>2, <1>4, <2>1, <2>2
  <1>6. F(g)
    <2>1. g[0] = w /\ g = [m \in 0 .. M |-> g[m]] BY <1>3 DEF Follows
    <2>2. \A m \in 0 .. M : m # 0 => m \in 1 .. M BY <1>1
    <2>3. \A m \in 0 .. M : g[m] = IF m = 0 THEN w ELSE MergeAll(g[m - 1], m)
      BY <1>5, <2>1, <2>2
    <2> HIDE DEF S
    <2> QED BY <2>1, <2>3
  <1> HIDE DEF F, S
  <1>7. F(passed) BY <1>6
  <1>8. Reference(w) = passed[M] BY DEF Reference, passed, F, M
  <1> HIDE DEF passed
  <1>9. passed[0] = w /\ \A m \in 1 .. M : passed[m] = MergeAll(passed[m - 1], m)
    <2>1. 0 \in 0 .. M /\ \A m \in 1 .. M : m \in 0 .. M /\ m # 0 BY <1>1
    <2> QED BY <1>7, <2>1 DEF F
  <1> DEFINE T == {m \in 0 .. M : passed[m] = g[m]}
  <1>10. 0 .. M \subseteq T
    <2>1. 0 \in T BY <1>1, <1>3, <1>9 DEF Follows
    <2>2. ASSUME NEW m \in 1 .. M, m - 1 \in T PROVE m \in T
      BY <1>5, <1>9, <2>2
    <2> HIDE DEF T
    <2> QED BY <1>1, <2>1, <2>2, UpTo
  <1>11. \A m \in 0 .. M : passed[m] \in Seq(Tokens) BY <1>4, <1>10 DEF S
  <1> QED BY <1>8, <1>9, <1>11 DEF Passes, M

\* No pair is left to merge: the word is what the definition makes of it.
LEMMA ReferenceOfMerged ==
  ASSUME NEW w \in Seq(Tokens), Mergeable(w) = {}
  PROVE  Reference(w) = w
  <1> DEFINE M == Len(Merges)
  <1>1. M \in Nat /\ DOMAIN Merges = 1 .. M BY MergesAssumption
  <1>2. PICK p : Passes(p, w) BY ReferenceFollows
  <1>3. ASSUME NEW m \in 1 .. M, NEW i \in 1 .. Len(w), Joins(w, m, i) PROVE FALSE
    <2>1. i < Len(w) /\ Merges[m] = <<w[i], w[i + 1]>> BY <1>3 DEF Joins
    <2>2. i \in 1 .. Len(w) - 1 BY <2>1
    <2>3. m \in Ranks(w, i) BY <1>1, <2>1 DEF Ranks
    <2> QED BY <2>2, <2>3 DEF Mergeable
  <1>4. \A m \in 1 .. M : MergeAll(w, m) = w BY <1>3, NothingToMerge
  <1> DEFINE T == {m \in 0 .. M : p[m] = w}
  <1>5. 0 \in T BY <1>1, <1>2 DEF Passes
  <1>6. ASSUME NEW m \in 1 .. M, m - 1 \in T PROVE m \in T
    BY <1>2, <1>4, <1>6 DEF Passes
  <1> HIDE DEF T, M
  <1>7. 0 .. M \subseteq T BY <1>1, <1>5, <1>6, UpTo
  <1>8. M \in T BY <1>1, <1>7
  <1> QED BY <1>2, <1>8 DEF Passes, T, M

\* One pair merged, leftmost of the best, does not change what the definition
\* makes of the word.
LEMMA MergeKeepsReference ==
  ASSUME NEW w \in Seq(Tokens), Mergeable(w) # {}
  PROVE  Reference(MergedAt(w, Best(w))) = Reference(w)
  <1> DEFINE M == Len(Merges)
             i == Best(w)
             v == MergedAt(w, i)
  <1>1. M \in Nat /\ DOMAIN Merges = 1 .. M BY MergesAssumption
  <1>2. /\ i \in 1 .. Len(w) - 1
        /\ \E m \in DOMAIN Merges :
             /\ Joins(w, m, i)
             /\ \A j \in 1 .. i - 1 : ~ Joins(w, m, j)
             /\ \A k \in 1 .. m - 1, j \in 1 .. Len(w) : ~ Joins(w, k, j)
    BY BestIsLeftmost
  <1>3. PICK m \in 1 .. M :
          /\ Joins(w, m, i)
          /\ \A j \in 1 .. i - 1 : ~ Joins(w, m, j)
          /\ \A k \in 1 .. m - 1, j \in 1 .. Len(w) : ~ Joins(w, k, j)
    BY <1>1, <1>2
  <1> HIDE DEF i
  <1>4. v \in Seq(Tokens) /\ Len(v) = Len(w) - 1 BY <1>2, MergedAtIs
  <1>5. MergeAll(v, m) = MergeAll(w, m) BY <1>1, <1>2, <1>3, LeftmostFirst
  <1>6. ASSUME NEW k \in 1 .. m - 1, NEW j \in 1 .. Len(v) PROVE ~ Joins(v, k, j)
    <2> SUFFICES ASSUME Joins(v, k, j) PROVE FALSE OBVIOUS
    <2>1. k \in 1 .. M /\ k <= m /\ j \in 1 .. Len(w) - 1 BY <1>1, <1>4
    <2>2. (j < i - 1 \/ j > i) /\ (j < i - 1 => Joins(w, k, j)) /\ (j > i => Joins(w, k, j + 1))
      BY <1>1, <1>2, <1>3, <2>1, PairsAfterMerge
    <2>3. j \in 1 .. Len(w) /\ j + 1 \in 1 .. Len(w) BY <2>1
    <2> QED BY <1>3, <2>2, <2>3
  <1>7. \A k \in 1 .. m - 1 : MergeAll(v, k) = v BY <1>4, <1>6, NothingToMerge
  <1>8. \A k \in 1 .. m - 1 : MergeAll(w, k) = w BY <1>3, NothingToMerge
  <1>9. PICK p : Passes(p, w) BY ReferenceFollows
  <1> HIDE DEF v
  <1>10. PICK q : Passes(q, v) BY <1>4, ReferenceFollows
  <1> DEFINE T == {k \in 0 .. M : IF k < m THEN p[k] = w /\ q[k] = v ELSE p[k] = q[k]}
  <1>11. 0 \in T
    <2>1. 0 \in 0 .. M /\ 0 < m BY <1>1
    <2> QED BY <1>9, <1>10, <2>1 DEF Passes
  <1>12. ASSUME NEW k \in 1 .. M, k - 1 \in T PROVE k \in T
    <2>1. p[k] = MergeAll(p[k - 1], k) /\ q[k] = MergeAll(q[k - 1], k) BY <1>9, <1>10 DEF Passes
    <2>2. k \in 0 .. M BY <1>1
    <2>3. CASE k < m
      <3>1. k - 1 < m /\ k \in 1 .. m - 1 BY <1>1, <2>3
      <3>2. p[k - 1] = w /\ q[k - 1] = v BY <1>12, <3>1
      <3> QED BY <1>7, <1>8, <2>1, <2>2, <2>3, <3>1, <3>2
    <2>4. CASE k = m
      <3>1. k - 1 < m /\ ~(k < m) BY <1>1, <2>4
      <3>2. p[k - 1] = w /\ q[k - 1] = v BY <1>12, <3>1
      <3> QED BY <1>5, <2>1, <2>2, <2>4, <3>1, <3>2
    <2>5. CASE k > m
      <3>1. ~(k - 1 < m) /\ ~(k < m) BY <1>1, <2>5
      <3>2. p[k - 1] = q[k - 1] BY <1>12, <3>1
      <3> QED BY <2>1, <2>2, <3>1, <3>2
    <2> QED BY <1>1, <2>3, <2>4, <2>5
  <1> HIDE DEF T, M
  <1>13. 0 .. M \subseteq T BY <1>1, <1>11, <1>12, UpTo
  <1>14. M \in T /\ ~(M < m) BY <1>1, <1>13
  <1>15. p[M] = q[M] BY <1>14 DEF T
  <1> QED BY <1>9, <1>10, <1>15 DEF Passes, M, v, i

-----------------------------------------------------------------------------
(* Words. *)

\* A run ends inside the text or at its end, and has symbols of its kind only.
LEMMA RunIs ==
  ASSUME text \in Tokens, NEW kind, NEW i \in 1 .. Len(text) + 1
  PROVE  /\ Run(kind, i) \in Nat /\ i + Run(kind, i) \in 1 .. Len(text) + 1
         /\ \A j \in i .. i + Run(kind, i) - 1 : text[j] \in kind
         /\ i + Run(kind, i) <= Len(text) => text[i + Run(kind, i)] \notin kind
         /\ i <= Len(text) /\ text[i] \in kind => Run(kind, i) >= 1
  <1> DEFINE L == Len(text)
             S == {j \in i .. L + 1 : j > L \/ text[j] \notin kind}
             e == Min(S)
  <1>1. L \in Nat /\ i \in Nat BY DEF Tokens
  <1> HIDE DEF L
  <1>2. S \subseteq Nat /\ L + 1 \in S BY <1>1 DEF L
  <1>3. Run(kind, i) = e - i BY DEF Run, L
  <1>4. e \in S /\ \A y \in S : e <= y
    <2> HIDE DEF S
    <2> QED BY <1>2, MinIs
  <1> HIDE DEF e
  <1>5. e \in i .. L + 1 /\ (e > L \/ text[e] \notin kind) BY <1>4
  <1>6. ASSUME NEW j \in i .. e - 1 PROVE text[j] \in kind
    <2>1. j \in i .. L + 1 /\ ~(e <= j) BY <1>1, <1>5
    <2> QED BY <1>4, <2>1
  <1>7. e - i \in Nat /\ i + (e - i) = e /\ e \in 1 .. L + 1 BY <1>1, <1>5 DEF L
  <1>8. e <= L => text[e] \notin kind BY <1>1, <1>5
  <1>9. ASSUME i <= L, text[i] \in kind PROVE e - i >= 1
    <2>1. i \in i .. L + 1 BY <1>1, <1>9
    <2>2. e # i BY <1>5, <1>9, <1>1
    <2> QED BY <1>1, <1>5, <2>2
  <1> HIDE DEF S
  <1>10. /\ e - i \in Nat /\ i + (e - i) \in 1 .. L + 1
         /\ \A j \in i .. i + (e - i) - 1 : text[j] \in kind
         /\ i + (e - i) <= L => text[i + (e - i)] \notin kind
         /\ i <= L /\ text[i] \in kind => e - i >= 1
    BY <1>6, <1>7, <1>8, <1>9
  <1> QED BY <1>3, <1>10 DEF L

\* A body ends inside the text and has no marker.
LEMMA BodyIs ==
  ASSUME text \in Tokens, NEW i \in 1 .. Len(text) + 1
  PROVE  /\ Body(i) \in Nat /\ i + Body(i) \in 1 .. Len(text) + 1
         /\ \A j \in i .. i + Body(i) - 1 : text[j] \notin Markers
         /\ i <= Len(text) /\ text[i] \notin Blanks \cup Markers => Body(i) >= 1
         /\ i <= Len(text) /\ text[i] \notin Letters \cup Blanks \cup Markers => Body(i) = 1
         /\ i <= Len(text) /\ text[i] \in Markers => Body(i) = 0
  <1> DEFINE L == Len(text)
             r == Run(Letters, i)
  <1>1. L \in Nat /\ i \in Nat BY DEF Tokens
  <1>2. /\ r \in Nat /\ i + r \in 1 .. L + 1
        /\ \A j \in i .. i + r - 1 : text[j] \in Letters
        /\ i <= L /\ text[i] \in Letters => r >= 1
    BY RunIs
  <1> HIDE DEF r, L
  <1>3. \A c \in Letters : c \notin Markers BY DEF Letters, Markers
  <1>4. Body(i) = IF r > 0 THEN r ELSE IF i <= L /\ text[i] \notin Blanks \cup Markers THEN 1 ELSE 0
    BY DEF Body, r, L
  <1>5. ASSUME r > 0 PROVE i <= L /\ text[i] \in Letters
    <2>1. i \in i .. i + r - 1 /\ i <= L BY <1>1, <1>2, <1>5
    <2> QED BY <1>2, <2>1
  <1>6. CASE r > 0
    <2>1. Body(i) = r BY <1>4, <1>6
    <2>2. text[i] \notin Markers BY <1>3, <1>5, <1>6
    <2>3. \A j \in i .. i + r - 1 : text[j] \notin Markers BY <1>2, <1>3
    <2> QED BY <1>2, <1>5, <1>6, <2>1, <2>2, <2>3 DEF L
  <1>7. CASE r = 0 /\ i <= L /\ text[i] \notin Blanks \cup Markers
    <2>1. Body(i) = 1 BY <1>4, <1>7
    <2>2. \A j \in i .. i + 1 - 1 : j = i BY <1>1
    <2>3. i + 1 \in 1 .. L + 1 BY <1>1, <1>7
    <2> QED BY <1>7, <2>1, <2>2, <2>3 DEF L
  <1>8. CASE r = 0 /\ ~(i <= L /\ text[i] \notin Blanks \cup Markers)
    <2>1. Body(i) = 0 BY <1>4, <1>8
    <2>2. \A j \in i .. i + 0 - 1 : FALSE BY <1>1
    <2>3. i + 0 \in 1 .. L + 1 BY <1>1 DEF L
    <2> QED BY <1>8, <2>1, <2>2, <2>3 DEF L
  <1> QED BY <1>1, <1>2, <1>6, <1>7, <1>8

\* A word has a symbol at least, ends inside the text and has no marker.
LEMMA WordLengthIs ==
  ASSUME text \in Tokens, at \in 1 .. Len(text), text[at] \notin Markers
  PROVE  /\ WordLength \in Nat /\ WordLength >= 1 /\ at + WordLength \in 1 .. Len(text) + 1
         /\ \A j \in at .. at + WordLength - 1 : text[j] \notin Markers
         /\ text[at] \notin Letters \cup Blanks => WordLength = 1
         /\ text[at] \in Blanks /\ at < Len(text) /\ text[at + 1] \in Markers => WordLength = 1
  <1> DEFINE L == Len(text)
             n == Run(Blanks, at)
             b == Body(at + n)
  <1>1. L \in Nat /\ at \in Nat /\ at \in 1 .. L + 1 /\ at <= L BY DEF Tokens
  <1>2. /\ n \in Nat /\ at + n \in 1 .. L + 1
        /\ \A j \in at .. at + n - 1 : text[j] \in Blanks
        /\ at + n <= L => text[at + n] \notin Blanks
        /\ text[at] \in Blanks => n >= 1
    BY <1>1, RunIs
  <1> HIDE DEF n
  <1>3. /\ b \in Nat /\ (at + n) + b \in 1 .. L + 1
        /\ \A j \in at + n .. (at + n) + b - 1 : text[j] \notin Markers
        /\ at + n <= L /\ text[at + n] \notin Blanks \cup Markers => b >= 1
        /\ at + n <= L /\ text[at + n] \notin Letters \cup Blanks \cup Markers => b = 1
        /\ at + n <= L /\ text[at + n] \in Markers => b = 0
    BY <1>2, BodyIs
  <1> HIDE DEF L, b
  <1>4. \A c \in Blanks : c \notin Markers BY DEF Blanks, Space, Newline, Markers
  <1>5. \A j \in at .. at + n - 1 : text[j] \notin Markers BY <1>2, <1>4
  <1>6. ASSUME NEW j \in at .. (at + n) + b - 1 PROVE text[j] \notin Markers
    <2>1. j \in at .. at + n - 1 \/ j \in at + n .. (at + n) + b - 1 BY <1>1, <1>2, <1>3
    <2> QED BY <1>3, <1>5, <2>1
  <1>7. WordLength = CASE n = 0                                 -> b
                       [] n = 1 /\ b > 0 /\ text[at] = Space -> 1 + b
                       [] n > 1 /\ b > 0                     -> n - 1
                       [] OTHER                              -> n
    BY Zenon DEF WordLength, n, b
  <1>8. CASE n = 0
    <2>1. WordLength = b /\ at + n = at BY <1>1, <1>7, <1>8
    <2>2. text[at] \notin Blanks BY <1>1, <1>2, <1>8
    <2>3. b >= 1 BY <1>1, <1>3, <2>1, <2>2
    <2>4. text[at] \notin Letters \cup Blanks => b = 1 BY <1>1, <1>3, <2>1
    <2>5. \A j \in at .. at + b - 1 : text[j] \notin Markers BY <1>6, <2>1
    <2> QED BY <1>1, <1>3, <2>1, <2>2, <2>3, <2>4, <2>5 DEF L
  <1>9. ASSUME n > 0 PROVE text[at] \in Blanks
    <2>1. at \in at .. at + n - 1 BY <1>1, <1>2, <1>9
    <2> QED BY <1>2, <2>1
  <1>10. ASSUME n > 0, at < L, text[at + 1] \in Markers PROVE n = 1 /\ b = 0
    <2>1. at + 1 \notin at .. at + n - 1 BY <1>5, <1>10
    <2>2. n = 1 BY <1>1, <1>2, <1>10, <2>1
    <2> QED BY <1>1, <1>3, <1>10, <2>2
  <1>11. CASE n = 1 /\ b > 0 /\ text[at] = Space
    <2>1. WordLength = 1 + b BY <1>2, <1>3, <1>7, <1>11
    <2>2. at + (1 + b) = (at + n) + b /\ 1 + b \in Nat /\ 1 + b >= 1 /\ ~(b = 0) /\ n > 0
          /\ \A j \in at .. at + (1 + b) - 1 : j \in at .. (at + n) + b - 1
      BY <1>1, <1>3, <1>11
    <2>3. \A j \in at .. at + (1 + b) - 1 : text[j] \notin Markers BY <1>6, <2>2
    <2> QED BY <1>3, <1>9, <1>10, <2>1, <2>2, <2>3 DEF L
  <1>12. CASE n > 1 /\ b > 0
    <2>1. WordLength = n - 1 BY <1>2, <1>3, <1>7, <1>12
    <2>2. n - 1 \in Nat /\ n - 1 >= 1 /\ at + (n - 1) \in 1 .. L + 1 /\ ~(b = 0) /\ n > 0
          /\ \A j \in at .. at + (n - 1) - 1 : j \in at .. at + n - 1
      BY <1>1, <1>2, <1>3, <1>12
    <2>3. \A j \in at .. at + (n - 1) - 1 : text[j] \notin Markers BY <1>5, <2>2
    <2> QED BY <1>9, <1>10, <2>1, <2>2, <2>3 DEF L
  <1>13. CASE n > 0 /\ ~(n = 1 /\ b > 0 /\ text[at] = Space) /\ ~(n > 1 /\ b > 0)
    <2>1. n # 0 BY <1>2, <1>13
    <2>2. WordLength = n BY <1>7, <1>13, <2>1
    <2>3. n >= 1 BY <1>2, <1>13
    <2> QED BY <1>2, <1>5, <1>9, <1>10, <1>13, <2>2, <2>3 DEF L
  <1> QED BY <1>2, <1>8, <1>11, <1>12, <1>13

-----------------------------------------------------------------------------
(* Types. *)

\* The tokens of a word have no markers.
Plain == Seq(Symbols \ Markers)

TypeOK ==
  /\ pc \in {"names", "encode", "merge", "expand", "text_only", "layout", "mask", "done",
             "refused", "overrun"}
  /\ refs \in Seq(Geometries) /\ K <= MaxRefs
  /\ text \in Tokens /\ at \in Nat \ {0}
  /\ word \in Seq(Plain) /\ ids \in Seq(Tokens) /\ row \in Seq(Tokens)
  /\ filled \in 0 .. MaxRefs

\* No grid is empty.
LEMMA AreaIs == ASSUME NEW g \in Grids PROVE Area(g) \in Nat /\ Area(g) >= 1
  <1>1. PICK x \in Nat \ {0}, y \in Nat \ {0} : g[1] = x /\ g[2] = y BY DEF Grids
  <1>2. Area(g) = x * y BY <1>1 DEF Area
  <1>3. x * y \in Nat /\ x * y >= 1 OBVIOUS
  <1> QED BY <1>2, <1>3

\* What is known of the references' grids.
LEMMA AreasAre ==
  ASSUME refs \in Seq(Geometries)
  PROVE  /\ K \in Nat
         /\ \A k \in 1 .. K : /\ refs[k].cond \in Grids /\ refs[k].grid \in Grids
                              /\ CondAreas[k] = Area(refs[k].cond) /\ GridAreas[k] = Area(refs[k].grid)
                              /\ CondAreas[k] \in Nat /\ CondAreas[k] >= 1
                              /\ GridAreas[k] \in Nat /\ GridAreas[k] >= 1
         /\ Area(Target) \in Nat /\ Area(Target) >= 1
  <1>1. K \in Nat BY DEF K
  <1>2. ASSUME NEW k \in 1 .. K PROVE refs[k].cond \in Grids /\ refs[k].grid \in Grids
    <2>1. refs[k] \in Geometries BY <1>2 DEF K
    <2>2. refs[k] \in [cond : Grids, grid : Grids] BY <2>1, GridsAssumption
    <2> QED BY <2>2
  <1>3. ASSUME NEW k \in 1 .. K
        PROVE  CondAreas[k] = Area(refs[k].cond) /\ GridAreas[k] = Area(refs[k].grid)
    BY DEF CondAreas, GridAreas
  <1> QED BY <1>1, <1>2, <1>3, AreaIs, GridsAssumption

\* A name belongs to a reference or is not known.
LEMMA LookupIs ==
  ASSUME refs \in Seq(Geometries), NEW mention
  PROVE  Lookup(mention) \in 0 .. K
  <1> DEFINE explicit  == {k \in 1 .. K : names[k] = mention}
             automatic == {k \in DOMAIN Automatic \cap 1 .. K : Automatic[k] = mention}
  <1>1. K \in Nat BY DEF K
  <1>2. explicit \subseteq 1 .. K /\ automatic \subseteq 1 .. K OBVIOUS
  <1>3. Lookup(mention) = IF explicit # {} THEN Min(explicit)
                          ELSE IF automatic # {} THEN Min(automatic) ELSE 0
    BY DEF Lookup
  <1> HIDE DEF explicit, automatic
  <1>4. ASSUME NEW S, S \subseteq 1 .. K, S # {} PROVE Min(S) \in 1 .. K
    <2>1. S \subseteq Nat BY <1>1, <1>4
    <2> QED BY <1>4, <2>1, MinIs
  <1>5. /\ explicit # {} => Min(explicit) \in 1 .. K
        /\ automatic # {} => Min(automatic) \in 1 .. K
    BY <1>2, <1>4
  <1> QED BY <1>1, <1>3, <1>5

\* Expanding the names of a caption leaves symbols.
LEMMA ExpandedIs ==
  ASSUME refs \in Seq(Geometries), K <= MaxRefs, text \in Tokens
  PROVE  Expanded \in Tokens
  <1> DEFINE known(s) == Lookup(s) > 0
             body == [i \in DOMAIN text |-> IF known(text[i]) THEN Phrases[Lookup(text[i])] ELSE text[i]]
  <1>1. K \in Nat /\ MaxRefs \in Nat /\ Len(Phrases) \in Nat
    BY CaptionsAssumption DEF K, Tokens
  <1>2. ASSUME NEW i \in DOMAIN text
        PROVE  (IF known(text[i]) THEN Phrases[Lookup(text[i])] ELSE text[i]) \in Symbols
    <2>1. text[i] \in Symbols BY DEF Tokens
    <2>2. ASSUME known(text[i]) PROVE Phrases[Lookup(text[i])] \in Symbols
      <3>1. Lookup(text[i]) \in 1 .. Len(Phrases) BY <1>1, <2>2, LookupIs, CaptionsAssumption
      <3> QED BY <3>1, CaptionsAssumption DEF Tokens
    <2> HIDE DEF known
    <2> QED BY <2>1, <2>2
  <1>3. DOMAIN text = 1 .. Len(text) /\ Len(text) \in Nat BY DEF Tokens
  <1>4. body \in Tokens
    <2> HIDE DEF known
    <2>1. body \in [1 .. Len(text) -> Symbols] BY <1>2, <1>3
    <2> HIDE DEF body
    <2> QED BY <1>3, <2>1 DEF Tokens
  <1>5. <<"mapping", Newline>> \in Tokens BY DEF Tokens, Symbols, Blanks, Newline
  <1>6. Expanded = IF \E i \in DOMAIN text : known(text[i]) THEN <<"mapping", Newline>> \o body ELSE text
    BY DEF Expanded
  <1> HIDE DEF body, known
  <1>7. <<"mapping", Newline>> \o body \in Tokens BY <1>4, <1>5 DEF Tokens
  <1> QED BY <1>6, <1>7

Placeholders == [k \in 1 .. K |-> <<"vision_start", "image_pad", "vision_end">>]

\* So does the template.
LEMMA TemplateIs ==
  ASSUME refs \in Seq(Geometries), NEW caption \in Tokens
  PROVE  /\ Placeholders \in Seq(Tokens) /\ Len(Placeholders) = K
         /\ FlattenSeq(Placeholders) \in Tokens
         /\ Template(caption) \in Tokens
         /\ \E rest \in Tokens :
              /\ Template(caption) =
                   (<<"im_start", "user", Newline>> \o FlattenSeq(Placeholders)) \o rest
              /\ Len(rest) >= 5
  <1>1. K \in Nat BY DEF K
  <1>2. Placeholders \in Seq(Tokens) /\ Len(Placeholders) = K
    <2>1. <<"vision_start", "image_pad", "vision_end">> \in Tokens BY DEF Tokens, Symbols, Markers
    <2>2. Placeholders \in [1 .. K -> Tokens] BY <2>1 DEF Placeholders
    <2> QED BY <1>1, <2>2
  <1>3. FlattenSeq(Placeholders) \in Tokens BY <1>2, FlattenConcat DEF Tokens
  <1> DEFINE a == <<"im_start", "user", Newline>>
             b == FlattenSeq(Placeholders)
             c == <<"im_end", Newline, "im_start", "assistant", Newline>>
             rest == caption \o c
  <1>4. a \in Tokens /\ c \in Tokens /\ Len(c) = 5
    BY DEF Tokens, Symbols, Blanks, Markers, Newline
  <1>5. Template(caption) = ((a \o b) \o caption) \o c BY DEF Template, Placeholders
  <1> HIDE DEF a, b, c
  <1>6. \A x, y, z \in Tokens : (x \o y) \o z = x \o (y \o z) BY ConcatAssociative DEF Tokens
  <1>7. a \o b \in Tokens BY <1>3, <1>4 DEF Tokens, b
  <1>8. rest \in Tokens /\ Len(rest) = Len(caption) + 5 /\ Len(caption) \in Nat
    <2>1. rest \in Tokens /\ Len(rest) = Len(caption) + Len(c) BY <1>4, ConcatProperties DEF Tokens
    <2> QED BY <1>4, <2>1 DEF Tokens
  <1>9. Template(caption) = (a \o b) \o rest BY <1>4, <1>5, <1>6, <1>7
  <1>10. (a \o b) \o rest \in Tokens BY <1>7, <1>8 DEF Tokens
  <1>11. Len(rest) >= 5 BY <1>8
  <1> HIDE DEF rest
  <1> QED BY <1>2, <1>3, <1>8, <1>9, <1>10, <1>11 DEF a, b

\* Plain tokens are tokens.
LEMMA PlainTokens ==
  /\ Plain \subseteq Tokens
  /\ \A w \in Seq(Plain) : w \in Seq(Tokens)
  <1>1. Plain \subseteq Tokens
    <2> SUFFICES ASSUME NEW t \in Plain PROVE t \in Tokens OBVIOUS
    <2>1. t \in Seq(Symbols \ Markers) BY DEF Plain
    <2> QED BY <2>1, SeqMonotonic DEF Tokens
  <1>2. ASSUME NEW w \in Seq(Plain) PROVE w \in Seq(Tokens) BY <1>1, SeqMonotonic
  <1> QED BY <1>1, <1>2

\* A merge makes no marker.
LEMMA MergedIsPlain ==
  ASSUME NEW w \in Seq(Plain), NEW i \in 1 .. Len(w) - 1
  PROVE  MergedAt(w, i) \in Seq(Plain)
  <1> DEFINE v == MergedAt(w, i)
             L == Len(w)
  <1>1. w \in Seq(Tokens) /\ L \in Nat /\ \A j \in 1 .. L : w[j] \in Plain BY PlainTokens
  <1>2. /\ v \in Seq(Tokens) /\ Len(v) = L - 1
        /\ \A j \in 1 .. i - 1 : v[j] = w[j]
        /\ v[i] = w[i] \o w[i + 1]
        /\ \A j \in i + 1 .. L - 1 : v[j] = w[j + 1]
    BY <1>1, MergedAtIs
  <1> HIDE DEF v
  <1>3. i \in 1 .. L - 1 OBVIOUS
  <1> HIDE DEF L
  <1>4. ASSUME NEW j \in 1 .. L - 1 PROVE v[j] \in Plain
    <2>1. CASE j \in 1 .. i - 1
      <3>1. j \in 1 .. L BY <1>1
      <3> QED BY <1>1, <1>2, <2>1, <3>1
    <2>2. CASE j = i
      <3>1. i \in 1 .. L /\ i + 1 \in 1 .. L BY <1>1, <1>3
      <3>2. w[i] \in Plain /\ w[i + 1] \in Plain BY <1>1, <3>1
      <3>3. w[i] \o w[i + 1] \in Plain BY <3>2 DEF Plain
      <3> QED BY <1>2, <2>2, <3>3
    <2>3. CASE j \in i + 1 .. L - 1
      <3>1. j + 1 \in 1 .. L BY <1>1
      <3> QED BY <1>1, <1>2, <2>3, <3>1
    <2>4. j \in 1 .. i - 1 \/ j = i \/ j \in i + 1 .. L - 1 BY <1>1, <1>3
    <2> QED BY <2>1, <2>2, <2>3, <2>4
  <1>5. v = [j \in 1 .. L - 1 |-> v[j]] BY <1>2
  <1>6. L - 1 \in Nat BY <1>1, <1>3
  <1>7. v \in [1 .. L - 1 -> Plain] BY <1>4, <1>5
  <1> QED BY <1>6, <1>7 DEF v

\* A word begins as plain tokens of one symbol.
LEMMA BeginsPlain ==
  ASSUME TypeOK, BeginWord
  PROVE  /\ WordLength \in Nat /\ at + WordLength \in 1 .. Len(text) + 1 /\ WordLength >= 1
         /\ word' \in Seq(Plain) /\ Len(word') = WordLength
         /\ \A i \in 1 .. WordLength : word'[i] = <<text[at + i - 1]>>
         /\ \A i \in 1 .. WordLength : at + i - 1 \in at .. at + WordLength - 1
         /\ \A j \in at .. at + WordLength - 1 : text[j] \in Symbols \ Markers
         /\ at \in 1 .. Len(text)
  <1> DEFINE n == WordLength
  <1>1. text \in Tokens /\ at \in 1 .. Len(text) /\ text[at] \notin Markers
        /\ Len(text) \in Nat /\ at \in Nat
    BY DEF TypeOK, BeginWord, Tokens
  <1>2. /\ n \in Nat /\ n >= 1 /\ at + n \in 1 .. Len(text) + 1
        /\ \A j \in at .. at + n - 1 : text[j] \notin Markers
    BY <1>1, WordLengthIs
  <1>3. word' = [i \in 1 .. n |-> <<text[at + i - 1]>>] BY DEF BeginWord
  <1> HIDE DEF n
  <1>4. \A i \in 1 .. n : at + i - 1 \in at .. at + n - 1 BY <1>1, <1>2
  <1>5. \A j \in at .. at + n - 1 : j \in 1 .. Len(text) BY <1>1, <1>2
  <1>6. \A j \in at .. at + n - 1 : text[j] \in Symbols \ Markers BY <1>1, <1>2, <1>5 DEF Tokens
  <1>7. \A i \in 1 .. n : <<text[at + i - 1]>> \in Plain BY <1>4, <1>6 DEF Plain
  <1>8. word' \in [1 .. n -> Plain] BY <1>3, <1>7
  <1>9. word' \in Seq(Plain) /\ Len(word') = n BY <1>2, <1>8
  <1> QED BY <1>1, <1>2, <1>3, <1>4, <1>6, <1>9 DEF n

\* A block is as long as its grid has places.
LEMMA BlockIs ==
  ASSUME NEW n \in Nat, n >= 1
  PROVE  /\ Block(n) \in Seq(Tokens) /\ Len(Block(n)) = n
         /\ Block(n)[1] = VisionStart /\ \A i \in 2 .. n : Block(n)[i] = ImagePad
  <1> DEFINE p == Pads(n - 1)
  <1>1. VisionStart \in Tokens /\ ImagePad \in Tokens
    BY DEF VisionStart, ImagePad, Tokens, Symbols, Markers
  <1>2. p \in Seq(Tokens) /\ Len(p) = n - 1 /\ \A i \in 1 .. n - 1 : p[i] = ImagePad
    <2>1. n - 1 \in Nat OBVIOUS
    <2>2. p \in [1 .. n - 1 -> Tokens] /\ \A i \in 1 .. n - 1 : p[i] = ImagePad BY <1>1 DEF Pads
    <2> HIDE DEF p
    <2> QED BY <2>1, <2>2
  <1> HIDE DEF p
  <1>3. <<VisionStart>> \in Seq(Tokens) /\ Len(<<VisionStart>>) = 1 /\ <<VisionStart>>[1] = VisionStart
    BY <1>1
  <1>4. Block(n) = <<VisionStart>> \o p BY DEF Block, p
  <1>5. /\ Block(n) \in Seq(Tokens) /\ Len(Block(n)) = 1 + (n - 1)
        /\ \A i \in 1 .. 1 + (n - 1) : Block(n)[i] = IF i <= 1 THEN <<VisionStart>>[i] ELSE p[i - 1]
    BY <1>2, <1>3, <1>4, ConcatProperties
  <1>6. 1 + (n - 1) = n /\ 1 \in 1 .. n OBVIOUS
  <1>7. \A i \in 2 .. n : i - 1 \in 1 .. n - 1 /\ i \in 1 .. n /\ ~(i <= 1) OBVIOUS
  <1> QED BY <1>2, <1>3, <1>5, <1>6, <1>7

Blocks == [k \in 1 .. K |-> Block(GridAreas[k])]

\* The blocks behind the image are tokens.
LEMMA BlocksAre ==
  ASSUME refs \in Seq(Geometries)
  PROVE  /\ Blocks \in Seq(Seq(Tokens)) /\ Len(Blocks) = K
         /\ \A k \in 1 .. K : Blocks[k] = Block(GridAreas[k])
         /\ FlattenSeq(Blocks) \in Seq(Tokens)
  <1>1. K \in Nat /\ \A k \in 1 .. K : Block(GridAreas[k]) \in Seq(Tokens) BY AreasAre, BlockIs
  <1>2. Blocks \in [1 .. K -> Seq(Tokens)] /\ \A k \in 1 .. K : Blocks[k] = Block(GridAreas[k])
    BY <1>1 DEF Blocks
  <1>3. Blocks \in Seq(Seq(Tokens)) /\ Len(Blocks) = K BY <1>1, <1>2
  <1> QED BY <1>2, <1>3, FlattenConcat

\* What the steps write into the rows.
LEMMA RowsType ==
  ASSUME TypeOK
  PROVE  /\ \A n \in Nat : Pads(n) \in Seq(Tokens) /\ Len(Pads(n)) = n
         /\ <<VisionStart>> \in Seq(Tokens) /\ <<<<"boi">>, <<"tms">>>> \in Seq(Tokens)
         /\ Block(Area(Target)) \in Seq(Tokens)
  <1>1. VisionStart \in Tokens /\ ImagePad \in Tokens /\ <<"boi">> \in Tokens /\ <<"tms">> \in Tokens
    BY DEF VisionStart, ImagePad, Tokens, Symbols, Markers
  <1>2. ASSUME NEW n \in Nat PROVE Pads(n) \in Seq(Tokens) /\ Len(Pads(n)) = n
    <2>1. Pads(n) \in [1 .. n -> Tokens] BY <1>1 DEF Pads
    <2> QED BY <2>1
  <1>3. Block(Area(Target)) \in Seq(Tokens) BY GridsAssumption, AreaIs, BlockIs
  <1> QED BY <1>1, <1>2, <1>3

\* Type correctness, at the beginning and over a step.
LEMMA TypeInit == Init => TypeOK
  <1> SUFFICES ASSUME Init PROVE TypeOK OBVIOUS
  <1>1. PICK k \in 0 .. MaxRefs : refs \in [1 .. k -> Geometries] BY DEF Init
  <1>2. k \in Nat BY CaptionsAssumption
  <1>3. refs \in Seq(Geometries) /\ K = k BY <1>1, <1>2 DEF K
  <1>4. 0 \in 0 .. MaxRefs /\ k <= MaxRefs BY CaptionsAssumption
  <1> QED BY <1>3, <1>4, CaptionsAssumption DEF Init, TypeOK

LEMMA TypeNext == TypeOK /\ [Next]_vars => TypeOK'
  <1> SUFFICES ASSUME TypeOK, [Next]_vars PROVE TypeOK' OBVIOUS
  <1>0. /\ K \in Nat /\ MaxRefs \in Nat /\ at \in Nat /\ at >= 1 /\ Len(text) \in Nat
        /\ Len(ids) \in Nat /\ Len(word) \in Nat /\ word \in Seq(Tokens)
    BY AreasAre, CaptionsAssumption, PlainTokens DEF TypeOK, Tokens
  <1>1. CASE Names
    <2>1. Expanded \in Tokens BY ExpandedIs DEF TypeOK
    <2>2. Template(Expanded) \in Tokens BY <2>1, TemplateIs DEF TypeOK
    <2> QED BY <1>1, <2>2 DEF Names, TypeOK, Layout, K
  <1>2. CASE EncodeMarker
    <2>1. at \in 1 .. Len(text) BY <1>0, <1>2 DEF EncodeMarker
    <2>2. <<text[at]>> \in Tokens BY <2>1 DEF TypeOK, Tokens
    <2>3. Append(ids, <<text[at]>>) \in Seq(Tokens) BY <2>2 DEF TypeOK
    <2> QED BY <1>0, <1>2, <2>3 DEF EncodeMarker, TypeOK, Layout, K
  <1>3. CASE BeginWord
    <2>1. word' \in Seq(Plain) /\ at + WordLength \in Nat \ {0}
      BY <1>0, <1>3, BeginsPlain
    <2> QED BY <1>3, <2>1 DEF BeginWord, TypeOK, Layout, K
  <1>4. CASE Merge
    <2>1. Best(word) \in 1 .. Len(word) - 1 BY <1>0, <1>4, BestIsLeftmost DEF Merge
    <2>2. word' \in Seq(Plain) BY <1>4, <2>1, MergedIsPlain DEF Merge, TypeOK
    <2> QED BY <1>4, <2>2 DEF Merge, TypeOK, Layout, K
  <1>5. CASE EndWord
    <2>1. ids \o word \in Seq(Tokens) BY <1>0 DEF TypeOK
    <2>2. <<>> \in Seq(Plain) OBVIOUS
    <2> QED BY <1>5, <2>1, <2>2 DEF EndWord, TypeOK, Layout, K
  <1>6. CASE Encoded
    <2>1. pc' \in {"text_only", "expand"} BY <1>6 DEF Encoded
    <2> QED BY <1>6, <2>1 DEF Encoded, TypeOK, Layout, K
  <1>7. CASE Expand
    <2> DEFINE n == IF filled < K THEN Area(refs[filled + 1].cond) ELSE 0
    <2>1. n \in Nat
      <3>1. CASE filled < K
        <4>1. filled + 1 \in 1 .. K BY <1>0, <3>1 DEF TypeOK
        <4> QED BY <3>1, <4>1, AreasAre, AreaIs DEF TypeOK
      <3> QED BY <3>1
    <2>2. (row \o <<VisionStart>>) \o Pads(n) \in Seq(Tokens) BY <2>1, RowsType DEF TypeOK
    <2> HIDE DEF n
    <2>3. CASE filled < MaxRefs
      <3>1. /\ row' = (row \o <<VisionStart>>) \o Pads(n)
            /\ filled' = filled + 1 /\ at' = at + 2 /\ pc' = pc
        BY <1>7, <2>3 DEF Expand, n
      <3>2. filled + 1 \in 0 .. MaxRefs BY <1>0, <2>3 DEF TypeOK
      <3> QED BY <1>0, <1>7, <2>2, <3>1, <3>2 DEF Expand, TypeOK, Layout, K
    <2>4. CASE ~(filled < MaxRefs)
      BY <1>7, <2>4 DEF Expand, TypeOK, Layout, K
    <2> QED BY <2>3, <2>4
  <1>8. CASE Copy
    <2>1. at \in 1 .. Len(ids) BY <1>0, <1>8 DEF Copy
    <2>2. ids[at] \in Tokens BY <2>1 DEF TypeOK
    <2>3. Append(row, ids[at]) \in Seq(Tokens) BY <2>2 DEF TypeOK
    <2> QED BY <1>0, <1>8, <2>3 DEF Copy, TypeOK, Layout, K
  <1>9. CASE Refuse BY <1>9 DEF Refuse, TypeOK, Layout, K
  <1>10. CASE AppendRows
    <2>1. row' = ((row \o <<<<"boi">>, <<"tms">>>>) \o Block(Area(Target))) \o FlattenSeq(Blocks)
      BY <1>10 DEF AppendRows, Blocks
    <2>2. row' \in Seq(Tokens)
      <3>1. row \o <<<<"boi">>, <<"tms">>>> \in Seq(Tokens) BY RowsType DEF TypeOK
      <3>2. (row \o <<<<"boi">>, <<"tms">>>>) \o Block(Area(Target)) \in Seq(Tokens)
        BY <3>1, RowsType
      <3>3. FlattenSeq(Blocks) \in Seq(Tokens) BY BlocksAre DEF TypeOK
      <3> QED BY <2>1, <3>2, <3>3
    <2>3. pc' \in {"overrun", "layout", "refused"} BY <1>10 DEF AppendRows
    <2> QED BY <1>10, <2>2, <2>3 DEF AppendRows, TypeOK, Layout, K
  <1>11. CASE PlaceBlock
    <2>1. pc' \in {"mask", pc} BY <1>11 DEF PlaceBlock
    <2> QED BY <1>11, <2>1 DEF PlaceBlock, TypeOK, K
  <1>12. CASE Mask
    <2>1. pc' \in {"done", "refused"} BY <1>12 DEF Mask
    <2> QED BY <1>12, <2>1 DEF Mask, TypeOK, Layout, K
  <1>13. CASE PlaceText
    <2>1. Pads(Area(Target)) \in Seq(Tokens) BY AreasAre, RowsType DEF TypeOK
    <2>2. row' = (ids \o <<<<"boi">>, <<"tms">>>>) \o Pads(Area(Target)) BY <1>13 DEF PlaceText
    <2>3. row' \in Seq(Tokens) BY <2>1, <2>2, RowsType DEF TypeOK
    <2> QED BY <1>13, <2>3 DEF PlaceText, TypeOK, K
  <1>14. CASE UNCHANGED vars BY <1>14 DEF vars, TypeOK, K
  <1> QED
    BY <1>1, <1>2, <1>3, <1>4, <1>5, <1>6, <1>7, <1>8, <1>9, <1>10, <1>11, <1>12, <1>13,
       <1>14
    DEF Next

\* Type correctness: words have no markers, and no more references are put in
\* than the sequence has room for.
THEOREM TypeCorrect == Spec => []TypeOK
  <1> QED BY TypeInit, TypeNext, PTL DEF Spec

-----------------------------------------------------------------------------
(* The encoding. *)

Singles(s) == [i \in DOMAIN s |-> <<s[i]>>]

\* The tokens made so far are those of the text so far; merging the word has not
\* changed what the definition makes of it.
Encoding ==
  /\ pc = "names" => ids = <<>> /\ word = <<>> /\ at = 1
  /\ pc = "encode" => word = <<>>
  /\ pc \in {"encode", "merge"} =>
       at <= Len(text) + 1 /\ FlattenSeq(ids \o word) = SubSeq(text, 1, at - 1)
  /\ pc = "merge" => Reference(Singles(FlattenSeq(word))) = Reference(word)
  /\ pc \in {"expand", "text_only", "layout", "mask", "done", "overrun"} =>
       FlattenSeq(ids) = text

\* What comes behind a part of a sequence makes it longer.
LEMMA PartGrows ==
  ASSUME NEW S, NEW s \in Seq(S), NEW i \in Nat, NEW n \in Nat, i + n <= Len(s), NEW t \in Seq(S),
         Len(t) = n, \A j \in 1 .. n : t[j] = s[i + j]
  PROVE  SubSeq(s, 1, i) \o t = SubSeq(s, 1, i + n)
  <1> DEFINE a == SubSeq(s, 1, i)
             b == SubSeq(s, 1, i + n)
  <1>1. a \in Seq(S) /\ Len(a) = i /\ \A j \in 1 .. i : a[j] = s[j] OBVIOUS
  <1>2. b \in Seq(S) /\ Len(b) = i + n /\ \A j \in 1 .. i + n : b[j] = s[j] OBVIOUS
  <1> HIDE DEF a, b
  <1>3. /\ a \o t \in Seq(S) /\ Len(a \o t) = i + n
        /\ \A j \in 1 .. i + n : (a \o t)[j] = IF j <= i THEN a[j] ELSE t[j - i]
    BY <1>1, ConcatProperties
  <1>4. ASSUME NEW j \in 1 .. i + n PROVE (a \o t)[j] = b[j]
    <2>1. CASE j <= i
      <3>1. j \in 1 .. i BY <2>1
      <3> QED BY <1>1, <1>2, <1>3, <1>4, <2>1, <3>1
    <2>2. CASE ~(j <= i)
      <3>1. j - i \in 1 .. n /\ i + (j - i) = j BY <2>2
      <3>2. t[j - i] = s[j] BY <3>1
      <3> QED BY <1>2, <1>3, <1>4, <2>2, <3>2
    <2> QED BY <2>1, <2>2
  <1>5. a \o t = b BY <1>2, <1>3, <1>4, SeqEqual
  <1> QED BY <1>5 DEF a, b

\* The encoding, at the beginning and over a step.
LEMMA EncodingInit == Init => Encoding BY DEF Init, Encoding

LEMMA EncodingNext == TypeOK /\ Encoding /\ [Next]_vars => Encoding'
  <1> SUFFICES ASSUME TypeOK, Encoding, [Next]_vars PROVE Encoding' OBVIOUS
  <1>0. /\ K \in Nat /\ at \in Nat /\ at >= 1 /\ Len(text) \in Nat
        /\ ids \in Seq(Tokens) /\ word \in Seq(Tokens) /\ text \in Tokens
    BY AreasAre, PlainTokens DEF TypeOK, Tokens
  <1>1. CASE Names
    <2>1. pc = "names" /\ ids = <<>> /\ word = <<>> /\ at = 1 BY <1>1 DEF Names, Encoding
    <2>2. <<>> \o <<>> = <<>> OBVIOUS
    <2>3. FlattenSeq(<<>>) = <<>> BY FlattenSmall
    <2>4. Len(text') \in Nat /\ SubSeq(text', 1, 1 - 1) = <<>>
      <3>1. text' \in Tokens BY TypeNext DEF TypeOK
      <3> QED BY <3>1 DEF Tokens
    <2>5. ids' = <<>> /\ word' = <<>> /\ at' = 1 BY <1>1, <2>1 DEF Names
    <2>6. pc' \in {"encode", "refused"} BY <1>1 DEF Names
    <2>7. FlattenSeq(ids' \o word') = SubSeq(text', 1, at' - 1)
      <3>1. ids' \o word' = <<>> BY <2>2, <2>5
      <3>2. SubSeq(text', 1, at' - 1) = <<>> BY <2>4, <2>5
      <3> QED BY <2>3, <3>1, <3>2
    <2>8. at' <= Len(text') + 1
      <3>1. 1 <= Len(text') + 1 BY <2>4
      <3> QED BY <2>5, <3>1
    <2>9. word' = <<>> BY <2>5
    <2>10. pc' \notin {"names", "merge", "expand", "text_only", "layout", "mask", "done", "overrun"}
      BY <2>6
    <2> QED BY <2>7, <2>8, <2>9, <2>10 DEF Encoding
  <1>2. CASE EncodeMarker
    <2> DEFINE t == <<text[at]>>
    <2>1. at \in 1 .. Len(text) /\ pc = "encode" /\ word = <<>> /\ word' = word /\ pc' = pc
          /\ at' = at + 1 /\ text' = text /\ ids' = Append(ids, t)
      BY <1>0, <1>2 DEF EncodeMarker, Encoding
    <2>2. t \in Tokens /\ <<t>> \in Seq(Tokens) BY <1>0, <2>1 DEF Tokens
    <2>3. FlattenSeq(ids) = SubSeq(text, 1, at - 1)
      <3>1. ids \o <<>> = ids BY <1>0
      <3> QED BY <2>1, <3>1 DEF Encoding
    <2>4. ids' = ids \o <<t>>
      <3> HIDE DEF t
      <3> QED BY <1>0, <2>1, <2>2
    <2>5. FlattenSeq(ids \o <<t>>) = FlattenSeq(ids) \o FlattenSeq(<<t>>)
      BY <1>0, <2>2, FlattenConcat DEF Tokens
    <2>6. FlattenSeq(<<t>>) = t BY <2>2, FlattenSmall DEF Tokens
    <2>7. SubSeq(text, 1, at - 1) \o t = SubSeq(text, 1, (at - 1) + 1)
      <3> DEFINE i == at - 1
      <3>1. /\ i \in Nat /\ 1 \in Nat /\ i + 1 <= Len(text) /\ Len(t) = 1
            /\ \A j \in 1 .. 1 : t[j] = text[i + j]
        BY <1>0, <2>1
      <3>2. text \in Seq(Symbols) /\ t \in Seq(Symbols) BY <1>0, <2>2 DEF Tokens
      <3> HIDE DEF t, i
      <3>3. SubSeq(text, 1, i) \o t = SubSeq(text, 1, i + 1) BY <3>1, <3>2, PartGrows
      <3> QED BY <3>3 DEF i
    <2>8. (at - 1) + 1 = (at + 1) - 1 /\ at + 1 <= Len(text) + 1 BY <1>0, <2>1
    <2> HIDE DEF t
    <2>9. ids' \o word' = ids \o <<t>>
      <3>1. ids \o <<t>> \in Seq(Tokens) BY <1>0, <2>2
      <3>2. (ids \o <<t>>) \o <<>> = ids \o <<t>> BY <3>1
      <3> QED BY <2>1, <2>4, <3>2
    <2> QED BY <2>1, <2>3, <2>5, <2>6, <2>7, <2>8, <2>9 DEF Encoding
  <1>3. CASE BeginWord
    <2> DEFINE n == WordLength
    <2>1. pc = "encode" /\ word = <<>> /\ pc' = "merge" /\ ids' = ids /\ text' = text /\ at' = at + n
          /\ FlattenSeq(ids \o word) = SubSeq(text, 1, at - 1)
      BY <1>3 DEF BeginWord, Encoding
    <2>2. /\ n \in Nat /\ at + n \in 1 .. Len(text) + 1 /\ n >= 1
          /\ word' \in Seq(Plain) /\ Len(word') = n
          /\ \A i \in 1 .. n : word'[i] = <<text[at + i - 1]>>
          /\ at \in 1 .. Len(text)
      BY <1>3, BeginsPlain
    <2> HIDE DEF n
    <2> DEFINE t == [i \in 1 .. n |-> text[at + i - 1]]
    <2>3. t \in Tokens /\ Len(t) = n /\ \A i \in 1 .. n : t[i] = text[at + i - 1]
      <3>1. \A i \in 1 .. n : at + i - 1 \in 1 .. Len(text) BY <1>0, <2>2
      <3>2. \A i \in 1 .. n : text[at + i - 1] \in Symbols BY <1>0, <3>1 DEF Tokens
      <3>3. t \in [1 .. n -> Symbols] /\ \A i \in 1 .. n : t[i] = text[at + i - 1] BY <3>2
      <3> HIDE DEF t
      <3> QED BY <2>2, <3>3 DEF Tokens
    <2> HIDE DEF t
    <2>4. word' \in Seq(Tokens) BY <2>2, PlainTokens
    <2>5. word' = Singles(t)
      <3>1. DOMAIN t = 1 .. n BY <2>2, <2>3 DEF Tokens
      <3>2. word' = [i \in 1 .. n |-> word'[i]] BY <2>2
      <3> QED BY <2>2, <2>3, <3>1, <3>2 DEF Singles
    <2>6. FlattenSeq(word') = t
      <3>1. FlattenSeq([i \in DOMAIN t |-> <<t[i]>>]) = t BY <2>3, FlattenSmall DEF Tokens
      <3> QED BY <2>5, <3>1 DEF Singles
    <2>7. FlattenSeq(ids) = SubSeq(text, 1, at - 1)
      <3>1. ids \o <<>> = ids BY <1>0
      <3> QED BY <2>1, <3>1
    <2>8. FlattenSeq(ids \o word') = FlattenSeq(ids) \o t
      BY <1>0, <2>4, <2>6, FlattenConcat DEF Tokens
    <2>9. SubSeq(text, 1, at - 1) \o t = SubSeq(text, 1, (at - 1) + n)
      <3> DEFINE i == at - 1
      <3>1. /\ i \in Nat /\ i + n <= Len(text)
            /\ \A j \in 1 .. n : t[j] = text[i + j]
        <4>1. \A j \in 1 .. n : (at - 1) + j = at + j - 1 BY <1>0, <2>2
        <4> QED BY <1>0, <2>2, <2>3, <4>1
      <3>2. text \in Seq(Symbols) /\ t \in Seq(Symbols) BY <1>0, <2>3 DEF Tokens
      <3> HIDE DEF i
      <3>3. SubSeq(text, 1, i) \o t = SubSeq(text, 1, i + n) BY <2>2, <2>3, <3>1, <3>2, PartGrows
      <3> QED BY <3>3 DEF i
    <2>10. (at - 1) + n = (at + n) - 1 /\ at + n <= Len(text) + 1 BY <1>0, <2>2
    <2> QED BY <2>1, <2>5, <2>6, <2>7, <2>8, <2>9, <2>10 DEF Encoding
  <1>4. CASE Merge
    <2> DEFINE w == MergedAt(word, Best(word))
    <2>1. pc = "merge" /\ pc' = pc /\ Mergeable(word) # {} /\ word' = w
          /\ ids' = ids /\ text' = text /\ at' = at
      BY <1>4 DEF Merge
    <2>2. Best(word) \in 1 .. Len(word) - 1 BY <1>0, <2>1, BestIsLeftmost
    <2>3. w \in Seq(Tokens) /\ FlattenSeq(w) = FlattenSeq(word) BY <1>0, <2>2, MergedAtIs
    <2>4. Reference(w) = Reference(word) BY <1>0, <2>1, MergeKeepsReference
    <2> HIDE DEF w
    <2>5. FlattenSeq(ids \o w) = FlattenSeq(ids \o word)
      <3>1. FlattenSeq(ids \o w) = FlattenSeq(ids) \o FlattenSeq(w)
        BY <1>0, <2>3, FlattenConcat DEF Tokens
      <3>2. FlattenSeq(ids \o word) = FlattenSeq(ids) \o FlattenSeq(word)
        BY <1>0, FlattenConcat DEF Tokens
      <3> QED BY <2>3, <3>1, <3>2
    <2> QED BY <2>1, <2>3, <2>4, <2>5 DEF Encoding
  <1>5. CASE EndWord
    <2>1. pc = "merge" /\ pc' = "encode" /\ word' = <<>> /\ ids' = ids \o word
          /\ text' = text /\ at' = at
      BY <1>5 DEF EndWord
    <2>2. (ids \o word) \o <<>> = ids \o word
      <3>1. ids \o word \in Seq(Tokens) BY <1>0
      <3> QED BY <3>1
    <2> QED BY <2>1, <2>2 DEF Encoding
  <1>6. CASE Encoded
    <2>1. pc = "encode" /\ word = <<>> /\ at > Len(text) /\ ids' = ids /\ text' = text
          /\ pc' \in {"text_only", "expand"}
      BY <1>6 DEF Encoded, Encoding
    <2>2. ids \o <<>> = ids BY <1>0
    <2>3. at - 1 = Len(text) /\ FlattenSeq(ids) = SubSeq(text, 1, at - 1)
      BY <1>0, <2>1, <2>2 DEF Encoding
    <2>4. SubSeq(text, 1, Len(text)) = text BY <1>0, SubSeqFull DEF Tokens
    <2> QED BY <2>1, <2>3, <2>4 DEF Encoding
  <1>7. CASE Expand
    <2>1. pc = "expand" /\ pc' \in {"expand", "overrun"} /\ ids' = ids /\ text' = text
      BY <1>7 DEF Expand
    <2> QED BY <2>1 DEF Encoding
  <1>8. CASE Copy BY <1>8 DEF Copy, Encoding
  <1>9. CASE Refuse BY <1>9 DEF Refuse, Encoding
  <1>10. CASE AppendRows
    <2>1. pc = "expand" /\ pc' \in {"overrun", "layout", "refused"} /\ ids' = ids /\ text' = text
      BY <1>10 DEF AppendRows
    <2> QED BY <2>1 DEF Encoding
  <1>11. CASE PlaceBlock
    <2>1. pc = "layout" /\ pc' \in {"mask", "layout"} /\ ids' = ids /\ text' = text
      BY <1>11 DEF PlaceBlock
    <2> QED BY <2>1 DEF Encoding
  <1>12. CASE Mask
    <2>1. pc = "mask" /\ pc' \in {"done", "refused"} /\ ids' = ids /\ text' = text
      BY <1>12 DEF Mask
    <2> QED BY <2>1 DEF Encoding
  <1>13. CASE PlaceText BY <1>13 DEF PlaceText, Encoding
  <1>14. CASE UNCHANGED vars BY <1>14 DEF vars, Encoding
  <1> QED
    BY <1>1, <1>2, <1>3, <1>4, <1>5, <1>6, <1>7, <1>8, <1>9, <1>10, <1>11, <1>12, <1>13,
       <1>14
    DEF Next

\* At its end the encoding is what EncodingIsExact says.
LEMMA ExactNow == TypeOK /\ Encoding => EncodingIsExact
  <1> SUFFICES ASSUME TypeOK, Encoding PROVE EncodingIsExact OBVIOUS
  <1>0. /\ at \in Nat /\ at >= 1 /\ Len(text) \in Nat
        /\ ids \in Seq(Tokens) /\ word \in Seq(Tokens) /\ text \in Tokens
    BY PlainTokens DEF TypeOK, Tokens
  <1>1. ASSUME pc = "merge", Mergeable(word) = {}
        PROVE  LET symbols == FlattenSeq(word)
               IN  /\ symbols = SubSeq(text, at - Len(symbols), at - 1)
                   /\ word = Reference([i \in DOMAIN symbols |-> <<symbols[i]>>])
    <2> DEFINE s == FlattenSeq(word)
               a == FlattenSeq(ids)
               p == SubSeq(text, 1, at - 1)
    <2>1. a \in Tokens /\ s \in Tokens /\ p = a \o s /\ at <= Len(text) + 1
      BY <1>0, <1>1, FlattenConcat DEF Encoding, Tokens
    <2>2. p \in Tokens /\ Len(p) = at - 1 /\ \A j \in 1 .. at - 1 : p[j] = text[j]
      <3> DEFINE i == at - 1
      <3>1. text \in Seq(Symbols) /\ i \in 0 .. Len(text) BY <1>0, <2>1 DEF Tokens
      <3> HIDE DEF i
      <3>2. /\ SubSeq(text, 1, i) \in Seq(Symbols) /\ Len(SubSeq(text, 1, i)) = i
            /\ \A j \in 1 .. i : SubSeq(text, 1, i)[j] = text[j]
        BY <3>1
      <3> QED BY <3>2 DEF i, Tokens
    <2> HIDE DEF s, a, p
    <2>3. /\ Len(a) \in Nat /\ Len(s) \in Nat /\ Len(p) = Len(a) + Len(s)
          /\ \A j \in 1 .. Len(a) + Len(s) : p[j] = IF j <= Len(a) THEN a[j] ELSE s[j - Len(a)]
      BY <2>1, ConcatProperties DEF Tokens
    <2> DEFINE f == at - Len(s)
               q == SubSeq(text, f, at - 1)
    <2>4. f = Len(a) + 1 BY <1>0, <2>2, <2>3
    <2>5. q \in Tokens /\ Len(q) = Len(s) /\ \A j \in 1 .. Len(s) : q[j] = text[f + j - 1]
      <3>1. f \in 1 .. Len(text) + 1 /\ at - 1 \in f - 1 .. Len(text) /\ (at - 1) - f + 1 = Len(s)
        BY <1>0, <2>1, <2>2, <2>3, <2>4
      <3> HIDE DEF f
      <3> QED BY <1>0, <3>1, SubSeqProperties DEF Tokens
    <2> HIDE DEF q
    <2>6. ASSUME NEW j \in 1 .. Len(s) PROVE q[j] = s[j]
      <3>1. /\ f + j - 1 = Len(a) + j /\ Len(a) + j \in 1 .. Len(a) + Len(s)
            /\ ~(Len(a) + j <= Len(a)) /\ (Len(a) + j) - Len(a) = j /\ Len(a) + j \in 1 .. at - 1
        BY <1>0, <2>2, <2>3, <2>4
      <3> QED BY <2>2, <2>3, <2>5, <3>1
    <2>7. q = s BY <2>1, <2>5, <2>6, SeqEqual DEF Tokens
    <2>8. word = Reference(Singles(s))
      <3>1. Reference(word) = word BY <1>0, <1>1, ReferenceOfMerged
      <3> QED BY <1>1, <3>1 DEF Encoding, s
    <2> QED BY <2>7, <2>8 DEF Singles, s, q
  <1>2. pc \in {"expand", "text_only"} => FlattenSeq(ids) = text BY DEF Encoding
  <1> QED BY <1>1, <1>2 DEF EncodingIsExact

\* The encoding is exact: a word that is merged pair by pair, the leftmost of the
\* best each time (bpe_apply_merge), has the tokens that the merges make when they
\* come in the order of their ranks, and the tokens are the text.
THEOREM Exact == Spec => []EncodingIsExact
  <1>1. Init => TypeOK /\ Encoding BY TypeInit, EncodingInit
  <1>2. TypeOK /\ Encoding /\ [Next]_vars => TypeOK' /\ Encoding' BY TypeNext, EncodingNext
  <1> QED BY <1>1, <1>2, ExactNow, PTL DEF Spec

-----------------------------------------------------------------------------
(* Sums, parts and counts. *)

\* A sum does not shrink, and grows by one at least with each value that is not zero.
LEMMA TotalGrows ==
  ASSUME NEW f, NEW n \in Nat, \A k \in 1 .. n : f[k] \in Nat
  PROVE  /\ \A j \in 0 .. n, i \in 0 .. n : i <= j => Total(f, i) <= Total(f, j)
         /\ (\A k \in 1 .. n : f[k] >= 1) =>
              \A j \in 0 .. n, i \in 0 .. n : i <= j => Total(f, i) + (j - i) <= Total(f, j)
  <1>1. /\ \A i \in 0 .. n : Total(f, i) \in Nat
        /\ \A i \in 1 .. n : Total(f, i) = Total(f, i - 1) + f[i]
    BY TotalFollows
  <1> DEFINE A == \A k \in 1 .. n : f[k] >= 1
             T == {j \in 0 .. n : \A i \in 0 .. j :
                     Total(f, i) <= Total(f, j) /\ (A => Total(f, i) + (j - i) <= Total(f, j))}
  <1>2. 0 \in T
    <2>1. 0 .. 0 = {0} /\ 0 \in 0 .. n OBVIOUS
    <2> HIDE DEF A
    <2> QED BY <1>1, <2>1
  <1>3. ASSUME NEW j \in 1 .. n, j - 1 \in T PROVE j \in T
    <2>1. j \in 0 .. n /\ j - 1 \in 0 .. n OBVIOUS
    <2>2. Total(f, j) = Total(f, j - 1) + f[j] /\ f[j] \in Nat /\ (A => f[j] >= 1) BY <1>1
    <2> HIDE DEF A
    <2>3. ASSUME NEW i \in 0 .. j
          PROVE  Total(f, i) <= Total(f, j) /\ (A => Total(f, i) + (j - i) <= Total(f, j))
      <3>1. CASE i = j BY <1>1, <2>1, <3>1
      <3>2. CASE i # j
        <4>1. i \in 0 .. j - 1 /\ i \in 0 .. n BY <3>2
        <4>2. /\ Total(f, i) <= Total(f, j - 1)
              /\ A => Total(f, i) + ((j - 1) - i) <= Total(f, j - 1)
          BY <1>3, <4>1
        <4>3. Total(f, i) \in Nat /\ Total(f, j - 1) \in Nat BY <1>1, <2>1, <4>1
        <4> QED BY <2>2, <4>2, <4>3
      <3> QED BY <3>1, <3>2
    <2> QED BY <2>1, <2>3
  <1> HIDE DEF T
  <1>4. 0 .. n \subseteq T BY <1>2, <1>3, UpTo
  <1>5. ASSUME NEW j \in 0 .. n, NEW i \in 0 .. n, i <= j
        PROVE  Total(f, i) <= Total(f, j) /\ (A => Total(f, i) + (j - i) <= Total(f, j))
    <2>1. j \in T /\ i \in 0 .. j BY <1>4, <1>5
    <2> QED BY <2>1 DEF T
  <1> HIDE DEF A
  <1>6. (\A k \in 1 .. n : f[k] >= 1) => A BY DEF A
  <1> QED BY <1>5, <1>6

\* u is the parts s, as long as f says, one behind the other.
Parts(u, s, f) ==
  /\ Len(u) = Total(f, Len(s))
  /\ \A k \in 1 .. Len(s) : \A i \in 1 .. f[k] :
       /\ Total(f, k - 1) + i \in 1 .. Total(f, Len(s))
       /\ u[Total(f, k - 1) + i] = s[k][i]
  /\ \A p \in 1 .. Total(f, Len(s)) :
       \E k \in 1 .. Len(s) : \E i \in 1 .. f[k] : p = Total(f, k - 1) + i

\* Where the parts of a sequence are in what they are put together to.
LEMMA FlattenParts ==
  ASSUME NEW S, NEW s \in Seq(Seq(S)), NEW f, \A k \in 1 .. Len(s) : f[k] = Len(s[k])
  PROVE  /\ FlattenSeq(s) \in Seq(S)
         /\ \A k \in 1 .. Len(s) : f[k] \in Nat
         /\ Parts(FlattenSeq(s), s, f)
  <1> DEFINE n == Len(s)
             F(m) == FlattenSeq(SubSeq(s, 1, m))
             Good(m) ==
               /\ Len(F(m)) = Total(f, m)
               /\ \A k \in 1 .. m : \A i \in 1 .. f[k] :
                    Total(f, k - 1) + i \in 1 .. Total(f, m) /\ F(m)[Total(f, k - 1) + i] = s[k][i]
               /\ \A p \in 1 .. Total(f, m) :
                    \E k \in 1 .. m : \E i \in 1 .. f[k] : p = Total(f, k - 1) + i
             T == {m \in 0 .. n : Good(m)}
  <1>1. n \in Nat /\ \A k \in 1 .. n : s[k] \in Seq(S) /\ f[k] \in Nat /\ f[k] = Len(s[k]) OBVIOUS
  <1>2. /\ Total(f, 0) = 0
        /\ \A i \in 0 .. n : Total(f, i) \in Nat
        /\ \A i \in 1 .. n : Total(f, i) = Total(f, i - 1) + f[i]
    BY <1>1, TotalFollows
  <1>3. \A m \in 0 .. n : SubSeq(s, 1, m) \in Seq(Seq(S)) OBVIOUS
  <1>4. \A m \in 0 .. n : F(m) \in Seq(S) BY <1>3, FlattenConcat
  <1>5. Good(0)
    <2>1. F(0) = <<>>
      <3>1. SubSeq(s, 1, 0) = <<>> OBVIOUS
      <3> QED BY <3>1, FlattenSmall
    <2>2. 1 .. 0 = {} OBVIOUS
    <2> HIDE DEF F
    <2> QED BY <1>2, <2>1, <2>2
  <1>6. ASSUME NEW m \in 1 .. n, Good(m - 1) PROVE Good(m)
    <2>1. m \in 0 .. n /\ m - 1 \in 0 .. n /\ 1 .. m = 1 .. m - 1 \cup {m} OBVIOUS
    <2>2. F(m) = F(m - 1) \o s[m]
      <3>1. SubSeq(s, 1, m) = SubSeq(s, 1, m - 1) \o <<s[m]>>
        <4>1. 1 \in 1 .. Len(s) /\ m \in 1 .. Len(s) BY <1>1
        <4> QED BY <4>1, SubSeqRecursiveSecond
      <3>2. SubSeq(s, 1, m - 1) \in Seq(Seq(S)) BY <1>3, <2>1
      <3>3. <<s[m]>> \in Seq(Seq(S)) /\ FlattenSeq(<<s[m]>>) = s[m] BY <1>1, FlattenSmall
      <3> QED BY <3>1, <3>2, <3>3, FlattenConcat
    <2>3. F(m - 1) \in Seq(S) /\ s[m] \in Seq(S) /\ f[m] = Len(s[m]) /\ f[m] \in Nat
          /\ Len(F(m - 1)) = Total(f, m - 1)
      BY <1>1, <1>4, <1>6, <2>1
    <2>4. Total(f, m) = Total(f, m - 1) + f[m] /\ Total(f, m - 1) \in Nat BY <1>2, <2>1
    <2>5. /\ \A k \in 1 .. m - 1 : \A i \in 1 .. f[k] :
               /\ Total(f, k - 1) + i \in 1 .. Total(f, m - 1)
               /\ F(m - 1)[Total(f, k - 1) + i] = s[k][i]
          /\ \A p \in 1 .. Total(f, m - 1) :
               \E k \in 1 .. m - 1 : \E i \in 1 .. f[k] : p = Total(f, k - 1) + i
      BY <1>6
    <2> HIDE DEF F, Good
    <2>6. /\ Len(F(m)) = Total(f, m - 1) + f[m]
          /\ \A p \in 1 .. Total(f, m - 1) : F(m)[p] = F(m - 1)[p]
          /\ \A i \in 1 .. f[m] : F(m)[Total(f, m - 1) + i] = s[m][i]
      <3> DEFINE x == F(m - 1)
                 y == s[m]
                 u == F(m)
      <3>1. x \in Seq(S) /\ y \in Seq(S) /\ u = x \o y /\ Len(x) = Total(f, m - 1) /\ Len(y) = f[m]
        BY <2>2, <2>3
      <3>a. x \in Seq(S) /\ y \in Seq(S) /\ u = x \o y BY <3>1
      <3> HIDE DEF x, y, u, n, T
      <3>2. /\ Len(u) = Len(x) + Len(y)
            /\ \A i \in 1 .. Len(x) : u[i] = x[i]
            /\ \A i \in 1 .. Len(y) : u[Len(x) + i] = y[i]
        BY <3>a
      <3> QED BY <3>1, <3>2 DEF x, y, u
    <2>7. ASSUME NEW k \in 1 .. m, NEW i \in 1 .. f[k]
          PROVE  Total(f, k - 1) + i \in 1 .. Total(f, m) /\ F(m)[Total(f, k - 1) + i] = s[k][i]
      <3>1. CASE k \in 1 .. m - 1
        <4>1. /\ Total(f, k - 1) + i \in 1 .. Total(f, m - 1)
              /\ F(m - 1)[Total(f, k - 1) + i] = s[k][i]
          BY <2>5, <2>7, <3>1
        <4>2. Total(f, k - 1) + i \in 1 .. Total(f, m)
          BY <2>3, <2>4, <4>1
        <4> QED BY <2>4, <2>6, <4>1, <4>2
      <3>2. CASE k = m
        <4>1. Total(f, m - 1) + i \in 1 .. Total(f, m - 1) + f[m]
          BY <2>3, <2>4, <2>7, <3>2
        <4> QED BY <2>4, <2>6, <3>2, <4>1
      <3> QED BY <2>1, <2>7, <3>1, <3>2
    <2>8. ASSUME NEW p \in 1 .. Total(f, m)
          PROVE  \E k \in 1 .. m : \E i \in 1 .. f[k] : p = Total(f, k - 1) + i
      <3>1. CASE p <= Total(f, m - 1)
        <4>1. p \in 1 .. Total(f, m - 1) BY <2>3, <2>4, <2>8, <3>1
        <4> QED BY <2>1, <2>5, <4>1
      <3>2. CASE ~(p <= Total(f, m - 1))
        <4>1. p - Total(f, m - 1) \in 1 .. f[m] /\ p = Total(f, m - 1) + (p - Total(f, m - 1))
          BY <2>3, <2>4, <2>8, <3>2
        <4> QED BY <2>1, <4>1
      <3> QED BY <3>1, <3>2
    <2> QED BY <2>4, <2>6, <2>7, <2>8 DEF Good
  <1>7. 0 .. n \subseteq T
    <2> HIDE DEF Good, n
    <2>1. 0 \in T /\ \A m \in 1 .. n : m - 1 \in T => m \in T
      <3>1. 0 \in 0 .. n /\ \A m \in 1 .. n : m \in 0 .. n BY <1>1
      <3> QED BY <1>5, <1>6, <3>1
    <2> HIDE DEF T
    <2> QED BY <1>1, <2>1, UpTo
  <1>8. Good(n)
    <2> HIDE DEF Good, n
    <2>1. n \in 0 .. n BY <1>1
    <2> QED BY <1>7, <2>1
  <1>9. F(n) = FlattenSeq(s) /\ F(n) \in Seq(S)
    <2>1. n \in 0 .. n BY <1>1
    <2> QED BY <1>4, <2>1, SubSeqFull
  <1> HIDE DEF F, n
  <1> QED BY <1>1, <1>8, <1>9 DEF n, Parts

\* Sets of one size, and of a size that is not larger.
LEMMA SameSize ==
  ASSUME NEW S, NEW T, IsFiniteSet(S), NEW f \in [S -> T],
         \A x \in S, y \in S : f[x] = f[y] => x = y, \A y \in T : \E x \in S : f[x] = y
  PROVE  IsFiniteSet(T) /\ Cardinality(T) = Cardinality(S)
  <1>1. f \in Bijection(S, T) BY DEF Bijection, Injection, Surjection, IsInjective
  <1>2. ExistsBijection(S, T) BY <1>1 DEF ExistsBijection
  <1> QED BY <1>2, FS_Bijection

LEMMA NotLarger ==
  ASSUME NEW S, NEW T, IsFiniteSet(T), NEW f \in [S -> T],
         \A x \in S, y \in S : f[x] = f[y] => x = y
  PROVE  IsFiniteSet(S) /\ Cardinality(S) <= Cardinality(T)
  <1>1. f \in Injection(S, T) BY DEF Injection, IsInjective
  <1> QED BY <1>1, FS_Injection

\* The markers of a sequence are those of its two parts.
LEMMA StartsConcat ==
  ASSUME NEW r \in Seq(Tokens), NEW t \in Seq(Tokens)
  PROVE  /\ IsFiniteSet(Starts(r)) /\ Cardinality(Starts(r)) \in Nat
         /\ Starts(r) \subseteq 1 .. Len(r)
         /\ Cardinality(Starts(r \o t)) = Cardinality(Starts(r)) + Cardinality(Starts(t))
  <1> DEFINE a == Len(r)
             b == Len(t)
             u == r \o t
             M == {i \in a + 1 .. a + b : u[i] = VisionStart}
             f == [i \in Starts(t) |-> a + i]
  <1>1. a \in Nat /\ b \in Nat /\ DOMAIN r = 1 .. a /\ DOMAIN t = 1 .. b OBVIOUS
  <1>2. u \in Seq(Tokens) /\ DOMAIN u = 1 .. a + b
        /\ (\A i \in 1 .. a : u[i] = r[i]) /\ (\A i \in 1 .. b : u[a + i] = t[i])
    OBVIOUS
  <1>3. Starts(r) \subseteq 1 .. a /\ Starts(t) \subseteq 1 .. b BY <1>1 DEF Starts
  <1>4. /\ IsFiniteSet(Starts(r)) /\ Cardinality(Starts(r)) \in Nat
        /\ IsFiniteSet(Starts(t)) /\ Cardinality(Starts(t)) \in Nat
    <2>1. IsFiniteSet(1 .. a) /\ IsFiniteSet(1 .. b) BY <1>1, FS_Interval
    <2> QED BY <1>3, <2>1, FS_Subset, FS_CardinalityType
  <1> HIDE DEF u, a, b
  <1>5. Starts(u) = Starts(r) \cup M
    <2>1. \A i : i \in 1 .. a + b <=> i \in 1 .. a \/ i \in a + 1 .. a + b BY <1>1
    <2> QED BY <1>1, <1>2, <2>1 DEF Starts
  <1>6. Starts(r) \cap M = {} BY <1>1, <1>3
  <1>7. IsFiniteSet(M) /\ Cardinality(M) = Cardinality(Starts(t))
    <2>1. \A i \in 1 .. b : a + i \in a + 1 .. a + b BY <1>1
    <2>2. f \in [Starts(t) -> M] BY <1>1, <1>2, <2>1 DEF Starts
    <2>3. \A x \in Starts(t), y \in Starts(t) : f[x] = f[y] => x = y BY <1>1, <1>3
    <2>4. ASSUME NEW y \in M PROVE \E x \in Starts(t) : f[x] = y
      <3>1. y - a \in 1 .. b /\ a + (y - a) = y BY <1>1
      <3>2. t[y - a] = VisionStart BY <1>2, <3>1
      <3>3. y - a \in Starts(t) BY <1>1, <3>1, <3>2 DEF Starts
      <3> QED BY <3>1, <3>3
    <2> HIDE DEF f, M
    <2> QED BY <1>4, <2>2, <2>3, <2>4, SameSize
  <1> HIDE DEF M
  <1>8. Cardinality(Starts(u)) = Cardinality(Starts(r)) + Cardinality(M) - 0
    BY <1>4, <1>5, <1>6, <1>7, FS_Union, FS_EmptySet
  <1> QED BY <1>3, <1>4, <1>7, <1>8 DEF u, a

-----------------------------------------------------------------------------
(* The room of the expansion. *)

\* The markers in what the steps write.
LEMMA StartsAre ==
  /\ \A n \in Nat : Starts(Pads(n)) = {}
  /\ Starts(<<<<"boi">>, <<"tms">>>>) = {}
  /\ Starts(<<VisionStart>>) = {1} /\ Cardinality({1}) = 1
  /\ \A x : x # VisionStart => Starts(<<x>>) = {}
  /\ \A n \in Nat : n >= 1 => Starts(Block(n)) = {1}
  /\ Cardinality({}) = 0
  <1>1. VisionStart # ImagePad /\ VisionStart # <<"boi">> /\ VisionStart # <<"tms">>
    BY DEF VisionStart, ImagePad
  <1>2. \A n \in Nat : Starts(Pads(n)) = {} BY <1>1 DEF Starts, Pads
  <1>3. Starts(<<<<"boi">>, <<"tms">>>>) = {} BY <1>1 DEF Starts
  <1>4. Starts(<<VisionStart>>) = {1} BY DEF Starts
  <1>5. \A x : x # VisionStart => Starts(<<x>>) = {} BY DEF Starts
  <1>6. ASSUME NEW n \in Nat, n >= 1 PROVE Starts(Block(n)) = {1}
    <2> DEFINE b == Block(n)
    <2>1. b \in Seq(Tokens) /\ Len(b) = n /\ b[1] = VisionStart /\ \A i \in 2 .. n : b[i] = ImagePad
      BY <1>6, BlockIs
    <2> HIDE DEF b
    <2>2. DOMAIN b = 1 .. n /\ 1 \in 1 .. n /\ \A i \in 1 .. n : i = 1 \/ i \in 2 .. n
      BY <1>6, <2>1
    <2>3. Starts(b) = {1} BY <1>1, <2>1, <2>2 DEF Starts
    <2> QED BY <2>3 DEF b
  <1> QED BY <1>2, <1>3, <1>4, <1>5, <1>6, FS_EmptySet, FS_Singleton

\* The rows of the references' grids have one marker each.
LEMMA BlockStarts ==
  ASSUME refs \in Seq(Geometries)
  PROVE  /\ Len(FlattenSeq(Blocks)) = Total(GridAreas, K)
         /\ \A k \in 1 .. K : /\ Total(GridAreas, k - 1) + 1 \in 1 .. Total(GridAreas, K)
                              /\ FlattenSeq(Blocks)[Total(GridAreas, k - 1) + 1] = VisionStart
         /\ Cardinality(Starts(FlattenSeq(Blocks))) = K
  <1> DEFINE u == FlattenSeq(Blocks)
             g == GridAreas
             f == [k \in 1 .. K |-> Total(g, k - 1) + 1]
  <1>1. /\ Blocks \in Seq(Seq(Tokens)) /\ Len(Blocks) = K /\ K \in Nat
        /\ \A k \in 1 .. K : Blocks[k] = Block(g[k]) /\ g[k] \in Nat /\ g[k] >= 1
    BY BlocksAre, AreasAre
  <1>2. \A k \in 1 .. K : /\ g[k] = Len(Blocks[k]) /\ Blocks[k][1] = VisionStart
                          /\ \A i \in 2 .. g[k] : Blocks[k][i] = ImagePad
    BY <1>1, BlockIs
  <1>3. /\ \A i \in 0 .. K : Total(g, i) \in Nat
        /\ \A j \in 0 .. K, i \in 0 .. K : i <= j => Total(g, i) + (j - i) <= Total(g, j)
    <2> HIDE DEF g
    <2> QED BY <1>1, TotalFollows, TotalGrows
  <1> HIDE DEF g
  <1>4. /\ u \in Seq(Tokens) /\ Len(u) = Total(g, K)
        /\ \A k \in 1 .. K : \A i \in 1 .. g[k] :
             Total(g, k - 1) + i \in 1 .. Total(g, K) /\ u[Total(g, k - 1) + i] = Blocks[k][i]
        /\ \A p \in 1 .. Total(g, K) :
             \E k \in 1 .. K : \E i \in 1 .. g[k] : p = Total(g, k - 1) + i
    <2>1. \A k \in 1 .. Len(Blocks) : g[k] = Len(Blocks[k]) BY <1>1, <1>2
    <2>2. Blocks \in Seq(Seq(Tokens)) /\ Len(Blocks) = K BY <1>1
    <2>3. FlattenSeq(Blocks) \in Seq(Tokens) /\ Parts(FlattenSeq(Blocks), Blocks, g)
      BY <2>1, <2>2, FlattenParts
    <2> QED BY <2>2, <2>3 DEF Parts
  <1> HIDE DEF u
  <1>5. \A k \in 1 .. K : 1 \in 1 .. g[k] BY <1>1
  <1>6. \A k \in 1 .. K : Total(g, k - 1) + 1 \in 1 .. Total(g, K)
                          /\ u[Total(g, k - 1) + 1] = VisionStart
    BY <1>2, <1>4, <1>5
  <1>7. Cardinality(Starts(u)) = K
    <2>1. DOMAIN u = 1 .. Total(g, K) BY <1>4
    <2>2. f \in [1 .. K -> Starts(u)] BY <1>6, <2>1 DEF Starts
    <2>3. ASSUME NEW x \in 1 .. K, NEW y \in 1 .. K, f[x] = f[y] PROVE x = y
      <3>1. x - 1 \in 0 .. K /\ y - 1 \in 0 .. K BY <1>1
      <3>2. Total(g, x - 1) = Total(g, y - 1)
        <4>1. Total(g, x - 1) \in Nat /\ Total(g, y - 1) \in Nat BY <1>3, <3>1
        <4> QED BY <2>3, <4>1
      <3>3. /\ x - 1 <= y - 1 => Total(g, x - 1) + ((y - 1) - (x - 1)) <= Total(g, y - 1)
            /\ y - 1 <= x - 1 => Total(g, y - 1) + ((x - 1) - (y - 1)) <= Total(g, x - 1)
        BY <1>3, <3>1
      <3>4. Total(g, x - 1) \in Nat BY <1>3, <3>1
      <3> QED BY <3>2, <3>3, <3>4
    <2>4. ASSUME NEW p \in Starts(u) PROVE \E k \in 1 .. K : f[k] = p
      <3>1. p \in 1 .. Total(g, K) /\ u[p] = VisionStart BY <2>1 DEF Starts
      <3>2. PICK k \in 1 .. K : \E i \in 1 .. g[k] : p = Total(g, k - 1) + i BY <1>4, <3>1
      <3>a. PICK i \in 1 .. g[k] : p = Total(g, k - 1) + i BY <3>2
      <3>3. Blocks[k][i] = VisionStart BY <1>4, <3>1, <3>a
      <3>4. i = 1
        <4>1. VisionStart # ImagePad BY DEF VisionStart, ImagePad
        <4>2. i = 1 \/ i \in 2 .. g[k] BY <1>1, <3>a
        <4> QED BY <1>2, <3>3, <4>1, <4>2
      <3> QED BY <3>a, <3>4
    <2>5. IsFiniteSet(1 .. K) /\ Cardinality(1 .. K) = K BY <1>1, FS_Interval
    <2> HIDE DEF f
    <2> QED BY <2>2, <2>3, <2>4, <2>5, SameSize
  <1> QED BY <1>4, <1>6, <1>7 DEF u, g

\* The markers among the first tokens.
Before(i) == {j \in 1 .. i - 1 : ids[j] = VisionStart}

\* One token more, and one marker more if it is one.
LEMMA BeforeGrows ==
  ASSUME NEW i \in Nat, i >= 1
  PROVE  /\ IsFiniteSet(Before(i)) /\ Cardinality(Before(i)) \in Nat
         /\ i = 1 => Cardinality(Before(i)) = 0
         /\ Cardinality(Before(i + 1))
              = Cardinality(Before(i)) + IF ids[i] = VisionStart THEN 1 ELSE 0
  <1>1. IsFiniteSet(Before(i)) /\ Cardinality(Before(i)) \in Nat
    <2>1. IsFiniteSet(1 .. i - 1) /\ Before(i) \in SUBSET (1 .. i - 1) BY FS_Interval DEF Before
    <2> QED BY <2>1, FS_Subset, FS_CardinalityType
  <1>2. i = 1 => Cardinality(Before(i)) = 0
    <2>1. i = 1 => Before(i) = {} BY DEF Before
    <2> QED BY <2>1, FS_EmptySet
  <1>3. \A j : j \in 1 .. (i + 1) - 1 <=> j \in 1 .. i - 1 \/ j = i OBVIOUS
  <1>4. i \notin Before(i) BY DEF Before
  <1>5. CASE ids[i] = VisionStart
    <2>1. Before(i + 1) = Before(i) \cup {i} BY <1>3, <1>5 DEF Before
    <2>2. Cardinality(Before(i + 1)) = Cardinality(Before(i)) + 1 BY <1>1, <1>4, <2>1, FS_AddElement
    <2> QED BY <1>1, <1>2, <1>5, <2>2
  <1>6. CASE ids[i] # VisionStart
    <2>1. Before(i + 1) = Before(i) BY <1>3, <1>6 DEF Before
    <2> QED BY <1>1, <1>2, <1>6, <2>1
  <1> QED BY <1>5, <1>6

\* Each marker among the tokens is spelt in the text.
LEMMA MarkersAreSpelt ==
  ASSUME TypeOK, FlattenSeq(ids) = text
  PROVE  /\ Cardinality(Before(Len(ids) + 1)) <= Cardinality({i \in DOMAIN text : text[i] = "vision_start"})
         /\ Cardinality({i \in DOMAIN text : text[i] = "vision_start"}) \in Nat
  <1> DEFINE n == Len(ids)
             V == {i \in DOMAIN text : text[i] = "vision_start"}
             lens == [k \in 1 .. n |-> Len(ids[k])]
             f == [k \in Before(n + 1) |-> Total(lens, k - 1) + 1]
  <1>1. ids \in Seq(Seq(Symbols)) /\ n \in Nat /\ text \in Seq(Symbols) /\ Len(text) \in Nat
    BY DEF TypeOK, Tokens
  <1>2. \A k \in 1 .. n : lens[k] = Len(ids[k]) OBVIOUS
  <1>3. IsFiniteSet(V) /\ Cardinality(V) \in Nat
    <2>1. IsFiniteSet(1 .. Len(text)) BY <1>1, FS_Interval
    <2>2. DOMAIN text = 1 .. Len(text) BY <1>1
    <2>3. V \in SUBSET (1 .. Len(text)) BY <2>2
    <2> QED BY <2>1, <2>3, FS_Subset, FS_CardinalityType
  <1> HIDE DEF lens, V
  <1>4. /\ \A k \in 1 .. n : lens[k] \in Nat
        /\ Len(text) = Total(lens, n)
        /\ \A k \in 1 .. n : \A i \in 1 .. lens[k] :
             Total(lens, k - 1) + i \in 1 .. Total(lens, n) /\ text[Total(lens, k - 1) + i] = ids[k][i]
    <2>1. /\ \A k \in 1 .. n : lens[k] \in Nat
          /\ Parts(FlattenSeq(ids), ids, lens)
      BY <1>1, <1>2, FlattenParts
    <2> QED BY <2>1 DEF Parts
  <1> HIDE DEF n
  <1>5. /\ \A i \in 0 .. n : Total(lens, i) \in Nat
        /\ \A i \in 1 .. n : Total(lens, i) = Total(lens, i - 1) + lens[i]
        /\ \A j \in 0 .. n, i \in 0 .. n : i <= j => Total(lens, i) <= Total(lens, j)
    BY <1>1, <1>4, TotalFollows, TotalGrows
  <1>6. \A k \in Before(n + 1) : k \in 1 .. n /\ lens[k] = 1 /\ ids[k][1] = "vision_start"
    <2>a. Len(VisionStart) = 1 /\ VisionStart[1] = "vision_start" BY DEF VisionStart
    <2>1. \A k \in 1 .. n : ids[k] = VisionStart => lens[k] = 1 /\ ids[k][1] = "vision_start"
      BY <1>2, <2>a DEF n
    <2>2. (n + 1) - 1 = n BY <1>1
    <2> QED BY <2>1, <2>2 DEF Before
  <1>7. f \in [Before(n + 1) -> V]
    <2> SUFFICES ASSUME NEW k \in Before(n + 1) PROVE Total(lens, k - 1) + 1 \in V OBVIOUS
    <2>1. k \in 1 .. n /\ 1 \in 1 .. lens[k] BY <1>6
    <2>2. /\ Total(lens, k - 1) + 1 \in 1 .. Len(text)
          /\ text[Total(lens, k - 1) + 1] = "vision_start"
      BY <1>4, <1>6, <2>1
    <2> QED BY <1>1, <2>2 DEF V
  <1>8. ASSUME NEW x \in Before(n + 1), NEW y \in Before(n + 1), x < y PROVE f[x] # f[y]
    <2>1. x \in 1 .. n /\ y \in 1 .. n /\ lens[x] = 1 BY <1>6
    <2>2. x - 1 \in 0 .. n /\ y - 1 \in 0 .. n /\ x \in 0 .. n /\ x <= y - 1 BY <1>1, <1>8, <2>1
    <2>3. Total(lens, x) = Total(lens, x - 1) + 1 /\ Total(lens, x) <= Total(lens, y - 1)
          /\ Total(lens, x - 1) \in Nat /\ Total(lens, y - 1) \in Nat
      BY <1>5, <2>1, <2>2
    <2> QED BY <2>3
  <1>9. \A x \in Before(n + 1), y \in Before(n + 1) : f[x] = f[y] => x = y
    <2>1. \A x \in Before(n + 1) : x \in Nat BY <1>6
    <2> HIDE DEF f
    <2>2. \A x \in Before(n + 1), y \in Before(n + 1) : x = y \/ x < y \/ y < x BY <2>1
    <2> QED BY <1>8, <2>2
  <1> HIDE DEF f
  <1>10. Cardinality(Before(n + 1)) <= Cardinality(V) BY <1>3, <1>7, <1>9, NotLarger
  <1> QED BY <1>3, <1>10 DEF n, V

\* The references put in so far.
Put == IF filled < K THEN filled ELSE K

\* The rows so far: each placeholder of a reference became its pads, and each
\* marker comes from one of the tokens.
Sizes ==
  /\ pc \in {"names", "encode", "merge"} => row = <<>> /\ filled = 0
  /\ pc = "expand" =>
       /\ at <= Len(ids) + 1
       /\ Len(row) = at - 1 + Total(CondAreas, Put) - filled
       /\ filled <= Cardinality(Before(at))
       /\ Cardinality(Starts(row)) <= Cardinality(Before(at))
  /\ pc \in {"layout", "mask", "done"} /\ K > 0 =>
       Len(row) = Reserved + 2 + Area(Target) + Total(GridAreas, K)
  /\ pc = "text_only" => K = 0
  /\ pc \in {"expand", "layout", "mask"} => K > 0
  /\ pc = "overrun" => Cardinality(Before(Len(ids) + 1)) > MaxRefs

\* The places of the references in the template, counted up to one of them.
LEMMA CondTotals ==
  ASSUME refs \in Seq(Geometries)
  PROVE  /\ Total(CondAreas, 0) = 0
         /\ \A k \in 0 .. K : Total(CondAreas, k) \in Nat
         /\ \A k \in 1 .. K : Total(CondAreas, k) = Total(CondAreas, k - 1) + CondAreas[k]
         /\ \A j \in 0 .. K, i \in 0 .. K :
              i <= j => Total(CondAreas, i) + (j - i) <= Total(CondAreas, j)
  <1> DEFINE c == CondAreas
  <1>1. K \in Nat /\ \A k \in 1 .. K : c[k] \in Nat /\ c[k] >= 1 BY AreasAre
  <1> HIDE DEF c
  <1> QED BY <1>1, TotalFollows, TotalGrows DEF c

\* The same for their rows behind the image.
LEMMA GridTotals ==
  ASSUME refs \in Seq(Geometries)
  PROVE  /\ Total(GridAreas, 0) = 0
         /\ \A k \in 0 .. K : Total(GridAreas, k) \in Nat
         /\ \A k \in 1 .. K : Total(GridAreas, k) = Total(GridAreas, k - 1) + GridAreas[k]
         /\ \A j \in 0 .. K, i \in 0 .. K :
              i <= j => Total(GridAreas, i) + (j - i) <= Total(GridAreas, j)
  <1> DEFINE c == GridAreas
  <1>1. K \in Nat /\ \A k \in 1 .. K : c[k] \in Nat /\ c[k] >= 1 BY AreasAre
  <1> HIDE DEF c
  <1> QED BY <1>1, TotalFollows, TotalGrows DEF c

\* The rows behind the template, and how many of them have markers.
LEMMA AppendedIs ==
  ASSUME TypeOK, AppendRows
  PROVE  \E more \in Seq(Tokens) :
           /\ row' = row \o more
           /\ Len(more) = 2 + Area(Target) + Total(GridAreas, K)
           /\ more[3] = VisionStart
           /\ \A k \in 1 .. K : more[2 + Area(Target) + Total(GridAreas, k - 1) + 1] = VisionStart
           /\ Cardinality(Starts(more)) = K + 1
  <1> DEFINE a == <<<<"boi">>, <<"tms">>>>
             b == Block(Area(Target))
             c == FlattenSeq(Blocks)
             A == Area(Target)
             G == Total(GridAreas, K)
             ab == a \o b
             more == ab \o c
  <1>1. refs \in Seq(Geometries) /\ row \in Seq(Tokens) /\ K \in Nat BY AreasAre DEF TypeOK
  <1>2. a \in Seq(Tokens) /\ Len(a) = 2 /\ Cardinality(Starts(a)) = 0
    <2>1. a \in Seq(Tokens) BY RowsType
    <2> QED BY <2>1, StartsAre
  <1>3. A \in Nat /\ A >= 1 /\ b \in Seq(Tokens) /\ Len(b) = A /\ b[1] = VisionStart
        /\ Cardinality(Starts(b)) = 1
    <2>1. A \in Nat /\ A >= 1 BY <1>1, AreasAre
    <2> QED BY <2>1, BlockIs, StartsAre
  <1>4. /\ c \in Seq(Tokens) /\ Len(c) = G /\ Cardinality(Starts(c)) = K
        /\ \A k \in 1 .. K : /\ Total(GridAreas, k - 1) + 1 \in 1 .. G
                             /\ c[Total(GridAreas, k - 1) + 1] = VisionStart
    BY <1>1, BlocksAre, BlockStarts
  <1>5. G \in Nat
    <2>1. K \in 0 .. K BY <1>1
    <2> QED BY <1>1, <2>1, GridTotals
  <1>6. row' = ((row \o a) \o b) \o c BY DEF AppendRows, Blocks
  <1> HIDE DEF a, b, c, A, G
  <1>b. \A x \in Seq(Tokens), y \in Seq(Tokens), z \in Seq(Tokens) : (x \o y) \o z = x \o (y \o z)
    BY ConcatAssociative
  <1>7. /\ ab \in Seq(Tokens) /\ Len(ab) = 2 + A
        /\ \A i \in 1 .. A : ab[2 + i] = b[i]
    <2>1. ab = a \o b /\ a \in Seq(Tokens) /\ b \in Seq(Tokens) BY <1>2, <1>3
    <2> HIDE DEF ab
    <2>2. /\ ab \in Seq(Tokens) /\ Len(ab) = Len(a) + Len(b)
          /\ \A i \in 1 .. Len(b) : ab[Len(a) + i] = b[i]
      BY <2>1
    <2> QED BY <1>2, <1>3, <2>2
  <1>8. Cardinality(Starts(ab)) = 0 + 1 BY <1>2, <1>3, StartsConcat
  <1> HIDE DEF ab
  <1>9. /\ more \in Seq(Tokens) /\ Len(more) = (2 + A) + G
        /\ \A i \in 1 .. 2 + A : more[i] = ab[i]
        /\ \A i \in 1 .. G : more[(2 + A) + i] = c[i]
    <2>1. more = ab \o c /\ ab \in Seq(Tokens) /\ c \in Seq(Tokens) BY <1>4, <1>7
    <2> HIDE DEF more
    <2>2. /\ more \in Seq(Tokens) /\ Len(more) = Len(ab) + Len(c)
          /\ \A i \in 1 .. Len(ab) : more[i] = ab[i]
          /\ \A i \in 1 .. Len(c) : more[Len(ab) + i] = c[i]
      BY <2>1
    <2> QED BY <1>4, <1>7, <2>2
  <1>10. Cardinality(Starts(more)) = (0 + 1) + K BY <1>4, <1>7, <1>8, StartsConcat
  <1>11. row' = row \o more
    <2>1. (row \o a) \o b = row \o ab BY <1>1, <1>2, <1>3, ConcatAssociative DEF ab
    <2>2. (row \o ab) \o c = row \o (ab \o c) BY <1>1, <1>4, <1>7, <1>b
    <2> QED BY <1>6, <2>1, <2>2
  <1> HIDE DEF more
  <1>12. more[3] = VisionStart
    <2>1. 3 \in 1 .. 2 + A /\ 1 \in 1 .. A /\ 2 + 1 = 3 BY <1>3
    <2> QED BY <1>3, <1>7, <1>9, <2>1
  <1>13. ASSUME NEW k \in 1 .. K
         PROVE  more[2 + A + Total(GridAreas, k - 1) + 1] = VisionStart
    <2> DEFINE t == Total(GridAreas, k - 1)
    <2>1. t \in Nat
      <3>1. k - 1 \in 0 .. K BY <1>1
      <3> QED BY <1>1, <3>1, GridTotals
    <2>2. t + 1 \in 1 .. G /\ c[t + 1] = VisionStart BY <1>4
    <2> HIDE DEF t
    <2>3. 2 + A + t + 1 = (2 + A) + (t + 1) BY <1>3, <1>5, <2>1
    <2>4. more[2 + A + t + 1] = VisionStart BY <1>9, <2>2, <2>3
    <2> QED BY <2>4 DEF t
  <1>14. Len(more) = 2 + A + G /\ Cardinality(Starts(more)) = K + 1 BY <1>1, <1>3, <1>5, <1>9, <1>10
  <1> QED BY <1>9, <1>11, <1>12, <1>13, <1>14 DEF A, G

\* A placeholder becomes a marker and its pads.
LEMMA ExpandedRow ==
  ASSUME TypeOK, Expand, filled < MaxRefs
  PROVE  LET n == IF filled < K THEN CondAreas[filled + 1] ELSE 0
         IN  /\ n \in Nat
             /\ \E more \in Seq(Tokens) :
                  /\ row' = row \o more /\ Len(more) = n + 1
                  /\ more[1] = VisionStart /\ \A i \in 1 .. n : more[1 + i] = ImagePad
                  /\ Cardinality(Starts(more)) = 1
  <1> DEFINE n == IF filled < K THEN CondAreas[filled + 1] ELSE 0
             m == IF filled < K THEN Area(refs[filled + 1].cond) ELSE 0
             a == <<VisionStart>>
             p == Pads(n)
             more == a \o p
  <1>1. refs \in Seq(Geometries) /\ row \in Seq(Tokens) /\ K \in Nat /\ filled \in Nat
    BY AreasAre, CaptionsAssumption DEF TypeOK
  <1>2. n \in Nat /\ m = n
    <2>1. CASE filled < K
      <3>1. filled + 1 \in 1 .. K BY <1>1, <2>1
      <3> QED BY <1>1, <2>1, <3>1, AreasAre
    <2>2. CASE ~(filled < K) BY <2>2
    <2> QED BY <2>1, <2>2
  <1>3. row' = (row \o a) \o Pads(m) BY DEF Expand
  <1>4. row' = (row \o a) \o p BY <1>2, <1>3
  <1> HIDE DEF n, m
  <1>5. /\ p \in Seq(Tokens) /\ Len(p) = n /\ (\A i \in 1 .. n : p[i] = ImagePad)
        /\ a \in Seq(Tokens) /\ Len(a) = 1 /\ a[1] = VisionStart
    <2>1. p \in Seq(Tokens) /\ Len(p) = n /\ a \in Seq(Tokens) BY <1>2, RowsType
    <2>2. \A i \in 1 .. n : p[i] = ImagePad BY DEF Pads
    <2> QED BY <2>1, <2>2
  <1>6. Cardinality(Starts(a)) = 1 /\ Cardinality(Starts(p)) = 0 BY <1>2, StartsAre
  <1> HIDE DEF a, p
  <1>7. row' = row \o more BY <1>1, <1>4, <1>5, ConcatAssociative
  <1>8. /\ more \in Seq(Tokens) /\ Len(more) = 1 + n
        /\ \A i \in 1 .. 1 + n : more[i] = IF i <= 1 THEN a[i] ELSE p[i - 1]
    BY <1>5, ConcatProperties
  <1>9. Cardinality(Starts(more)) = 1 + 0 BY <1>5, <1>6, StartsConcat
  <1> HIDE DEF more
  <1>10. more[1] = VisionStart
    <2>1. 1 \in 1 .. 1 + n BY <1>2
    <2> QED BY <1>5, <1>8, <2>1
  <1>11. ASSUME NEW i \in 1 .. n PROVE more[1 + i] = ImagePad
    <2>1. 1 + i \in 1 .. 1 + n /\ ~(1 + i <= 1) /\ (1 + i) - 1 = i BY <1>2
    <2> QED BY <1>5, <1>8, <2>1
  <1>12. 1 + n = n + 1 BY <1>2
  <1>13. \E x \in Seq(Tokens) :
           /\ row' = row \o x /\ Len(x) = n + 1
           /\ x[1] = VisionStart /\ \A i \in 1 .. n : x[1 + i] = ImagePad
           /\ Cardinality(Starts(x)) = 1
    BY <1>7, <1>8, <1>9, <1>10, <1>11, <1>12
  <1> QED BY <1>2, <1>13 DEF n

\* The sizes, at the beginning and over a step.
LEMMA SizesInit == Init => Sizes BY DEF Init, Sizes

LEMMA SizesNext == TypeOK /\ Sizes /\ [Next]_vars => Sizes'
  <1> SUFFICES ASSUME TypeOK, Sizes, [Next]_vars PROVE Sizes' OBVIOUS
  <1>0. /\ refs \in Seq(Geometries) /\ K \in Nat /\ K <= MaxRefs /\ MaxRefs \in Nat
        /\ at \in Nat /\ at >= 1 /\ filled \in Nat /\ filled <= MaxRefs
        /\ ids \in Seq(Tokens) /\ Len(ids) \in Nat /\ row \in Seq(Tokens) /\ Len(row) \in Nat
        /\ text \in Tokens
    BY AreasAre, CaptionsAssumption DEF TypeOK
  <1>k. VisionStart # ImagePad BY DEF VisionStart, ImagePad
  <1>1. CASE Names
    <2>1. pc = "names" /\ pc' \in {"encode", "refused"} /\ row' = row /\ filled' = filled
      BY <1>1 DEF Names
    <2> QED BY <2>1 DEF Sizes
  <1>2. CASE EncodeMarker
    <2>1. pc = "encode" /\ pc' = pc /\ row' = row /\ filled' = filled BY <1>2 DEF EncodeMarker
    <2> QED BY <2>1 DEF Sizes
  <1>3. CASE BeginWord
    <2>1. pc = "encode" /\ pc' = "merge" /\ row' = row /\ filled' = filled BY <1>3 DEF BeginWord
    <2> QED BY <2>1 DEF Sizes
  <1>4. CASE Merge
    <2>1. pc = "merge" /\ pc' = pc /\ row' = row /\ filled' = filled BY <1>4 DEF Merge
    <2> QED BY <2>1 DEF Sizes
  <1>5. CASE EndWord
    <2>1. pc = "merge" /\ pc' = "encode" /\ row' = row /\ filled' = filled BY <1>5 DEF EndWord
    <2> QED BY <2>1 DEF Sizes
  <1>6. CASE Encoded
    <2>1. /\ pc = "encode" /\ pc' \in {"text_only", "expand"} /\ row = <<>> /\ row' = <<>>
          /\ filled = 0 /\ filled' = 0 /\ at' = 1 /\ ids' = ids /\ refs' = refs
          /\ (pc' = "text_only" => K = 0) /\ (pc' = "expand" => K # 0)
      BY <1>6 DEF Encoded, Sizes
    <2>2. Cardinality(Before(1)) = 0 BY BeforeGrows
    <2>3. Cardinality(Starts(<<>>)) = 0
      <3>1. Starts(<<>>) = {} BY DEF Starts
      <3> QED BY <3>1, FS_EmptySet
    <2>4. K' = K /\ CondAreas' = CondAreas /\ Put' = 0 /\ Before(at)' = Before(1)
      BY <1>0, <2>1 DEF K, CondAreas, Put, Before
    <2>5. Total(CondAreas, 0) = 0 BY <1>0, CondTotals
    <2>6. (Len(row) = at - 1 + Total(CondAreas, Put) - filled)'
      <3>1. Len(<<>>) = 1 - 1 + 0 - 0 OBVIOUS
      <3> QED BY <2>1, <2>4, <2>5, <3>1
    <2>7. at' <= Len(ids') + 1 BY <1>0, <2>1
    <2>8. filled' <= 0 /\ Cardinality(Starts(row')) <= 0 BY <2>1, <2>3
    <2>9. (filled <= Cardinality(Before(at)) /\ Cardinality(Starts(row)) <= Cardinality(Before(at)))'
      BY <2>2, <2>4, <2>8 DEF Starts
    <2>10. (pc = "text_only" => K = 0)' /\ (pc = "expand" => K > 0)' BY <1>0, <2>1, <2>4
    <2> QED BY <2>1, <2>6, <2>7, <2>9, <2>10 DEF Sizes
  <1>7. CASE Expand
    <2>1. /\ pc = "expand" /\ ids' = ids /\ refs' = refs
          /\ at < Len(ids) /\ ids[at] = VisionStart /\ ids[at + 1] = ImagePad
      BY <1>7 DEF Expand, Placeholder
    <2>2. /\ at <= Len(ids) + 1 /\ Len(row) = at - 1 + Total(CondAreas, Put) - filled
          /\ filled <= Cardinality(Before(at))
          /\ Cardinality(Starts(row)) <= Cardinality(Before(at))
      BY <2>1 DEF Sizes
    <2>3. /\ Cardinality(Before(at)) \in Nat
          /\ Cardinality(Before(at + 1)) = Cardinality(Before(at)) + 1
          /\ Cardinality(Before((at + 1) + 1)) = Cardinality(Before(at + 1)) + 0
      <3>1. at + 1 \in Nat /\ at + 1 >= 1 BY <1>0
      <3>2. Cardinality(Before(at)) \in Nat
            /\ Cardinality(Before(at + 1)) = Cardinality(Before(at)) + 1
        BY <1>0, <2>1, BeforeGrows
      <3>3. Cardinality(Before((at + 1) + 1)) = Cardinality(Before(at + 1)) + 0
        BY <1>k, <2>1, <3>1, BeforeGrows
      <3> QED BY <3>2, <3>3
    <2>4. (at + 1) + 1 = at + 2 BY <1>0
    <2>5. K' = K /\ CondAreas' = CondAreas /\ \A i : Before(i)' = Before(i)
      BY <2>1 DEF K, CondAreas, Before
    <2>6. CASE filled < MaxRefs
      <3> DEFINE n == IF filled < K THEN CondAreas[filled + 1] ELSE 0
      <3>1. pc' = pc /\ filled' = filled + 1 /\ at' = at + 2 BY <1>7, <2>6 DEF Expand
      <3>2. /\ n \in Nat
            /\ \E more \in Seq(Tokens) : /\ row' = row \o more /\ Len(more) = n + 1
                                         /\ Cardinality(Starts(more)) = 1
        BY <1>7, <2>6, ExpandedRow
      <3>3. PICK more \in Seq(Tokens) : /\ row' = row \o more /\ Len(more) = n + 1
                                        /\ Cardinality(Starts(more)) = 1
        BY <3>2
      <3>4. Put \in 0 .. K /\ Put' \in 0 .. K /\ Total(CondAreas, Put') = Total(CondAreas, Put) + n
        <4>1. CASE filled < K
          <5>1. Put = filled /\ Put' = filled + 1 /\ filled + 1 \in 1 .. K /\ n = CondAreas[filled + 1]
                /\ (filled + 1) - 1 = filled
            BY <1>0, <2>5, <3>1, <4>1 DEF Put
          <5>2. Total(CondAreas, filled + 1) = Total(CondAreas, (filled + 1) - 1) + CondAreas[filled + 1]
            BY <1>0, <5>1, CondTotals
          <5> QED BY <1>0, <5>1, <5>2
        <4>2. CASE ~(filled < K)
          <5>1. Put = K /\ Put' = K /\ n = 0 /\ K \in 0 .. K BY <1>0, <2>5, <3>1, <4>2 DEF Put
          <5>2. Total(CondAreas, K) \in Nat BY <1>0, <5>1, CondTotals
          <5> QED BY <5>1, <5>2
        <4> QED BY <4>1, <4>2
      <3> HIDE DEF n
      <3>5. Total(CondAreas, Put) \in Nat BY <1>0, <3>4, CondTotals
      <3>6. Len(row') = Len(row) + (n + 1)
        <4>1. row \in Seq(Tokens) /\ row' = row \o more BY <1>0, <3>3
        <4>2. Len(row') = Len(row) + Len(more) BY <4>1
        <4> QED BY <3>3, <4>2
      <3>7. Len(row') = (at + 2) - 1 + (Total(CondAreas, Put) + n) - (filled + 1)
        <4> DEFINE t == Total(CondAreas, Put)
                   l == Len(row)
        <4>1. n \in Nat /\ l \in Nat /\ t \in Nat /\ Len(row') = l + (n + 1) /\ l = at - 1 + t - filled
          BY <1>0, <2>2, <3>2, <3>5, <3>6
        <4> HIDE DEF t, l
        <4>2. Len(row') = (at + 2) - 1 + (t + n) - (filled + 1) BY <1>0, <4>1
        <4> QED BY <4>2 DEF t
      <3>8. (Len(row) = at - 1 + Total(CondAreas, Put) - filled)'
        BY <2>5, <3>1, <3>4, <3>7
      <3>9. Cardinality(Starts(row')) = Cardinality(Starts(row)) + 1 /\ Cardinality(Starts(row)) \in Nat
        BY <1>0, <3>3, StartsConcat
      <3>10. filled + 1 <= Cardinality(Before(at + 2))
             /\ Cardinality(Starts(row')) <= Cardinality(Before(at + 2))
        BY <1>0, <2>2, <2>3, <2>4, <3>9
      <3>11. (filled <= Cardinality(Before(at)) /\ Cardinality(Starts(row)) <= Cardinality(Before(at)))'
        <4>1. Starts(row)' = Starts(row') BY DEF Starts
        <4>2. Before(at)' = Before(at + 2) BY <2>1, <3>1 DEF Before
        <4> QED BY <3>1, <3>10, <4>1, <4>2
      <3>12. at' <= Len(ids') + 1 BY <1>0, <2>1, <3>1
      <3>13. (K > 0)' BY <2>1, <2>5 DEF Sizes
      <3> QED BY <2>1, <3>1, <3>8, <3>11, <3>12, <3>13 DEF Sizes
    <2>7. CASE ~(filled < MaxRefs)
      <3>1. pc' = "overrun" BY <1>7, <2>7 DEF Expand
      <3>2. filled = MaxRefs BY <1>0, <2>7
      <3>3. Cardinality(Before(at + 2)) > MaxRefs BY <1>0, <2>2, <2>3, <2>4, <3>2
      <3>4. Cardinality(Before(at + 2)) <= Cardinality(Before(Len(ids) + 1))
        <4>1. IsFiniteSet(Before(Len(ids) + 1)) BY <1>0, BeforeGrows
        <4>2. Before(at + 2) \subseteq Before(Len(ids) + 1) BY <1>0, <2>1 DEF Before
        <4> QED BY <4>1, <4>2, FS_Subset
      <3>5. Cardinality(Before(Len(ids) + 1)) \in Nat /\ Cardinality(Before(at + 2)) \in Nat
        <4>1. /\ Len(ids) + 1 \in Nat /\ Len(ids) + 1 >= 1 /\ at + 2 \in Nat /\ at + 2 >= 1 BY <1>0
        <4> QED BY <4>1, BeforeGrows
      <3>6. Cardinality(Before(Len(ids) + 1)) > MaxRefs BY <1>0, <3>3, <3>4, <3>5
      <3>7. Before(Len(ids) + 1)' = Before(Len(ids) + 1) BY <2>1 DEF Before
      <3> QED BY <3>1, <3>6, <3>7 DEF Sizes
    <2> QED BY <2>6, <2>7
  <1>8. CASE Copy
    <2>1. /\ pc = "expand" /\ pc' = pc /\ ids' = ids /\ refs' = refs /\ filled' = filled
          /\ at <= Len(ids) /\ row' = Append(row, ids[at]) /\ at' = at + 1
      BY <1>8 DEF Copy
    <2>2. /\ Len(row) = at - 1 + Total(CondAreas, Put) - filled
          /\ filled <= Cardinality(Before(at))
          /\ Cardinality(Starts(row)) <= Cardinality(Before(at))
      BY <2>1 DEF Sizes
    <2>3. K' = K /\ CondAreas' = CondAreas /\ Put' = Put BY <2>1 DEF K, CondAreas, Put
    <2>4. Total(CondAreas, Put) \in Nat
      <3>1. Put \in 0 .. K BY <1>0 DEF Put
      <3> QED BY <1>0, <3>1, CondTotals
    <2>5. ids[at] \in Tokens BY <1>0, <2>1
    <2>6. row' = row \o <<ids[at]>> /\ Len(row') = Len(row) + 1 BY <1>0, <2>1, <2>5
    <2>7. (Len(row) = at - 1 + Total(CondAreas, Put) - filled)'
      <3>1. Len(row') = (at + 1) - 1 + Total(CondAreas, Put) - filled BY <1>0, <2>2, <2>4, <2>6
      <3> QED BY <2>1, <2>3, <3>1
    <2>8. /\ Cardinality(Before(at)) \in Nat
          /\ Cardinality(Before(at + 1)) = Cardinality(Before(at)) + IF ids[at] = VisionStart THEN 1 ELSE 0
      BY <1>0, BeforeGrows
    <2>9. Cardinality(Starts(<<ids[at]>>)) = IF ids[at] = VisionStart THEN 1 ELSE 0
      <3>1. CASE ids[at] = VisionStart BY <3>1, StartsAre
      <3>2. CASE ids[at] # VisionStart
        <4>1. Starts(<<ids[at]>>) = {} BY <3>2, StartsAre
        <4> QED BY <3>2, <4>1, StartsAre
      <3> QED BY <3>1, <3>2
    <2>10. Cardinality(Starts(row')) = Cardinality(Starts(row)) + Cardinality(Starts(<<ids[at]>>))
           /\ Cardinality(Starts(row)) \in Nat
      <3>1. <<ids[at]>> \in Seq(Tokens) BY <2>5
      <3> QED BY <1>0, <2>6, <3>1, StartsConcat
    <2>11. filled <= Cardinality(Before(at + 1)) /\ Cardinality(Starts(row')) <= Cardinality(Before(at + 1))
      BY <1>0, <2>2, <2>8, <2>9, <2>10
    <2>12. Starts(row)' = Starts(row') /\ Before(at)' = Before(at + 1) BY <2>1 DEF Starts, Before
    <2>13. at' <= Len(ids') + 1 BY <1>0, <2>1
    <2>14. (K > 0)' BY <2>1, <2>3 DEF Sizes
    <2> QED BY <2>1, <2>7, <2>11, <2>12, <2>13, <2>14 DEF Sizes
  <1>9. CASE Refuse BY <1>9 DEF Refuse, Sizes
  <1>10. CASE AppendRows
    <2>1. pc = "expand" /\ pc' \in {"layout", "overrun", "refused"} /\ at > Len(ids) /\ filled = K
          /\ ids' = ids /\ refs' = refs
      BY <1>10 DEF AppendRows
    <2>2. /\ at = Len(ids) + 1 /\ Len(row) = at - 1 + Total(CondAreas, Put) - filled
          /\ Cardinality(Starts(row)) <= Cardinality(Before(Len(ids) + 1))
      <3>1. /\ at <= Len(ids) + 1 /\ Len(row) = at - 1 + Total(CondAreas, Put) - filled
            /\ Cardinality(Starts(row)) <= Cardinality(Before(at))
        BY <2>1 DEF Sizes
      <3>2. at = Len(ids) + 1 BY <1>0, <2>1, <3>1
      <3> QED BY <3>1, <3>2
    <2>3. Put = K /\ Total(CondAreas, K) \in Nat /\ Total(GridAreas, K) \in Nat
      <3>1. Put = K /\ K \in 0 .. K BY <1>0, <2>1 DEF Put
      <3> QED BY <1>0, <3>1, CondTotals, GridTotals
    <2>4. Len(row) = Reserved BY <1>0, <2>1, <2>2, <2>3 DEF Reserved
    <2>5. PICK more \in Seq(Tokens) : /\ row' = row \o more
                                      /\ Len(more) = 2 + Area(Target) + Total(GridAreas, K)
                                      /\ Cardinality(Starts(more)) = K + 1
      BY <1>10, AppendedIs
    <2>6. Len(row') = Reserved + (2 + Area(Target) + Total(GridAreas, K))
      <3>1. row \in Seq(Tokens) /\ row' = row \o more BY <1>0, <2>5
      <3>2. Len(row') = Len(row) + Len(more) BY <3>1
      <3> QED BY <2>4, <2>5, <3>2
    <2>7. Cardinality(Starts(row')) = Cardinality(Starts(row)) + (K + 1) /\ Cardinality(Starts(row)) \in Nat
      BY <1>0, <2>5, StartsConcat
    <2>8. /\ K' = K /\ CondAreas' = CondAreas /\ GridAreas' = GridAreas
          /\ Before(Len(ids) + 1)' = Before(Len(ids) + 1)
      BY <2>1 DEF K, CondAreas, GridAreas, Before
    <2>9. CASE pc' = "overrun"
      <3>1. Cardinality(Starts(row')) > 2 * MaxRefs + 1
        <4>1. Cardinality(Starts(row')) > 2 * MaxRefs + 1 \/ pc' # "overrun"
          BY <1>10 DEF AppendRows, Starts
        <4> QED BY <2>9, <4>1
      <3>2. Cardinality(Before(Len(ids) + 1)) \in Nat BY <1>0, BeforeGrows
      <3>3. Cardinality(Before(Len(ids) + 1)) > MaxRefs BY <1>0, <2>2, <2>7, <3>1, <3>2
      <3> QED BY <2>8, <2>9, <3>3 DEF Sizes
    <2>10. CASE pc' # "overrun"
      <3>1. Area(Target) \in Nat /\ Reserved \in Int BY <1>0, <2>3, AreasAre DEF Reserved
      <3>2. Len(row') = Reserved + 2 + Area(Target) + Total(GridAreas, K) BY <2>3, <2>6, <3>1
      <3>3. Reserved' = Reserved BY <2>1, <2>8 DEF Reserved
      <3>4. (Len(row) = Reserved + 2 + Area(Target) + Total(GridAreas, K))' BY <2>8, <3>2, <3>3
      <3>5. (K > 0)' BY <2>1, <2>8 DEF Sizes
      <3> QED BY <2>1, <2>10, <3>4, <3>5 DEF Sizes
    <2> QED BY <2>9, <2>10
  <1>11. CASE PlaceBlock
    <2>1. pc = "layout" /\ pc' \in {"mask", "layout"} /\ ids' = ids /\ refs' = refs /\ row' = row
      BY <1>11 DEF PlaceBlock
    <2>2. K' = K /\ Reserved' = Reserved /\ GridAreas' = GridAreas
      BY <2>1 DEF K, Reserved, CondAreas, GridAreas
    <2> QED BY <2>1, <2>2 DEF Sizes
  <1>12. CASE Mask
    <2>1. pc = "mask" /\ pc' \in {"done", "refused"} /\ ids' = ids /\ refs' = refs /\ row' = row
      BY <1>12 DEF Mask
    <2>2. K' = K /\ Reserved' = Reserved /\ GridAreas' = GridAreas
      BY <2>1 DEF K, Reserved, CondAreas, GridAreas
    <2> QED BY <2>1, <2>2 DEF Sizes
  <1>13. CASE PlaceText
    <2>1. pc = "text_only" /\ pc' = "done" /\ refs' = refs BY <1>13 DEF PlaceText
    <2>2. K = 0 BY <2>1 DEF Sizes
    <2>3. ~(K > 0)' BY <2>1, <2>2 DEF K
    <2> QED BY <2>1, <2>3 DEF Sizes
  <1>14. CASE UNCHANGED vars
    <2>1. pc' = pc /\ ids' = ids /\ refs' = refs /\ row' = row /\ at' = at /\ filled' = filled
      BY <1>14 DEF vars
    <2>2. /\ K' = K /\ Reserved' = Reserved /\ GridAreas' = GridAreas /\ CondAreas' = CondAreas
          /\ Put' = Put /\ Starts(row)' = Starts(row)
          /\ Before(at)' = Before(at) /\ Before(Len(ids) + 1)' = Before(Len(ids) + 1)
      BY <2>1 DEF K, Reserved, CondAreas, GridAreas, Put, Before, Starts
    <2> QED BY <2>1, <2>2 DEF Sizes
  <1> QED
    BY <1>1, <1>2, <1>3, <1>4, <1>5, <1>6, <1>7, <1>8, <1>9, <1>10, <1>11, <1>12, <1>13,
       <1>14
    DEF Next

\* The sizes are those that ExpansionFits compares.
LEMMA FitsNow == TypeOK /\ Encoding /\ Sizes => ExpansionFits
  <1> SUFFICES ASSUME TypeOK, Encoding, Sizes PROVE ExpansionFits OBVIOUS
  <1>0. /\ refs \in Seq(Geometries) /\ K \in Nat /\ K <= MaxRefs /\ MaxRefs \in Nat
        /\ at \in Nat /\ filled \in Nat /\ Len(ids) \in Nat /\ Len(row) \in Nat
        /\ Area(Target) \in Nat
    BY AreasAre, CaptionsAssumption DEF TypeOK
  <1>1. K \in 0 .. K /\ Total(CondAreas, K) \in Nat /\ Total(GridAreas, K) \in Nat
    <2>1. K \in 0 .. K BY <1>0
    <2> QED BY <1>0, <2>1, CondTotals, GridTotals
  <1>2. ASSUME pc = "expand" PROVE Len(row) <= Reserved
    <2>1. at <= Len(ids) + 1 /\ Len(row) = at - 1 + Total(CondAreas, Put) - filled
      BY <1>2 DEF Sizes
    <2>2. Put \in 0 .. K /\ Put <= filled BY <1>0 DEF Put
    <2>3. Total(CondAreas, Put) + (K - Put) <= Total(CondAreas, K) /\ Total(CondAreas, Put) \in Nat
      <3>1. Put <= K BY <1>0, <2>2
      <3> QED BY <1>0, <1>1, <2>2, <3>1, CondTotals
    <2>4. CASE filled < K
      <3>1. Put = filled BY <2>4 DEF Put
      <3> QED BY <1>0, <1>1, <2>1, <2>3, <3>1 DEF Reserved
    <2>5. CASE ~(filled < K)
      <3>1. Put = K BY <2>5 DEF Put
      <3> QED BY <1>0, <1>1, <2>1, <2>5, <3>1 DEF Reserved
    <2> QED BY <2>4, <2>5
  <1>3. ASSUME pc \in {"layout", "mask"} PROVE TemplateRows = Reserved + 2
    <2>1. K > 0 => Len(row) = Reserved + 2 + Area(Target) + Total(GridAreas, K) BY <1>3 DEF Sizes
    <2>2. K > 0 BY <1>3 DEF Sizes
    <2>3. Reserved \in Int BY <1>0, <1>1 DEF Reserved
    <2> QED BY <1>0, <1>1, <2>1, <2>2, <2>3 DEF TemplateRows
  <1>4. ASSUME pc = "overrun" PROVE Spelt > MaxRefs - K
    <2> DEFINE n == Cardinality(Before(Len(ids) + 1))
               c == Cardinality({i \in DOMAIN text : text[i] = "vision_start"})
    <2>1. n > MaxRefs BY <1>4 DEF Sizes
    <2>2. n <= c /\ c \in Nat
      <3>1. FlattenSeq(ids) = text BY <1>4 DEF Encoding
      <3> QED BY <3>1, MarkersAreSpelt
    <2>3. n \in Nat
      <3>1. Len(ids) + 1 \in Nat /\ Len(ids) + 1 >= 1 BY <1>0
      <3> QED BY <3>1, BeforeGrows
    <2>4. Spelt = c - K BY DEF Spelt
    <2> HIDE DEF n, c
    <2> QED BY <1>0, <2>1, <2>2, <2>3, <2>4
  <1> QED BY <1>2, <1>3, <1>4 DEF ExpansionFits

\* The expansion fits: exp_ids has room for what hd_seq_build writes, no more and
\* no less, and an array is overrun only behind more markers than a request of this
\* many references may spell.
THEOREM Fits == Spec => []ExpansionFits
  <1>1. Init => TypeOK /\ Encoding /\ Sizes BY TypeInit, EncodingInit, SizesInit
  <1>2. TypeOK /\ Encoding /\ Sizes /\ [Next]_vars => TypeOK' /\ Encoding' /\ Sizes'
    BY TypeNext, EncodingNext, SizesNext
  <1> QED BY <1>1, <1>2, FitsNow, PTL DEF Spec

-----------------------------------------------------------------------------
(* The beginning of the template. *)

\* The text begins with three symbols and the placeholders.
P == 3 + 3 * K

TextIs ==
  pc \notin {"names", "refused"} /\ K > 0 =>
    /\ Len(text) >= P
    /\ text[1] = "im_start" /\ text[2] = "user" /\ text[3] = Newline
    /\ \A k \in 1 .. K : /\ text[3 * k + 1] = "vision_start" /\ text[3 * k + 2] = "image_pad"
                         /\ text[3 * k + 3] = "vision_end"

\* The template begins with three symbols and the placeholders.
LEMMA TemplateBegins ==
  ASSUME refs \in Seq(Geometries), NEW caption \in Tokens
  PROVE  LET t == Template(caption)
         IN  /\ Len(t) >= P
             /\ t[1] = "im_start" /\ t[2] = "user" /\ t[3] = Newline
             /\ \A k \in 1 .. K : /\ t[3 * k + 1] = "vision_start" /\ t[3 * k + 2] = "image_pad"
                                  /\ t[3 * k + 3] = "vision_end"
  <1> DEFINE t == Template(caption)
             a == <<"im_start", "user", Newline>>
             b == FlattenSeq(Placeholders)
             f == [k \in 1 .. K |-> 3]
             ab == a \o b
  <1>1. /\ Placeholders \in Seq(Tokens) /\ Len(Placeholders) = K /\ K \in Nat
        /\ b \in Tokens
        /\ \E rest \in Tokens : t = (a \o b) \o rest
    BY TemplateIs, AreasAre
  <1>2. PICK rest \in Tokens : t = (a \o b) \o rest BY <1>1
  <1>3. a \in Tokens /\ Len(a) = 3 /\ a[1] = "im_start" /\ a[2] = "user" /\ a[3] = Newline
    BY DEF Tokens, Symbols, Blanks, Markers, Newline
  <1>4. /\ \A k \in 1 .. K : Placeholders[k] = <<"vision_start", "image_pad", "vision_end">>
        /\ \A k \in 1 .. K : f[k] = 3
    BY DEF Placeholders
  <1>5. \A k \in 1 .. K : /\ Len(Placeholders[k]) = 3 /\ Placeholders[k][1] = "vision_start"
                          /\ Placeholders[k][2] = "image_pad" /\ Placeholders[k][3] = "vision_end"
    <2> DEFINE x == <<"vision_start", "image_pad", "vision_end">>
    <2>1. Len(x) = 3 /\ x[1] = "vision_start" /\ x[2] = "image_pad" /\ x[3] = "vision_end" OBVIOUS
    <2>2. \A k \in 1 .. K : Placeholders[k] = x BY <1>4
    <2> HIDE DEF x
    <2> QED BY <2>1, <2>2
  <1> HIDE DEF f, a, b, t
  <1>6. \A k \in 0 .. K : Total(f, k) = 3 * k
    <2> DEFINE T == {k \in 0 .. K : Total(f, k) = 3 * k}
    <2>a. \A i \in 1 .. K : f[i] \in Nat BY <1>4
    <2>1. Total(f, 0) = 0 /\ \A i \in 1 .. K : Total(f, i) = Total(f, i - 1) + f[i]
      BY <1>1, <2>a, TotalFollows
    <2>2. 0 \in T BY <1>1, <2>1
    <2>3. ASSUME NEW k \in 1 .. K, k - 1 \in T PROVE k \in T
      <3>1. Total(f, k) = 3 * (k - 1) + 3 BY <1>4, <2>1, <2>3
      <3> QED BY <1>1, <3>1
    <2> HIDE DEF T
    <2>4. 0 .. K \subseteq T BY <1>1, <2>2, <2>3, UpTo
    <2> QED BY <2>4 DEF T
  <1>7. Parts(b, Placeholders, f)
    <2>1. \A k \in 1 .. Len(Placeholders) : f[k] = Len(Placeholders[k]) BY <1>1, <1>4, <1>5
    <2>2. Placeholders \in Seq(Seq(Symbols)) BY <1>1 DEF Tokens
    <2>3. Parts(FlattenSeq(Placeholders), Placeholders, f) BY <2>1, <2>2, FlattenParts
    <2> QED BY <2>3 DEF b
  <1>8. Len(b) = 3 * K
    <2>1. K \in 0 .. K BY <1>1
    <2> QED BY <1>1, <1>6, <1>7, <2>1 DEF Parts
  <1>9. ASSUME NEW k \in 1 .. K, NEW i \in 1 .. 3
        PROVE  3 * (k - 1) + i \in 1 .. 3 * K /\ b[3 * (k - 1) + i] = Placeholders[k][i]
    <2>1. k - 1 \in 0 .. K /\ i \in 1 .. f[k] BY <1>1, <1>4
    <2>2. Total(f, k - 1) + i \in 1 .. Total(f, K) /\ b[Total(f, k - 1) + i] = Placeholders[k][i]
      BY <1>1, <1>7, <2>1 DEF Parts
    <2>3. Total(f, k - 1) = 3 * (k - 1) /\ Total(f, K) = 3 * K
      <3>1. K \in 0 .. K BY <1>1
      <3> QED BY <1>6, <2>1, <3>1
    <2> QED BY <2>2, <2>3
  <1>10. /\ ab \in Tokens /\ Len(ab) = 3 + 3 * K
         /\ \A i \in 1 .. 3 : ab[i] = a[i]
         /\ \A i \in 1 .. 3 * K : ab[3 + i] = b[i]
    <2>1. ab = a \o b /\ a \in Seq(Symbols) /\ b \in Seq(Symbols) BY <1>1, <1>3 DEF Tokens
    <2> HIDE DEF ab
    <2>2. /\ ab \in Seq(Symbols) /\ Len(ab) = Len(a) + Len(b)
          /\ \A i \in 1 .. Len(a) : ab[i] = a[i]
          /\ \A i \in 1 .. Len(b) : ab[Len(a) + i] = b[i]
      BY <2>1
    <2> QED BY <1>3, <1>8, <2>2 DEF Tokens
  <1>11. t = ab \o rest BY <1>2
  <1> HIDE DEF ab
  <1>12. Len(t) >= P /\ \A i \in 1 .. P : t[i] = ab[i]
    <2>1. ab \in Seq(Symbols) /\ rest \in Seq(Symbols) BY <1>10 DEF Tokens
    <2>2. Len(t) = Len(ab) + Len(rest) /\ Len(rest) \in Nat /\ \A i \in 1 .. Len(ab) : t[i] = ab[i]
      BY <1>11, <2>1
    <2> QED BY <1>1, <1>10, <2>2 DEF P
  <1>13. t[1] = "im_start" /\ t[2] = "user" /\ t[3] = Newline
    <2>1. \A i \in 1 .. 3 : i \in 1 .. P BY <1>1 DEF P
    <2>2. 1 \in 1 .. 3 /\ 2 \in 1 .. 3 /\ 3 \in 1 .. 3 OBVIOUS
    <2> QED BY <1>3, <1>10, <1>12, <2>1, <2>2
  <1>14. ASSUME NEW k \in 1 .. K, NEW i \in 1 .. 3 PROVE t[3 * k + i] = Placeholders[k][i]
    <2>1. 3 * k + i \in 1 .. P /\ 3 * k + i = 3 + (3 * (k - 1) + i) BY <1>1 DEF P
    <2>2. 3 * (k - 1) + i \in 1 .. 3 * K /\ b[3 * (k - 1) + i] = Placeholders[k][i] BY <1>9
    <2> QED BY <1>10, <1>12, <2>1, <2>2
  <1>15. ASSUME NEW k \in 1 .. K
         PROVE  /\ t[3 * k + 1] = "vision_start" /\ t[3 * k + 2] = "image_pad"
                /\ t[3 * k + 3] = "vision_end"
    <2>1. 1 \in 1 .. 3 /\ 2 \in 1 .. 3 /\ 3 \in 1 .. 3 OBVIOUS
    <2> QED BY <1>5, <1>14, <2>1
  <1> QED BY <1>12, <1>13, <1>15 DEF t

\* The text, at the beginning and over a step.
LEMMA TextInit == Init => TextIs BY DEF Init, TextIs

LEMMA TextNext == TypeOK /\ TextIs /\ [Next]_vars => TextIs'
  <1> SUFFICES ASSUME TypeOK, TextIs, [Next]_vars PROVE TextIs' OBVIOUS
  <1>1. CASE Names
    <2>1. refs' = refs /\ (pc' = "refused" \/ text' = Template(Expanded)) BY <1>1 DEF Names
    <2>2. Expanded \in Tokens BY ExpandedIs DEF TypeOK
    <2>3. K' = K /\ P' = P BY <2>1 DEF K, P
    <2>4. CASE pc' = "refused" BY <2>4 DEF TextIs
    <2>5. CASE text' = Template(Expanded)
      <3>1. /\ Len(text') >= P
            /\ text'[1] = "im_start" /\ text'[2] = "user" /\ text'[3] = Newline
            /\ \A k \in 1 .. K :
                 /\ text'[3 * k + 1] = "vision_start" /\ text'[3 * k + 2] = "image_pad"
                 /\ text'[3 * k + 3] = "vision_end"
        BY <2>2, <2>5, TemplateBegins DEF TypeOK
      <3> QED BY <2>3, <3>1 DEF TextIs
    <2> QED BY <2>1, <2>4, <2>5
  <1>2. CASE text' = text /\ refs' = refs /\ (pc' \notin {"names", "refused"} => pc \notin {"names", "refused"})
    <2>1. K' = K /\ P' = P BY <1>2 DEF K, P
    <2> QED BY <1>2, <2>1 DEF TextIs
  <1>3. CASE EncodeMarker BY <1>2, <1>3 DEF EncodeMarker
  <1>4. CASE BeginWord BY <1>2, <1>4 DEF BeginWord
  <1>5. CASE Merge BY <1>2, <1>5 DEF Merge
  <1>6. CASE EndWord BY <1>2, <1>6 DEF EndWord
  <1>7. CASE Encoded BY <1>2, <1>7 DEF Encoded
  <1>8. CASE Expand BY <1>2, <1>8 DEF Expand
  <1>9. CASE Copy BY <1>2, <1>9 DEF Copy
  <1>10. CASE Refuse BY <1>2, <1>10 DEF Refuse
  <1>11. CASE AppendRows BY <1>2, <1>11 DEF AppendRows
  <1>12. CASE PlaceBlock BY <1>2, <1>12 DEF PlaceBlock
  <1>13. CASE Mask BY <1>2, <1>13 DEF Mask
  <1>14. CASE PlaceText BY <1>2, <1>14 DEF PlaceText
  <1>15. CASE UNCHANGED vars BY <1>2, <1>15 DEF vars
  <1> QED
    BY <1>1, <1>3, <1>4, <1>5, <1>6, <1>7, <1>8, <1>9, <1>10, <1>11, <1>12, <1>13, <1>14, <1>15
    DEF Next

\* Each of those symbols is a token of its own.
IdsAre ==
  K > 0 =>
    /\ pc = "encode" => IF at <= P + 1 THEN Len(ids) = at - 1 ELSE Len(ids) >= P
    /\ pc = "merge" => IF at <= P + 1 THEN Len(ids) = at - 2 /\ word = <<<<text[at - 1]>>>>
                       ELSE Len(ids) >= P
    /\ pc = "expand" => Len(ids) >= P
    /\ pc \in {"encode", "merge", "expand"} => \A j \in 1 .. P : j <= Len(ids) => ids[j] = <<text[j]>>

\* A word that begins there is one symbol.
LEMMA FirstWords ==
  ASSUME TypeOK, TextIs, K > 0, BeginWord, at <= P
  PROVE  WordLength = 1
  <1>1. /\ text \in Tokens /\ at \in 1 .. Len(text) /\ text[at] \notin Markers /\ K \in Nat
        /\ Len(text) \in Nat /\ at \in Nat /\ at >= 1
    BY AreasAre DEF TypeOK, BeginWord, Tokens
  <1>2. /\ Len(text) >= P
        /\ text[1] = "im_start" /\ text[2] = "user" /\ text[3] = Newline
        /\ \A k \in 1 .. K : /\ text[3 * k + 1] = "vision_start" /\ text[3 * k + 2] = "image_pad"
                             /\ text[3 * k + 3] = "vision_end"
    BY DEF BeginWord, TextIs
  <1>3. at # 1 BY <1>1, <1>2 DEF Markers
  <1>4. ~(at \in 4 .. P)
    <2> SUFFICES ASSUME at \in 4 .. P PROVE FALSE OBVIOUS
    <2> DEFINE k == (at - 1) \div 3
    <2>1. k \in Int /\ 3 * k <= at - 1 /\ at - 1 < 3 * k + 3 BY <1>1
    <2> HIDE DEF k
    <2>2. k \in 1 .. K BY <1>1, <2>1 DEF P
    <2>3. at = 3 * k + 1 \/ at = 3 * k + 2 \/ at = 3 * k + 3 BY <1>1, <2>1
    <2> QED BY <1>1, <1>2, <2>2, <2>3 DEF Markers
  <1>5. CASE at = 2
    <2>1. text[at] = "user" BY <1>2, <1>5
    <2>2. "user" \notin Letters \cup Blanks BY DEF Letters, Blanks, Space, Newline
    <2> QED BY <1>1, <2>1, <2>2, WordLengthIs
  <1>6. CASE at = 3
    <2>1. text[at] \in Blanks BY <1>2, <1>6 DEF Blanks
    <2>2. at < Len(text) /\ at + 1 = 4 BY <1>1, <1>2, <1>6 DEF P
    <2>3. text[at + 1] \in Markers
      <3>1. 1 \in 1 .. K /\ 3 * 1 + 1 = 4 BY <1>1
      <3>2. text[4] = "vision_start" BY <1>2, <3>1
      <3> QED BY <2>2, <3>2 DEF Markers
    <2> QED BY <1>1, <2>1, <2>2, <2>3, WordLengthIs
  <1>7. at = 1 \/ at = 2 \/ at = 3 \/ at \in 4 .. P BY <1>1
  <1> QED BY <1>3, <1>4, <1>5, <1>6, <1>7

\* The first tokens, at the beginning and over a step.
LEMMA IdsInit == Init => IdsAre BY DEF Init, IdsAre

LEMMA IdsNext == TypeOK /\ Encoding /\ TextIs /\ IdsAre /\ [Next]_vars => IdsAre'
  <1> SUFFICES ASSUME TypeOK, Encoding, TextIs, IdsAre, [Next]_vars, (K > 0)' PROVE IdsAre'
    BY DEF IdsAre
  <1>0. /\ refs' = refs /\ K' = K /\ P' = P /\ K \in Nat /\ K > 0 /\ P \in Nat /\ P >= 6
        /\ ids \in Seq(Tokens) /\ Len(ids) \in Nat /\ at \in Nat /\ at >= 1 /\ text \in Tokens
        /\ Len(text) \in Nat
    <2>1. refs' = refs
      BY DEF Next, Names, EncodeMarker, BeginWord, Merge, EndWord, Encoded, Expand, Copy, Refuse,
             AppendRows, PlaceBlock, Mask, PlaceText, vars
    <2>2. K' = K /\ P' = P /\ K > 0 BY <2>1 DEF K, P
    <2>3. K \in Nat BY AreasAre DEF TypeOK
    <2>4. P \in Nat /\ P >= 6 BY <2>2, <2>3 DEF P
    <2> QED BY <2>1, <2>2, <2>3, <2>4 DEF TypeOK, Tokens
  <1>1. CASE Names
    <2>1. pc = "names" /\ pc' \in {"encode", "refused"} /\ ids' = ids /\ at' = at BY <1>1 DEF Names
    <2>2. ids = <<>> /\ at = 1 BY <2>1 DEF Encoding
    <2>3. Len(ids') = at' - 1 /\ at' <= P' + 1 /\ \A j \in 1 .. P : ~(j <= Len(ids'))
      BY <1>0, <2>1, <2>2
    <2> QED BY <1>0, <2>1, <2>3 DEF IdsAre
  <1>2. CASE EncodeMarker
    <2>1. pc = "encode" /\ pc' = pc /\ text' = text /\ ids' = Append(ids, <<text[at]>>)
          /\ at' = at + 1 /\ at <= Len(text)
      BY <1>2 DEF EncodeMarker
    <2>2. /\ IF at <= P + 1 THEN Len(ids) = at - 1 ELSE Len(ids) >= P
          /\ \A j \in 1 .. P : j <= Len(ids) => ids[j] = <<text[j]>>
      BY <1>0, <2>1 DEF IdsAre
    <2>3. /\ Len(ids') = Len(ids) + 1 /\ ids'[Len(ids) + 1] = <<text[at]>>
          /\ \A j \in 1 .. Len(ids) : ids'[j] = ids[j]
      <3>1. at \in 1 .. Len(text) BY <1>0, <2>1
      <3>2. <<text[at]>> \in Tokens BY <1>0, <3>1 DEF Tokens
      <3> DEFINE x == <<text[at]>>
      <3>3. ids \in Seq(Tokens) /\ x \in Tokens /\ ids' = Append(ids, x) BY <1>0, <2>1, <3>2
      <3> HIDE DEF x
      <3>4. /\ Len(ids') = Len(ids) + 1 /\ ids'[Len(ids) + 1] = x
            /\ \A j \in 1 .. Len(ids) : ids'[j] = ids[j]
        BY <3>3
      <3> QED BY <3>4 DEF x
    <2>4. IF at' <= P' + 1 THEN Len(ids') = at' - 1 ELSE Len(ids') >= P' BY <1>0, <2>1, <2>2, <2>3
    <2>5. ASSUME NEW j \in 1 .. P, j <= Len(ids') PROVE ids'[j] = <<text[j]>>
      <3>1. CASE j <= Len(ids)
        <4>1. j \in 1 .. Len(ids) BY <1>0, <3>1
        <4> QED BY <2>2, <2>3, <3>1, <4>1
      <3>2. CASE ~(j <= Len(ids))
        <4>1. j = Len(ids) + 1 /\ j = at BY <1>0, <2>2, <2>3, <2>5, <3>2
        <4> QED BY <2>3, <4>1
      <3> QED BY <3>1, <3>2
    <2> QED BY <1>0, <2>1, <2>4, <2>5 DEF IdsAre
  <1>3. CASE BeginWord
    <2>1. pc = "encode" /\ pc' = "merge" /\ text' = text /\ ids' = ids /\ at' = at + WordLength
      BY <1>3 DEF BeginWord
    <2>2. /\ IF at <= P + 1 THEN Len(ids) = at - 1 ELSE Len(ids) >= P
          /\ \A j \in 1 .. P : j <= Len(ids) => ids[j] = <<text[j]>>
      BY <1>0, <2>1 DEF IdsAre
    <2>3. WordLength \in Nat /\ WordLength >= 1 /\ word' \in Seq(Plain) /\ Len(word') = WordLength
          /\ \A i \in 1 .. WordLength : word'[i] = <<text[at + i - 1]>>
      BY <1>3, BeginsPlain
    <2>4. CASE at <= P
      <3>1. WordLength = 1 BY <1>0, <1>3, <2>4, FirstWords
      <3>2. at' = at + 1 /\ at' <= P' + 1 /\ Len(ids') = at' - 2 /\ at' - 1 = at
        BY <1>0, <2>1, <2>2, <2>4, <3>1
      <3>3. word' = <<<<text[at]>>>>
        <4>1. 1 \in 1 .. WordLength /\ at + 1 - 1 = at BY <1>0, <3>1
        <4>2. word'[1] = <<text[at]>> BY <2>3, <4>1
        <4> QED BY <2>3, <3>1, <4>2
      <3> QED BY <1>0, <2>1, <2>2, <3>2, <3>3 DEF IdsAre
    <2>5. CASE ~(at <= P)
      <3>1. ~(at' <= P' + 1) /\ Len(ids') >= P' BY <1>0, <2>1, <2>2, <2>3, <2>5
      <3> QED BY <1>0, <2>1, <2>2, <3>1 DEF IdsAre
    <2> QED BY <2>4, <2>5
  <1>4. CASE Merge
    <2>1. pc = "merge" /\ pc' = pc /\ text' = text /\ ids' = ids /\ at' = at /\ Mergeable(word) # {}
      BY <1>4 DEF Merge
    <2>2. ~(at <= P + 1)
      <3> SUFFICES ASSUME at <= P + 1 PROVE FALSE OBVIOUS
      <3>1. word = <<<<text[at - 1]>>>> BY <1>0, <2>1 DEF IdsAre
      <3>2. Len(word) = 1 BY <3>1
      <3>3. Mergeable(word) = {} BY <3>2 DEF Mergeable
      <3> QED BY <2>1, <3>3
    <2> QED BY <1>0, <2>1, <2>2 DEF IdsAre
  <1>5. CASE EndWord
    <2>1. pc = "merge" /\ pc' = "encode" /\ text' = text /\ ids' = ids \o word /\ at' = at
      BY <1>5 DEF EndWord
    <2>2. /\ IF at <= P + 1 THEN Len(ids) = at - 2 /\ word = <<<<text[at - 1]>>>> ELSE Len(ids) >= P
          /\ \A j \in 1 .. P : j <= Len(ids) => ids[j] = <<text[j]>>
      BY <1>0, <2>1 DEF IdsAre
    <2>3. /\ Len(ids') = Len(ids) + Len(word) /\ Len(word) \in Nat
          /\ \A j \in 1 .. Len(ids) : ids'[j] = ids[j]
          /\ \A j \in 1 .. Len(word) : ids'[Len(ids) + j] = word[j]
      <3>1. ids \in Seq(Tokens) /\ word \in Seq(Tokens) /\ ids' = ids \o word
        BY <2>1, PlainTokens DEF TypeOK
      <3> QED BY <3>1
    <2>4. CASE at <= P + 1
      <3>1. Len(ids) = at - 2 /\ Len(word) = 1 /\ word[1] = <<text[at - 1]>> BY <2>2, <2>4
      <3>2. Len(ids') = at' - 1 /\ ids'[at - 1] = <<text[at - 1]>>
        <4>1. 1 \in 1 .. Len(word) /\ Len(ids) + 1 = at - 1 BY <1>0, <3>1
        <4> QED BY <1>0, <2>1, <2>3, <3>1, <4>1
      <3>3. ASSUME NEW j \in 1 .. P, j <= Len(ids') PROVE ids'[j] = <<text[j]>>
        <4>1. j \in 1 .. Len(ids) \/ j = at - 1 BY <1>0, <2>1, <3>1, <3>2, <3>3
        <4>2. CASE j \in 1 .. Len(ids)
          <5>1. j <= Len(ids) BY <1>0, <4>2
          <5> QED BY <2>2, <2>3, <4>2, <5>1
        <4>3. CASE j = at - 1 BY <3>2, <4>3
        <4> QED BY <4>1, <4>2, <4>3
      <3> QED BY <1>0, <2>1, <2>4, <3>2, <3>3 DEF IdsAre
    <2>5. CASE ~(at <= P + 1)
      <3>1. Len(ids) >= P /\ Len(ids') >= P BY <1>0, <2>2, <2>3, <2>5
      <3>2. ASSUME NEW j \in 1 .. P PROVE ids'[j] = <<text[j]>>
        <4>1. j \in 1 .. Len(ids) /\ j <= Len(ids) BY <1>0, <3>1
        <4> QED BY <2>2, <2>3, <4>1
      <3> QED BY <1>0, <2>1, <2>5, <3>1, <3>2 DEF IdsAre
    <2> QED BY <2>4, <2>5
  <1>6. CASE Encoded
    <2>1. pc = "encode" /\ pc' \in {"text_only", "expand"} /\ text' = text /\ ids' = ids /\ at > Len(text)
      BY <1>6 DEF Encoded
    <2>2. Len(text) >= P BY <1>0, <2>1 DEF TextIs
    <2>3. Len(ids) >= P BY <1>0, <2>1, <2>2 DEF IdsAre
    <2> QED BY <1>0, <2>1, <2>3 DEF IdsAre
  <1>7. CASE Expand \/ Copy
    <2>1. pc = "expand" /\ pc' \in {"expand", "overrun"} /\ text' = text /\ ids' = ids
      BY <1>7 DEF Expand, Copy
    <2> QED BY <1>0, <2>1 DEF IdsAre
  <1>8. CASE Refuse \/ AppendRows
    <2>1. pc' \in {"refused", "layout", "overrun"} BY <1>8 DEF Refuse, AppendRows
    <2> QED BY <2>1 DEF IdsAre
  <1>9. CASE PlaceBlock \/ Mask \/ PlaceText
    <2>1. pc' \in {"refused", "layout", "mask", "done"} BY <1>9 DEF PlaceBlock, Mask, PlaceText
    <2> QED BY <2>1 DEF IdsAre
  <1>10. CASE UNCHANGED vars
    <2>1. pc' = pc /\ text' = text /\ ids' = ids /\ at' = at /\ word' = word BY <1>10 DEF vars
    <2> QED BY <1>0, <2>1 DEF IdsAre
  <1> QED
    BY <1>1, <1>2, <1>3, <1>4, <1>5, <1>6, <1>7, <1>8, <1>9, <1>10
    DEF Next

-----------------------------------------------------------------------------
(* The rows of the references in the template. *)

\* The rows up to and with reference j and its end.
Behind(j) == 3 + Total(CondAreas, j) + 2 * j

\* The marker and the pads of reference k.
Stretch(k) ==
  /\ Len(row) >= Behind(k) - 1
  /\ row[Behind(k - 1) + 1] = VisionStart
  /\ \A i \in 1 .. CondAreas[k] : row[Behind(k - 1) + 1 + i] = ImagePad

\* The rows from the image's first on.
Rear ==
  /\ Behind(K) + 2 <= TemplateRows
  /\ row[TemplateRows + 1] = VisionStart
  /\ \A k \in 1 .. K : row[TemplateRows + Area(Target) + Total(GridAreas, k - 1) + 1] = VisionStart
  /\ Cardinality(Starts(row)) = 2 * K + 1

\* The template's own placeholders are the first that are expanded, one for each
\* reference, in their order.
RowsAre ==
  /\ pc = "expand" =>
       /\ at <= P + 1 => \/ filled = 0 /\ at <= 4
                         \/ filled \in 1 .. K /\ at \in {3 + 3 * filled, 4 + 3 * filled}
       /\ at > P + 1 => filled >= K
       /\ \A k \in 1 .. K : k <= filled => Stretch(k)
  /\ pc \in {"layout", "mask", "done"} /\ K > 0 => Rear /\ \A k \in 1 .. K : Stretch(k)

\* Behind is the end of a reference's rows, and grows by its pads and two markers.
LEMMA BehindIs ==
  ASSUME refs \in Seq(Geometries)
  PROVE  /\ Behind(0) = 3
         /\ \A k \in 0 .. K : Behind(k) \in Nat /\ Behind(k) >= 3
         /\ \A k \in 1 .. K : Behind(k) = Behind(k - 1) + CondAreas[k] + 2 /\ CondAreas[k] \in Nat
                              /\ CondAreas[k] >= 1
  <1>1. K \in Nat /\ \A k \in 1 .. K : CondAreas[k] \in Nat /\ CondAreas[k] >= 1 BY AreasAre
  <1>2. /\ Total(CondAreas, 0) = 0
        /\ \A k \in 0 .. K : Total(CondAreas, k) \in Nat
        /\ \A k \in 1 .. K : Total(CondAreas, k) = Total(CondAreas, k - 1) + CondAreas[k]
    BY CondTotals
  <1>3. Behind(0) = 3 BY <1>2 DEF Behind
  <1>4. \A k \in 0 .. K : Behind(k) \in Nat /\ Behind(k) >= 3 BY <1>1, <1>2 DEF Behind
  <1>5. ASSUME NEW k \in 1 .. K PROVE Behind(k) = Behind(k - 1) + CondAreas[k] + 2
    <2>1. k - 1 \in 0 .. K BY <1>1
    <2>2. Total(CondAreas, k - 1) \in Nat /\ CondAreas[k] \in Nat
          /\ Total(CondAreas, k) = Total(CondAreas, k - 1) + CondAreas[k]
      BY <1>1, <1>2, <2>1
    <2> QED BY <2>2 DEF Behind
  <1> QED BY <1>1, <1>3, <1>4, <1>5

\* What comes behind the rows of a reference leaves them as they are.
LEMMA StretchKept ==
  ASSUME TypeOK, refs' = refs, NEW more \in Seq(Tokens), row' = row \o more,
         NEW k \in 1 .. K, Stretch(k)
  PROVE  Stretch(k)'
  <1> DEFINE a == Behind(k - 1)
             c == CondAreas[k]
             b == Behind(k)
  <1>1. K \in Nat /\ refs \in Seq(Geometries) /\ row \in Seq(Tokens) BY AreasAre DEF TypeOK
  <1>2. a \in Nat /\ c \in Nat /\ b = a + c + 2
    <2>1. k - 1 \in 0 .. K BY <1>1
    <2> QED BY <1>1, <2>1, BehindIs
  <1>3. Len(row') = Len(row) + Len(more) /\ Len(row) \in Nat /\ Len(more) \in Nat
        /\ \A i \in 1 .. Len(row) : row'[i] = row[i]
    BY <1>1
  <1>4. Len(row) >= b - 1 /\ row[a + 1] = VisionStart /\ \A i \in 1 .. c : row[a + 1 + i] = ImagePad
    BY DEF Stretch
  <1>5. Behind(k)' = b /\ Behind(k - 1)' = a /\ CondAreas[k]' = c BY DEF Behind, CondAreas, K
  <1> HIDE DEF a, b, c
  <1>6. Len(row') >= b - 1 BY <1>2, <1>3, <1>4
  <1>7. row'[a + 1] = VisionStart
    <2>1. a + 1 \in 1 .. Len(row) BY <1>2, <1>3, <1>4
    <2> QED BY <1>3, <1>4, <2>1
  <1>8. ASSUME NEW i \in 1 .. c PROVE row'[a + 1 + i] = ImagePad
    <2>1. a + 1 + i \in 1 .. Len(row) BY <1>2, <1>3, <1>4
    <2> QED BY <1>3, <1>4, <2>1
  <1> QED BY <1>5, <1>6, <1>7, <1>8 DEF Stretch

\* Which of the first tokens are placeholders.
LEMMA FirstTokens ==
  ASSUME TypeOK, TextIs, IdsAre, pc = "expand", K > 0
  PROVE  /\ Len(ids) >= P
         /\ \A j \in 1 .. 3 : ids[j] # VisionStart
         /\ \A k \in 1 .. K : ids[3 + 3 * k] # VisionStart /\ Placeholder(1 + 3 * k)
  <1>1. K \in Nat /\ Len(ids) \in Nat BY AreasAre DEF TypeOK
  <1>2. /\ text[1] = "im_start" /\ text[2] = "user" /\ text[3] = Newline
        /\ \A k \in 1 .. K : /\ text[3 * k + 1] = "vision_start" /\ text[3 * k + 2] = "image_pad"
                             /\ text[3 * k + 3] = "vision_end"
    BY DEF TextIs
  <1>3. Len(ids) >= P /\ \A j \in 1 .. P : ids[j] = <<text[j]>> BY <1>1 DEF IdsAre, P
  <1>4. <<"im_start">> # VisionStart /\ <<"user">> # VisionStart /\ <<Newline>> # VisionStart
        /\ <<"vision_end">> # VisionStart
    BY DEF VisionStart, Newline
  <1>5. ASSUME NEW j \in 1 .. 3 PROVE ids[j] # VisionStart
    <2>1. j = 1 \/ j = 2 \/ j = 3 OBVIOUS
    <2>2. j \in 1 .. P BY <1>1 DEF P
    <2>3. ids[j] = <<text[j]>> BY <1>3, <2>2
    <2> QED BY <1>2, <1>4, <2>1, <2>3
  <1>6. ASSUME NEW k \in 1 .. K PROVE ids[3 + 3 * k] # VisionStart /\ Placeholder(1 + 3 * k)
    <2>1. /\ 3 * k + 1 \in 1 .. P /\ 3 * k + 2 \in 1 .. P /\ 3 * k + 3 \in 1 .. P
          /\ 3 + 3 * k = 3 * k + 3 /\ 1 + 3 * k = 3 * k + 1 /\ (1 + 3 * k) + 1 = 3 * k + 2
          /\ 1 + 3 * k < Len(ids)
      BY <1>1, <1>3 DEF P
    <2>2. /\ ids[3 * k + 1] = <<"vision_start">> /\ ids[3 * k + 2] = <<"image_pad">>
          /\ ids[3 * k + 3] = <<"vision_end">>
      BY <1>2, <1>3, <2>1
    <2>3. ids[3 + 3 * k] # VisionStart BY <1>4, <2>1, <2>2
    <2>4. Placeholder(1 + 3 * k) BY <2>1, <2>2 DEF Placeholder, VisionStart, ImagePad
    <2> QED BY <2>3, <2>4
  <1> QED BY <1>3, <1>5, <1>6

\* The rows of one more reference.
LEMMA StretchMade ==
  ASSUME TypeOK, TextIs, IdsAre, Sizes, RowsAre, Expand, filled < K, at = 4 + 3 * filled
  PROVE  (\A k : k = filled + 1 => Stretch(k)') /\ filled' = filled + 1 /\ at' = at + 2
  <1> DEFINE a == Behind(filled)
             c == CondAreas[filled + 1]
             b == Behind(filled + 1)
             t == Total(CondAreas, filled)
             l == Len(row)
  <1>1. /\ K \in Nat /\ refs \in Seq(Geometries) /\ row \in Seq(Tokens) /\ l \in Nat
        /\ filled \in Nat /\ K <= MaxRefs /\ MaxRefs \in Nat /\ pc = "expand" /\ at \in Nat
        /\ filled < MaxRefs /\ filled \in 0 .. K /\ filled + 1 \in 1 .. K /\ (filled + 1) - 1 = filled
    BY AreasAre, CaptionsAssumption DEF TypeOK, Expand
  <1>2. a \in Nat /\ c \in Nat /\ b = a + c + 2
    <2>1. Behind(filled + 1) = Behind((filled + 1) - 1) + CondAreas[filled + 1] + 2
          /\ CondAreas[filled + 1] \in Nat /\ Behind(filled) \in Nat
      BY <1>1, BehindIs
    <2> QED BY <1>1, <2>1
  <1>3. l = a
    <2>1. l = at - 1 + Total(CondAreas, Put) - filled BY <1>1 DEF Sizes
    <2>2. Put = filled BY <1>1 DEF Put
    <2>3. t \in Nat BY <1>1, CondTotals
    <2>4. a = 3 + t + 2 * filled BY DEF Behind
    <2>5. l = at - 1 + t - filled BY <2>1, <2>2
    <2> HIDE DEF l, t, a
    <2> QED BY <1>1, <2>3, <2>4, <2>5
  <1>4. refs' = refs /\ filled' = filled + 1 /\ at' = at + 2 BY <1>1 DEF Expand
  <1>5. \E more \in Seq(Tokens) : /\ row' = row \o more /\ Len(more) = c + 1
                                  /\ more[1] = VisionStart /\ \A i \in 1 .. c : more[1 + i] = ImagePad
    BY <1>1, ExpandedRow
  <1>6. PICK more \in Seq(Tokens) : /\ row' = row \o more /\ Len(more) = c + 1
                                    /\ more[1] = VisionStart /\ \A i \in 1 .. c : more[1 + i] = ImagePad
    BY <1>5
  <1>7. /\ Len(row') = Len(row) + Len(more)
        /\ \A i \in 1 .. Len(more) : row'[Len(row) + i] = more[i]
    <2>1. row \in Seq(Tokens) /\ row' = row \o more BY <1>1, <1>6
    <2> QED BY <2>1
  <1>8. /\ CondAreas' = CondAreas
        /\ \A k : Behind(k)' = Behind(k)
    BY <1>4 DEF Behind, CondAreas, K
  <1> HIDE DEF a, b, c, l
  <1>9. Len(row') >= b - 1 BY <1>1, <1>2, <1>3, <1>6, <1>7 DEF l
  <1>10. row'[a + 1] = VisionStart
    <2>1. 1 \in 1 .. Len(more) BY <1>2, <1>6
    <2> QED BY <1>3, <1>6, <1>7, <2>1 DEF l
  <1>11. ASSUME NEW i \in 1 .. c PROVE row'[a + 1 + i] = ImagePad
    <2>1. 1 + i \in 1 .. Len(more) /\ a + (1 + i) = a + 1 + i BY <1>2, <1>6
    <2> QED BY <1>3, <1>6, <1>7, <2>1 DEF l
  <1>12. \A k : k = filled + 1 => Stretch(k)'
    <2> SUFFICES ASSUME NEW k, k = filled + 1 PROVE Stretch(k)' OBVIOUS
    <2>1. Behind(k) = b /\ Behind(k - 1) = a /\ CondAreas[k] = c BY <1>1 DEF a, b, c
    <2> QED BY <1>8, <1>9, <1>10, <1>11, <2>1 DEF Stretch
  <1> QED BY <1>4, <1>12

\* The image and the references behind the template.
LEMMA RearMade ==
  ASSUME TypeOK, TextIs, IdsAre, Sizes, RowsAre, AppendRows, pc' = "layout"
  PROVE  Rear'
  <1> DEFINE A == Area(Target)
             G == Total(GridAreas, K)
             l == Len(row)
  <1>1. /\ K \in Nat /\ refs \in Seq(Geometries) /\ row \in Seq(Tokens) /\ l \in Nat /\ pc = "expand"
        /\ K > 0 /\ filled = K /\ at > Len(ids) /\ at \in Nat /\ Len(ids) \in Nat /\ refs' = refs
    BY AreasAre DEF TypeOK, AppendRows, Sizes
  <1>2. A \in Nat /\ A >= 1 /\ G \in Nat /\ Total(CondAreas, K) \in Nat
    <2>1. K \in 0 .. K BY <1>1
    <2> QED BY <1>1, <2>1, AreasAre, GridTotals, CondTotals
  <1>3. \A k \in 1 .. K : Total(GridAreas, k - 1) \in Nat /\ Total(GridAreas, k - 1) + 1 <= G
    <2> SUFFICES ASSUME NEW k \in 1 .. K
                 PROVE  Total(GridAreas, k - 1) \in Nat /\ Total(GridAreas, k - 1) + 1 <= G
      OBVIOUS
    <2>1. k - 1 \in 0 .. K /\ K \in 0 .. K /\ k - 1 <= K /\ K - (k - 1) >= 1 /\ K - (k - 1) \in Nat
      BY <1>1
    <2>2. Total(GridAreas, k - 1) \in Nat /\ Total(GridAreas, k - 1) + (K - (k - 1)) <= G
      BY <1>1, <2>1, GridTotals
    <2> QED BY <1>2, <2>1, <2>2
  <1>4. l >= Behind(K)
    <2>1. l = at - 1 + Total(CondAreas, Put) - filled BY <1>1 DEF Sizes
    <2>2. Put = K BY <1>1 DEF Put
    <2>3. Len(ids) >= P BY <1>1, FirstTokens
    <2>4. Behind(K) = 3 + Total(CondAreas, K) + 2 * K BY DEF Behind
    <2>5. l = at - 1 + Total(CondAreas, K) - K BY <1>1, <2>1, <2>2
    <2> HIDE DEF l
    <2> QED BY <1>1, <1>2, <2>3, <2>4, <2>5 DEF P
  <1>5. PICK more \in Seq(Tokens) :
          /\ row' = row \o more
          /\ Len(more) = 2 + A + G
          /\ more[3] = VisionStart
          /\ \A k \in 1 .. K : more[2 + A + Total(GridAreas, k - 1) + 1] = VisionStart
    BY AppendedIs
  <1>6. /\ Len(row') = Len(row) + Len(more)
        /\ \A i \in 1 .. Len(more) : row'[Len(row) + i] = more[i]
    <2>1. row \in Seq(Tokens) /\ row' = row \o more BY <1>1, <1>5
    <2> QED BY <2>1
  <1>7. K' = K /\ GridAreas' = GridAreas /\ Behind(K)' = Behind(K)
    BY <1>1 DEF K, GridAreas, Behind, CondAreas
  <1>8. TemplateRows' = l + 2
    <2>1. TemplateRows' = Len(row') - A - G BY <1>7 DEF TemplateRows
    <2>2. Len(row') = l + (2 + A + G) BY <1>5, <1>6
    <2> HIDE DEF l, A, G
    <2> QED BY <1>1, <1>2, <2>1, <2>2
  <1>9. Cardinality(Starts(row))' = 2 * K + 1 BY <1>1, <1>7 DEF AppendRows, Starts
  <1> HIDE DEF A, G
  <1>10. row'[TemplateRows' + 1] = VisionStart
    <2>1. 3 \in 1 .. Len(more) /\ Len(row) + 3 = TemplateRows' + 1 BY <1>1, <1>2, <1>5, <1>8
    <2> QED BY <1>5, <1>6, <2>1
  <1>11. ASSUME NEW k \in 1 .. K
         PROVE  row'[TemplateRows' + A + Total(GridAreas, k - 1) + 1] = VisionStart
    <2> DEFINE t == Total(GridAreas, k - 1)
    <2>1. t \in Nat /\ t + 1 <= G /\ more[2 + A + t + 1] = VisionStart BY <1>3, <1>5
    <2> HIDE DEF t
    <2>2. 2 + A + t + 1 \in 1 .. Len(more) /\ Len(row) + (2 + A + t + 1) = TemplateRows' + A + t + 1
      BY <1>1, <1>2, <1>5, <1>8, <2>1
    <2>3. row'[TemplateRows' + A + t + 1] = VisionStart BY <1>6, <2>1, <2>2
    <2> QED BY <2>3 DEF t
  <1>12. Behind(K)' + 2 <= TemplateRows'
    <2>1. Behind(K) \in Nat
      <3>1. K \in 0 .. K BY <1>1
      <3> QED BY <1>1, <3>1, BehindIs
    <2> HIDE DEF l
    <2> QED BY <1>1, <1>4, <1>7, <1>8, <2>1
  <1> QED BY <1>7, <1>9, <1>10, <1>11, <1>12 DEF Rear, A

\* The rows of the references, at the beginning and over a step.
LEMMA RowsInit == Init => RowsAre BY DEF Init, RowsAre

LEMMA RowsNext ==
  TypeOK /\ TextIs /\ IdsAre /\ Sizes /\ RowsAre /\ [Next]_vars => RowsAre'
  <1> SUFFICES ASSUME TypeOK, TextIs, IdsAre, Sizes, RowsAre, [Next]_vars PROVE RowsAre' OBVIOUS
  <1>0. /\ K \in Nat /\ K' = K /\ P' = P /\ refs' = refs /\ refs \in Seq(Geometries)
        /\ at \in Nat /\ at >= 1 /\ filled \in Nat /\ filled <= MaxRefs /\ MaxRefs \in Nat
        /\ row \in Seq(Tokens) /\ ids \in Seq(Tokens) /\ P = 3 + 3 * K
    <2>1. refs' = refs
      BY DEF Next, Names, EncodeMarker, BeginWord, Merge, EndWord, Encoded, Expand, Copy, Refuse,
             AppendRows, PlaceBlock, Mask, PlaceText, vars
    <2>2. K' = K /\ P' = P BY <2>1 DEF K, P
    <2> QED BY <2>1, <2>2, AreasAre, CaptionsAssumption DEF TypeOK, P
  <1>1. CASE Names \/ EncodeMarker \/ BeginWord \/ Merge \/ EndWord
    <2>1. pc' \in {"refused", "encode", "merge"}
      BY <1>1 DEF Names, EncodeMarker, BeginWord, Merge, EndWord
    <2> QED BY <2>1 DEF RowsAre
  <1>2. CASE Encoded
    <2>1. pc' \in {"text_only", "expand"} /\ at' = 1 /\ filled' = 0
      BY <1>2 DEF Encoded, Sizes
    <2>2. at' <= 4 /\ at' <= P' + 1 /\ \A k \in 1 .. K : ~(k <= filled') BY <1>0, <2>1
    <2> QED BY <1>0, <2>1, <2>2 DEF RowsAre
  <1>3. ASSUME pc = "expand", at <= P, 4 + 3 * filled = at
        PROVE  filled < K /\ Placeholder(at)
    <2>1. filled + 1 \in 1 .. K /\ 1 + 3 * (filled + 1) = at BY <1>0, <1>3
    <2>2. K > 0 BY <1>3 DEF Sizes
    <2>3. \A k \in 1 .. K : Placeholder(1 + 3 * k) BY <1>3, <2>2, FirstTokens
    <2>4. Placeholder(1 + 3 * (filled + 1)) BY <2>1, <2>3
    <2>5. Placeholder(at) BY <2>1, <2>4
    <2> QED BY <1>0, <2>1, <2>5
  <1>4. ASSUME pc = "expand", at <= P, at <= 3 \/ (filled \in 1 .. K /\ at = 3 + 3 * filled)
        PROVE  ids[at] # VisionStart
    <2>1. K > 0 BY <1>4 DEF Sizes
    <2>2. at \in 1 .. 3 \/ (filled \in 1 .. K /\ at = 3 + 3 * filled) BY <1>0, <1>4
    <2> QED BY <1>4, <2>1, <2>2, FirstTokens
  <1>5. CASE Expand
    <2>1. pc = "expand" /\ Placeholder(at) /\ ids[at] = VisionStart BY <1>5 DEF Expand, Placeholder
    <2>2. /\ at <= P + 1 => \/ filled = 0 /\ at <= 4
                            \/ filled \in 1 .. K /\ at \in {3 + 3 * filled, 4 + 3 * filled}
          /\ at > P + 1 => filled >= K
          /\ \A k \in 1 .. K : k <= filled => Stretch(k)
      BY <2>1 DEF RowsAre
    <2>3. CASE filled < MaxRefs
      <3>1. pc' = pc /\ filled' = filled + 1 /\ at' = at + 2 BY <1>5, <2>3 DEF Expand
      <3>2. \E more \in Seq(Tokens) : row' = row \o more BY <1>5, <2>3, ExpandedRow
      <3>3. PICK more \in Seq(Tokens) : row' = row \o more BY <3>2
      <3>4. \A k \in 1 .. K : k <= filled => Stretch(k)' BY <1>0, <2>2, <3>3, StretchKept
      <3>5. CASE at <= P
        <4>1. at = 4 + 3 * filled
          <5>1. ~(at <= 3 \/ (filled \in 1 .. K /\ at = 3 + 3 * filled)) BY <1>4, <2>1, <3>5
          <5>2. at <= P + 1 BY <1>0, <3>5
          <5>3. \/ filled = 0 /\ at <= 4
                \/ filled \in 1 .. K /\ at = 4 + 3 * filled
            BY <2>2, <5>1, <5>2
          <5> QED BY <1>0, <5>1, <5>3
        <4>2. filled < K BY <1>3, <2>1, <3>5, <4>1
        <4>3. \A k : k = filled + 1 => Stretch(k)' BY <1>5, <4>1, <4>2, StretchMade
        <4>4. \A k \in 1 .. K : k <= filled' => Stretch(k)'
          <5>1. \A k \in 1 .. K : k <= filled' => k <= filled \/ k = filled + 1 BY <1>0, <3>1
          <5> QED BY <3>4, <4>3, <5>1
        <4>5. filled' \in 1 .. K /\ at' = 3 + 3 * filled' /\ at' <= P' + 1
          BY <1>0, <3>1, <4>1, <4>2
        <4> QED BY <1>0, <2>1, <3>1, <4>4, <4>5 DEF RowsAre
      <3>6. CASE ~(at <= P)
        <4>1. filled >= K
          <5>1. CASE at > P + 1 BY <2>2, <5>1
          <5>2. CASE at = P + 1
            <6>1. K > 0 BY <2>1 DEF Sizes
            <6>2. at <= P + 1 BY <1>0, <5>2
            <6>3. \/ filled = 0 /\ at <= 4
                  \/ filled \in 1 .. K /\ (at = 3 + 3 * filled \/ at = 4 + 3 * filled)
              BY <2>2, <6>2
            <6> QED BY <1>0, <5>2, <6>1, <6>3
          <5> QED BY <1>0, <3>6, <5>1, <5>2
        <4>2. at' > P' + 1 /\ filled' >= K BY <1>0, <3>1, <3>6, <4>1
        <4>3. \A k \in 1 .. K : k <= filled' => Stretch(k)'
          <5>1. \A k \in 1 .. K : k <= filled BY <1>0, <4>1
          <5> QED BY <3>4, <5>1
        <4>4. ~(at' <= P' + 1) BY <1>0, <3>1, <4>2
        <4> QED BY <1>0, <2>1, <3>1, <4>2, <4>3, <4>4 DEF RowsAre
      <3> QED BY <3>5, <3>6
    <2>4. CASE ~(filled < MaxRefs)
      <3>1. pc' = "overrun" BY <1>5, <2>4 DEF Expand
      <3> QED BY <3>1 DEF RowsAre
    <2> QED BY <2>3, <2>4
  <1>6. CASE Copy
    <2>1. /\ pc = "expand" /\ pc' = pc /\ ~ Placeholder(at) /\ at <= Len(ids)
          /\ row' = Append(row, ids[at]) /\ filled' = filled /\ at' = at + 1
      BY <1>6 DEF Copy
    <2>2. /\ at <= P + 1 => \/ filled = 0 /\ at <= 4
                            \/ filled \in 1 .. K /\ at \in {3 + 3 * filled, 4 + 3 * filled}
          /\ at > P + 1 => filled >= K
          /\ \A k \in 1 .. K : k <= filled => Stretch(k)
      BY <2>1 DEF RowsAre
    <2>3. \E more \in Seq(Tokens) : row' = row \o more
      <3>1. at \in 1 .. Len(ids) BY <1>0, <2>1
      <3>2. ids[at] \in Tokens BY <1>0, <3>1
      <3>3. <<ids[at]>> \in Seq(Tokens) /\ row' = row \o <<ids[at]>> BY <1>0, <2>1, <3>2
      <3> QED BY <3>3
    <2>4. PICK more \in Seq(Tokens) : row' = row \o more BY <2>3
    <2>5. \A k \in 1 .. K : k <= filled => Stretch(k)' BY <1>0, <2>2, <2>4, StretchKept
    <2>6. CASE at <= P
      <3>1. 4 + 3 * filled # at BY <1>3, <2>1, <2>6
      <3>2. at <= P + 1 BY <1>0, <2>6
      <3>3. (filled = 0 /\ at <= 4) \/ (filled \in 1 .. K /\ (at = 3 + 3 * filled \/ at = 4 + 3 * filled))
        BY <2>2, <3>2
      <3>4. (filled' = 0 /\ at' <= 4) \/ (filled' \in 1 .. K /\ at' = 4 + 3 * filled')
        BY <1>0, <2>1, <3>1, <3>3
      <3>5. at' <= P' + 1 BY <1>0, <2>1, <2>6
      <3> QED BY <1>0, <2>1, <2>5, <3>4, <3>5 DEF RowsAre
    <2>7. CASE ~(at <= P)
      <3>1. filled >= K
        <4>1. CASE at > P + 1 BY <2>2, <4>1
        <4>2. CASE at = P + 1
          <5>1. K > 0 BY <2>1 DEF Sizes
          <5>2. at <= P + 1 BY <1>0, <4>2
          <5>3. \/ filled = 0 /\ at <= 4
                \/ filled \in 1 .. K /\ (at = 3 + 3 * filled \/ at = 4 + 3 * filled)
            BY <2>2, <5>2
          <5> QED BY <1>0, <4>2, <5>1, <5>3
        <4> QED BY <1>0, <2>7, <4>1, <4>2
      <3>2. at' > P' + 1 /\ filled' >= K /\ ~(at' <= P' + 1) BY <1>0, <2>1, <2>7, <3>1
      <3> QED BY <1>0, <2>1, <2>5, <3>2 DEF RowsAre
    <2> QED BY <2>6, <2>7
  <1>7. CASE Refuse
    <2>1. pc' = "refused" BY <1>7 DEF Refuse
    <2> QED BY <2>1 DEF RowsAre
  <1>8. CASE AppendRows
    <2>1. pc = "expand" /\ pc' \in {"layout", "overrun", "refused"} /\ filled = K
      BY <1>8 DEF AppendRows
    <2>2. CASE pc' = "layout"
      <3>1. \E more \in Seq(Tokens) : row' = row \o more BY <1>8, AppendedIs
      <3>2. PICK more \in Seq(Tokens) : row' = row \o more BY <3>1
      <3>3. \A k \in 1 .. K : Stretch(k)
        <4>1. \A k \in 1 .. K : k <= filled BY <1>0, <2>1
        <4> QED BY <2>1, <4>1 DEF RowsAre
      <3>4. \A k \in 1 .. K : Stretch(k)' BY <1>0, <3>2, <3>3, StretchKept
      <3>5. Rear' BY <1>8, <2>2, RearMade
      <3> QED BY <1>0, <2>2, <3>4, <3>5 DEF RowsAre
    <2>3. CASE pc' # "layout" BY <2>1, <2>3 DEF RowsAre
    <2> QED BY <2>2, <2>3
  <1>9. CASE PlaceBlock \/ Mask
    <2>1. pc \in {"layout", "mask"} /\ pc' \in {"layout", "mask", "done", "refused"} /\ row' = row
      BY <1>9 DEF PlaceBlock, Mask
    <2>2. Rear' = Rear /\ \A k : Stretch(k)' = Stretch(k)
      BY <1>0, <2>1 DEF Rear, Stretch, Behind, TemplateRows, CondAreas, GridAreas, Starts, K
    <2>3. K > 0 => Rear /\ \A k \in 1 .. K : Stretch(k) BY <2>1 DEF RowsAre
    <2> QED BY <1>0, <2>1, <2>2, <2>3 DEF RowsAre
  <1>10. CASE PlaceText
    <2>1. pc = "text_only" /\ pc' = "done" BY <1>10 DEF PlaceText
    <2>2. K = 0 BY <2>1 DEF Sizes
    <2> QED BY <1>0, <2>1, <2>2 DEF RowsAre
  <1>11. CASE UNCHANGED vars
    <2>1. pc' = pc /\ row' = row /\ at' = at /\ filled' = filled BY <1>11 DEF vars
    <2>2. Rear' = Rear /\ \A k : Stretch(k)' = Stretch(k)
      BY <1>0, <2>1 DEF Rear, Stretch, Behind, TemplateRows, CondAreas, GridAreas, Starts, K
    <2> QED BY <1>0, <2>1, <2>2 DEF RowsAre
  <1> QED
    BY <1>1, <1>2, <1>5, <1>6, <1>7, <1>8, <1>9, <1>10, <1>11
    DEF Next

-----------------------------------------------------------------------------
(* Places. *)

\* Each of the rows has one place.
Whole(S, from, to) ==
  /\ S \subseteq Nat \X Nat \X Nat \X Nat
  /\ \A p \in S : p[1] \in from .. to - 1
  /\ \A i \in from .. to - 1 : \E p \in S : p[1] = i
  /\ \A p, q \in S : p[1] = q[1] => p = q

\* No two rows have the same place.
Distinct(S) == \A p, q \in S : p[2] = q[2] /\ p[3] = q[3] /\ p[4] = q[4] => p = q

\* Rows behind one another that have one place each have it together.
LEMMA WholeJoins ==
  ASSUME NEW S, NEW T, NEW a \in Nat, NEW b \in Nat, NEW c \in Nat, a <= b, b <= c,
         Whole(S, a, b), Whole(T, b, c)
  PROVE  Whole(S \cup T, a, c)
  <1>1. S \cup T \subseteq Nat \X Nat \X Nat \X Nat BY DEF Whole
  <1>2. \A p \in S : p[1] \in a .. b - 1 BY DEF Whole
  <1>3. \A p \in T : p[1] \in b .. c - 1 BY DEF Whole
  <1>4. \A p \in S \cup T : p[1] \in a .. c - 1 BY <1>2, <1>3
  <1>5. ASSUME NEW i \in a .. c - 1 PROVE \E p \in S \cup T : p[1] = i
    <2>1. CASE i <= b - 1
      <3>1. i \in a .. b - 1 BY <2>1
      <3>2. PICK p \in S : p[1] = i BY <3>1 DEF Whole
      <3> QED BY <3>2
    <2>2. CASE ~(i <= b - 1)
      <3>1. i \in b .. c - 1 BY <2>2
      <3>2. PICK p \in T : p[1] = i BY <3>1 DEF Whole
      <3> QED BY <3>2
    <2> QED BY <2>1, <2>2
  <1>6. ASSUME NEW p \in S \cup T, NEW q \in S \cup T, p[1] = q[1] PROVE p = q
    <2>1. p \in S /\ q \in S => p = q BY <1>6 DEF Whole
    <2>2. p \in T /\ q \in T => p = q BY <1>6 DEF Whole
    <2>3. \A x \in S, y \in T : x[1] # y[1]
      <3> SUFFICES ASSUME NEW x \in S, NEW y \in T PROVE x[1] # y[1] OBVIOUS
      <3>1. x[1] \in a .. b - 1 /\ y[1] \in b .. c - 1 BY <1>2, <1>3
      <3> QED BY <3>1
    <2>4. ~(p \in S /\ q \in T) /\ ~(p \in T /\ q \in S) BY <1>6, <2>3
    <2> QED BY <2>1, <2>2, <2>4
  <1> QED BY <1>1, <1>4, <1>5, <1>6 DEF Whole

\* A stretch of text: one place for each row, one time behind the other.
LEMMA TextPlacesAre ==
  ASSUME NEW first \in Nat, NEW n \in Nat, NEW place \in Nat
  PROVE  /\ Whole(TextPlaces(first, n, place), first, first + n)
         /\ \A p \in TextPlaces(first, n, place) : p[2] = place + (p[1] - first)
  <1> DEFINE T == TextPlaces(first, n, place)
             e(i) == <<first + i, place + i, place + i, place + i>>
  <1>1. \A p \in T : \E i \in 0 .. n - 1 : p = e(i) BY DEF TextPlaces
  <1>2. \A i \in 0 .. n - 1 : e(i) \in T BY DEF TextPlaces
  <1>3. \A i \in 0 .. n - 1 : /\ e(i) \in Nat \X Nat \X Nat \X Nat
                              /\ e(i)[1] = first + i /\ e(i)[2] = place + i
    OBVIOUS
  <1> HIDE DEF T, e
  <1>4. T \subseteq Nat \X Nat \X Nat \X Nat BY <1>1, <1>3
  <1>5. ASSUME NEW p \in T
        PROVE  p[1] \in first .. (first + n) - 1 /\ p[2] = place + (p[1] - first)
    <2>1. PICK i \in 0 .. n - 1 : p = e(i) BY <1>1
    <2>2. p[1] = first + i /\ p[2] = place + i BY <1>3, <2>1
    <2> QED BY <2>2
  <1>6. ASSUME NEW r \in first .. (first + n) - 1 PROVE \E p \in T : p[1] = r
    <2>1. r - first \in 0 .. n - 1 /\ first + (r - first) = r OBVIOUS
    <2>2. e(r - first) \in T /\ e(r - first)[1] = r BY <1>2, <1>3, <2>1
    <2> QED BY <2>2
  <1>7. ASSUME NEW p \in T, NEW q \in T, p[1] = q[1] PROVE p = q
    <2>1. PICK i \in 0 .. n - 1 : p = e(i) BY <1>1
    <2>2. PICK j \in 0 .. n - 1 : q = e(j) BY <1>1
    <2>3. first + i = first + j BY <1>3, <1>7, <2>1, <2>2
    <2>4. i = j BY <2>3
    <2> QED BY <2>1, <2>2, <2>4
  <1>8. Whole(T, first, first + n) BY <1>4, <1>5, <1>6, <1>7 DEF Whole
  <1> QED BY <1>5, <1>8 DEF T

\* The row and the column of a place in a grid.
LEMMA Division ==
  ASSUME NEW H \in Nat, NEW W \in Nat \ {0}
  PROVE  /\ \A h \in 0 .. H - 1, w \in 0 .. W - 1 : h * W + w \in 0 .. H * W - 1
         /\ \A r \in 0 .. H * W - 1 : \E h \in 0 .. H - 1, w \in 0 .. W - 1 : r = h * W + w
         /\ \A h, i \in 0 .. H - 1, w, x \in 0 .. W - 1 : h * W + w = i * W + x => h = i /\ w = x
  <1>1. ASSUME NEW h \in Nat, NEW i \in Nat, h < i PROVE h * W + W <= i * W /\ h * W \in Nat /\ i * W \in Nat
    <2>1. PICK d \in Nat : i = h + 1 + d
      <3>1. i - h - 1 \in Nat /\ i = h + 1 + (i - h - 1) BY <1>1
      <3> QED BY <3>1
    <2>2. i * W = h * W + W + d * W BY <2>1
    <2>3. d * W \in Nat /\ h * W \in Nat /\ i * W \in Nat OBVIOUS
    <2> QED BY <2>2, <2>3
  <1>2. ASSUME NEW h \in 0 .. H - 1, NEW w \in 0 .. W - 1 PROVE h * W + w \in 0 .. H * W - 1
    <2>1. h \in Nat /\ h < H BY <1>2
    <2>2. h * W + W <= H * W /\ h * W \in Nat /\ H * W \in Nat BY <1>1, <2>1
    <2> QED BY <2>2
  <1>3. ASSUME NEW r \in 0 .. H * W - 1
        PROVE  \E h \in 0 .. H - 1, w \in 0 .. W - 1 : r = h * W + w
    <2> DEFINE D == {d \in Nat : r < d * W}
    <2>1. H \in D /\ H * W \in Nat BY <1>3
    <2>2. PICK d \in D : \A y \in D : d <= y BY <2>1, Smallest
    <2>3. d # 0 BY <2>2
    <2>4. d - 1 \in Nat /\ d - 1 \notin D /\ d <= H BY <2>1, <2>2, <2>3
    <2>5. ~(r < (d - 1) * W) /\ r < d * W BY <2>2, <2>4
    <2>6. (d - 1) * W \in Nat /\ d * W = (d - 1) * W + W /\ r \in Nat BY <1>3, <2>4
    <2>7. r - (d - 1) * W \in 0 .. W - 1 /\ r = (d - 1) * W + (r - (d - 1) * W) BY <2>5, <2>6
    <2>8. d - 1 \in 0 .. H - 1 BY <2>4
    <2> QED BY <2>7, <2>8
  <1>4. ASSUME NEW h \in 0 .. H - 1, NEW i \in 0 .. H - 1, NEW w \in 0 .. W - 1, NEW x \in 0 .. W - 1,
               h * W + w = i * W + x
        PROVE  h = i /\ w = x
    <2>1. h \in Nat /\ i \in Nat /\ h * W \in Nat /\ i * W \in Nat BY <1>4
    <2>2. ~(h < i)
      <3> SUFFICES ASSUME h < i PROVE FALSE OBVIOUS
      <3>1. h * W + W <= i * W BY <1>1, <2>1
      <3> QED BY <1>4, <2>1, <3>1
    <2>3. ~(i < h)
      <3> SUFFICES ASSUME i < h PROVE FALSE OBVIOUS
      <3>1. i * W + W <= h * W BY <1>1, <2>1
      <3> QED BY <1>4, <2>1, <3>1
    <2>4. h = i BY <2>1, <2>2, <2>3
    <2> QED BY <1>4, <2>1, <2>4
  <1> QED BY <1>2, <1>3, <1>4

\* A grid: one place for each row, no place twice, all at one time.
LEMMA GridPlacesAre ==
  ASSUME NEW first \in Nat, NEW grid \in Grids, NEW place \in Nat
  PROVE  /\ Whole(GridPlaces(first, grid, place), first, first + Area(grid))
         /\ Distinct(GridPlaces(first, grid, place))
         /\ \A p \in GridPlaces(first, grid, place) : p[2] = place
         /\ Largest(grid) \in Nat
  <1>1. PICK H \in Nat \ {0}, W \in Nat \ {0} : grid[1] = H /\ grid[2] = W BY DEF Grids
  <1> DEFINE T == GridPlaces(first, grid, place)
             e(h, w) == <<first + h * W + w, place, place + h, place + w>>
             A == H * W
  <1>2. \A p \in T : \E h \in 0 .. H - 1, w \in 0 .. W - 1 : p = e(h, w) BY <1>1 DEF GridPlaces
  <1>3. \A h \in 0 .. H - 1, w \in 0 .. W - 1 : e(h, w) \in T BY <1>1 DEF GridPlaces
  <1>4. \A h \in 0 .. H - 1, w \in 0 .. W - 1 :
          /\ h * W + w \in Nat /\ e(h, w)[1] = first + (h * W + w)
          /\ e(h, w)[2] = place /\ e(h, w)[3] = place + h /\ e(h, w)[4] = place + w
    <2> SUFFICES ASSUME NEW h \in 0 .. H - 1, NEW w \in 0 .. W - 1
                 PROVE  /\ h * W + w \in Nat /\ e(h, w)[1] = first + (h * W + w)
                        /\ e(h, w)[2] = place /\ e(h, w)[3] = place + h /\ e(h, w)[4] = place + w
      OBVIOUS
    <2>1. h * W \in Nat /\ w \in Nat OBVIOUS
    <2> QED BY <2>1
  <1>5. Area(grid) = A /\ A \in Nat BY <1>1 DEF Area
  <1>6. /\ \A h \in 0 .. H - 1, w \in 0 .. W - 1 : h * W + w \in 0 .. A - 1
        /\ \A r \in 0 .. A - 1 : \E h \in 0 .. H - 1, w \in 0 .. W - 1 : r = h * W + w
        /\ \A h, i \in 0 .. H - 1, w, x \in 0 .. W - 1 : h * W + w = i * W + x => h = i /\ w = x
    BY Division
  <1>7. \A h \in 0 .. H - 1, w \in 0 .. W - 1 : e(h, w) \in Nat \X Nat \X Nat \X Nat
    <2> SUFFICES ASSUME NEW h \in 0 .. H - 1, NEW w \in 0 .. W - 1
                 PROVE  e(h, w) \in Nat \X Nat \X Nat \X Nat
      OBVIOUS
    <2>1. h * W \in Nat /\ w \in Nat /\ h \in Nat OBVIOUS
    <2> QED BY <2>1
  <1> HIDE DEF T, e, A
  <1>8. T \subseteq Nat \X Nat \X Nat \X Nat BY <1>2, <1>7
  <1>9. ASSUME NEW p \in T PROVE p[1] \in first .. (first + A) - 1 /\ p[2] = place
    <2>1. PICK h \in 0 .. H - 1, w \in 0 .. W - 1 : p = e(h, w) BY <1>2
    <2>2. p[1] = first + (h * W + w) /\ h * W + w \in 0 .. A - 1 /\ p[2] = place BY <1>4, <1>6, <2>1
    <2> QED BY <1>5, <2>2
  <1>10. ASSUME NEW r \in first .. (first + A) - 1 PROVE \E p \in T : p[1] = r
    <2>1. r - first \in 0 .. A - 1 /\ first + (r - first) = r BY <1>5
    <2>2. PICK h \in 0 .. H - 1, w \in 0 .. W - 1 : r - first = h * W + w BY <1>6, <2>1
    <2>3. e(h, w) \in T /\ e(h, w)[1] = r BY <1>3, <1>4, <2>1, <2>2
    <2> QED BY <2>3
  <1>11. ASSUME NEW p \in T, NEW q \in T,
                p[1] = q[1] \/ (p[3] = q[3] /\ p[4] = q[4])
         PROVE  p = q
    <2>1. PICK h \in 0 .. H - 1, w \in 0 .. W - 1 : p = e(h, w) BY <1>2
    <2>2. PICK i \in 0 .. H - 1, x \in 0 .. W - 1 : q = e(i, x) BY <1>2
    <2>3. CASE p[1] = q[1]
      <3>1. first + (h * W + w) = first + (i * W + x) BY <1>4, <2>1, <2>2, <2>3
      <3>2. h * W + w \in Nat /\ i * W + x \in Nat BY <1>4
      <3>3. h * W + w = i * W + x
        <4> DEFINE u == h * W + w
                   v == i * W + x
        <4>1. u \in Nat /\ v \in Nat /\ first + u = first + v BY <3>1, <3>2
        <4> HIDE DEF u, v
        <4>2. u = v BY <4>1
        <4> QED BY <4>2 DEF u, v
      <3>4. h = i /\ w = x BY <1>6, <3>3
      <3> QED BY <2>1, <2>2, <3>4
    <2>4. CASE p[3] = q[3] /\ p[4] = q[4]
      <3>1. place + h = place + i /\ place + w = place + x BY <1>4, <2>1, <2>2, <2>4
      <3>2. h = i /\ w = x BY <3>1
      <3> QED BY <2>1, <2>2, <3>2
    <2> QED BY <1>11, <2>3, <2>4
  <1>12. Whole(T, first, first + A) BY <1>8, <1>9, <1>10, <1>11 DEF Whole
  <1>13. Distinct(T) BY <1>11 DEF Distinct
  <1>14. Largest(grid) \in Nat BY <1>1 DEF Largest
  <1> QED BY <1>5, <1>9, <1>12, <1>13, <1>14 DEF T

-----------------------------------------------------------------------------
(* The blocks of the layout. *)

\* Where the marker of block v is, counted from one.
MarkerAt(v) ==
  IF v < K THEN Behind(v) + 1
  ELSE IF v = K THEN TemplateRows + 1
  ELSE TemplateRows + Area(Target) + Total(GridAreas, v - K - 1) + 1

\* How many rows come before the text of block v.
Reached(v) ==
  IF v = 0 THEN 0 ELSE IF v <= K THEN Behind(v) - 1
  ELSE TemplateRows + Area(Target) + Total(GridAreas, v - K - 1)

Skip(v) == IF v >= K THEN 1 ELSE 0

\* The template ends where the image and the references begin.
LEMMA TemplateRowsIs ==
  ASSUME TypeOK, Rear
  PROVE  /\ K \in Nat /\ Len(row) \in Nat /\ Area(Target) \in Nat /\ Area(Target) >= 1
         /\ TemplateRows \in Nat /\ Behind(K) \in Nat /\ TemplateRows >= Behind(K) + 2 /\ TemplateRows >= 5
         /\ Total(GridAreas, K) \in Nat
         /\ Len(row) = TemplateRows + Area(Target) + Total(GridAreas, K)
  <1>1. refs \in Seq(Geometries) /\ Len(row) \in Nat /\ K \in Nat BY AreasAre DEF TypeOK
  <1>2. Area(Target) \in Nat /\ Area(Target) >= 1 BY <1>1, AreasAre
  <1>3. K \in 0 .. K BY <1>1
  <1>4. Total(GridAreas, K) \in Nat BY <1>1, <1>3, GridTotals
  <1>5. Behind(K) \in Nat /\ Behind(K) >= 3 BY <1>1, <1>3, BehindIs
  <1>6. TemplateRows = Len(row) - Area(Target) - Total(GridAreas, K) BY DEF TemplateRows
  <1>7. Behind(K) + 2 <= TemplateRows BY DEF Rear
  <1> QED BY <1>1, <1>2, <1>4, <1>5, <1>6, <1>7

\* The markers come one after the other.
LEMMA MarkersAscend ==
  ASSUME TypeOK, Rear, NEW u \in 0 .. 2 * K, NEW v \in 0 .. 2 * K, u < v
  PROVE  MarkerAt(u) < MarkerAt(v)
  <1> DEFINE A == Area(Target)
             R == TemplateRows
             B == Behind(K)
  <1>1. refs \in Seq(Geometries) BY DEF TypeOK
  <1>2. K \in Nat /\ A \in Nat /\ A >= 1 /\ R \in Nat /\ B \in Nat /\ R >= B + 2
    BY TemplateRowsIs
  <1> HIDE DEF A, R, B
  <1>3. ASSUME NEW i \in 0 .. K, NEW j \in 0 .. K, i < j PROVE Behind(i) < Behind(j) /\ Behind(i) \in Nat
    <2>1. Total(CondAreas, i) \in Nat /\ Total(CondAreas, j) \in Nat
          /\ Total(CondAreas, i) + (j - i) <= Total(CondAreas, j)
      BY <1>1, <1>3, CondTotals
    <2> QED BY <1>2, <1>3, <2>1 DEF Behind
  <1>4. ASSUME NEW i \in 0 .. K, NEW j \in 0 .. K, i < j
        PROVE  Total(GridAreas, i) < Total(GridAreas, j) /\ Total(GridAreas, i) \in Nat
               /\ Total(GridAreas, j) \in Nat
    <2>1. Total(GridAreas, i) \in Nat /\ Total(GridAreas, j) \in Nat
          /\ Total(GridAreas, i) + (j - i) <= Total(GridAreas, j)
      BY <1>1, <1>4, GridTotals
    <2> QED BY <1>2, <1>4, <2>1
  <1>5. CASE v < K
    <2>1. u \in 0 .. K /\ v \in 0 .. K BY <1>2, <1>5
    <2>2. Behind(u) < Behind(v) /\ Behind(u) \in Nat /\ Behind(v) \in Nat
      BY <1>1, <1>3, <2>1, BehindIs
    <2> QED BY <1>2, <1>5, <2>2 DEF MarkerAt
  <1>6. CASE u < K /\ v >= K
    <2>1. u \in 0 .. K /\ K \in 0 .. K BY <1>2, <1>6
    <2>2. Behind(u) < B /\ Behind(u) \in Nat BY <1>3, <1>6, <2>1 DEF B
    <2>3. MarkerAt(u) = Behind(u) + 1 BY <1>6 DEF MarkerAt
    <2>4. MarkerAt(v) > R
      <3>1. CASE v = K
        <4>1. MarkerAt(v) = R + 1 BY <1>2, <3>1 DEF MarkerAt, R
        <4> QED BY <1>2, <4>1
      <3>2. CASE v > K
        <4>1. v - K - 1 \in 0 .. K BY <1>2, <3>2
        <4>2. Total(GridAreas, v - K - 1) \in Nat BY <1>1, <4>1, GridTotals
        <4>3. MarkerAt(v) = R + A + Total(GridAreas, v - K - 1) + 1
          BY <1>2, <3>2 DEF MarkerAt, R, A
        <4> QED BY <1>2, <4>2, <4>3
      <3> QED BY <1>2, <1>6, <3>1, <3>2
    <2>5. Behind(u) + 1 < R BY <1>2, <2>2
    <2>6. MarkerAt(v) \in Int
      <3>1. CASE v = K
        <4>1. MarkerAt(v) = R + 1 BY <1>2, <3>1 DEF MarkerAt, R
        <4> QED BY <1>2, <4>1
      <3>2. CASE v > K
        <4>1. v - K - 1 \in 0 .. K BY <1>2, <3>2
        <4>2. Total(GridAreas, v - K - 1) \in Nat BY <1>1, <4>1, GridTotals
        <4>3. MarkerAt(v) = R + A + Total(GridAreas, v - K - 1) + 1
          BY <1>2, <3>2 DEF MarkerAt, R, A
        <4> QED BY <1>2, <4>2, <4>3
      <3> QED BY <1>2, <1>6, <3>1, <3>2
    <2> QED BY <1>2, <2>2, <2>3, <2>4, <2>5, <2>6
  <1>7. CASE u = K
    <2>1. v - K - 1 \in 0 .. K BY <1>2, <1>7
    <2>2. Total(GridAreas, v - K - 1) \in Nat BY <1>1, <2>1, GridTotals
    <2>3. MarkerAt(v) = R + A + Total(GridAreas, v - K - 1) + 1 /\ MarkerAt(u) = R + 1
      BY <1>2, <1>7 DEF MarkerAt, R, A
    <2> QED BY <1>2, <2>2, <2>3
  <1>8. CASE u > K
    <2>1. u - K - 1 \in 0 .. K /\ v - K - 1 \in 0 .. K /\ u - K - 1 < v - K - 1 BY <1>2, <1>8
    <2>2. Total(GridAreas, u - K - 1) < Total(GridAreas, v - K - 1)
          /\ Total(GridAreas, u - K - 1) \in Nat /\ Total(GridAreas, v - K - 1) \in Nat
      BY <1>4, <2>1
    <2>3. MarkerAt(v) = R + A + Total(GridAreas, v - K - 1) + 1
          /\ MarkerAt(u) = R + A + Total(GridAreas, u - K - 1) + 1
      BY <1>2, <1>8 DEF MarkerAt, R, A
    <2> QED BY <1>2, <2>2, <2>3
  <1> QED BY <1>2, <1>5, <1>6, <1>7, <1>8

\* There is one of them at each of these places.
LEMMA MarkersStand ==
  ASSUME TypeOK, Rear, \A k \in 1 .. K : Stretch(k), NEW v \in 0 .. 2 * K
  PROVE  MarkerAt(v) \in Starts(row)
  <1> DEFINE A == Area(Target)
             R == TemplateRows
             G == Total(GridAreas, K)
             l == Len(row)
  <1>1. refs \in Seq(Geometries) /\ row \in Seq(Tokens) BY DEF TypeOK
  <1>2. /\ K \in Nat /\ l \in Nat /\ A \in Nat /\ A >= 1 /\ R \in Nat /\ G \in Nat /\ l = R + A + G
    BY TemplateRowsIs
  <1>3. DOMAIN row = 1 .. l BY <1>1
  <1> HIDE DEF A, R, G, l
  <1>4. SUFFICES MarkerAt(v) \in 1 .. l /\ row[MarkerAt(v)] = VisionStart
    BY <1>3 DEF Starts
  <1>5. CASE v < K
    <2>1. v + 1 \in 1 .. K /\ (v + 1) - 1 = v BY <1>2, <1>5
    <2>2. Stretch(v + 1) BY <2>1
    <2>3. /\ Behind(v + 1) = Behind(v) + CondAreas[v + 1] + 2 /\ CondAreas[v + 1] \in Nat
          /\ CondAreas[v + 1] >= 1
      BY <1>1, <2>1, BehindIs
    <2>4. Behind(v) \in Nat
      <3>1. v \in 0 .. K BY <1>2, <1>5
      <3> QED BY <1>1, <3>1, BehindIs
    <2>5. l >= Behind(v + 1) - 1 /\ row[Behind(v) + 1] = VisionStart BY <2>1, <2>2 DEF Stretch, l
    <2>6. MarkerAt(v) = Behind(v) + 1 BY <1>5 DEF MarkerAt
    <2> QED BY <1>2, <2>3, <2>4, <2>5, <2>6
  <1>6. CASE v = K
    <2>1. MarkerAt(v) = R + 1 BY <1>2, <1>6 DEF MarkerAt, R
    <2>2. row[R + 1] = VisionStart BY DEF Rear, R
    <2> QED BY <1>2, <2>1, <2>2
  <1>7. CASE v > K
    <2> DEFINE k == v - K
               t == Total(GridAreas, k - 1)
    <2>1. k \in 1 .. K /\ k - 1 \in 0 .. K /\ k - 1 <= K /\ K - (k - 1) >= 1 /\ K \in 0 .. K
          /\ K - (k - 1) \in Nat
      BY <1>2, <1>7
    <2>2. t \in Nat /\ t + (K - (k - 1)) <= G BY <1>1, <2>1, GridTotals DEF G
    <2>3. row[R + A + t + 1] = VisionStart BY <2>1 DEF Rear, R, A
    <2>4. MarkerAt(v) = R + A + t + 1 BY <1>2, <1>7 DEF MarkerAt, R, A
    <2> HIDE DEF t, k
    <2> QED BY <1>2, <2>1, <2>2, <2>3, <2>4
  <1> QED BY <1>2, <1>5, <1>6, <1>7

\* Block v begins at the marker with v markers before it.
LEMMA StartOfIs ==
  ASSUME TypeOK, Rear, \A k \in 1 .. K : Stretch(k)
  PROVE  \A v \in 0 .. 2 * K : StartOf(v) = MarkerAt(v) /\ MarkerAt(v) \in Nat
  <1> DEFINE n == 2 * K
             S == Starts(row)
             M == {MarkerAt(v) : v \in 0 .. n}
  <1>1. K \in Nat /\ n \in Nat /\ row \in Seq(Tokens) /\ Len(row) \in Nat
    BY TemplateRowsIs DEF TypeOK
  <1>2. S \subseteq 1 .. Len(row) BY <1>1 DEF Starts
  <1>3. IsFiniteSet(S)
    <2>1. IsFiniteSet(1 .. Len(row)) BY <1>1, FS_Interval
    <2> QED BY <1>2, <2>1, FS_Subset
  <1>4. Cardinality(S) = n + 1 BY DEF Rear
  <1>5. M \subseteq S BY MarkersStand
  <1> HIDE DEF S
  <1>6. \A v \in 0 .. n : MarkerAt(v) \in S /\ MarkerAt(v) \in Nat
    <2>1. \A v \in 0 .. n : MarkerAt(v) \in S BY <1>5
    <2>2. \A i \in 1 .. Len(row) : i \in Nat BY <1>1
    <2>3. \A i \in S : i \in Nat BY <1>2, <2>2
    <2> HIDE DEF n
    <2> QED BY <2>1, <2>3
  <1> HIDE DEF n
  <1>7. \A u \in 0 .. n, v \in 0 .. n : u < v => MarkerAt(u) < MarkerAt(v) BY MarkersAscend DEF n
  <1>8. \A u \in 0 .. n, v \in 0 .. n :
          /\ MarkerAt(u) = MarkerAt(v) => u = v
          /\ MarkerAt(u) < MarkerAt(v) => u < v
    <2> SUFFICES ASSUME NEW u \in 0 .. n, NEW v \in 0 .. n
                 PROVE  /\ MarkerAt(u) = MarkerAt(v) => u = v
                        /\ MarkerAt(u) < MarkerAt(v) => u < v
      OBVIOUS
    <2>1. u < v \/ u = v \/ v < u BY <1>1
    <2>2. MarkerAt(u) \in Nat /\ MarkerAt(v) \in Nat BY <1>6
    <2>3. u < v => MarkerAt(u) < MarkerAt(v) BY <1>7
    <2>4. v < u => MarkerAt(v) < MarkerAt(u) BY <1>7
    <2> QED BY <2>1, <2>2, <2>3, <2>4
  <1>9. S = M
    <2> DEFINE f == [v \in 0 .. n |-> MarkerAt(v)]
    <2>1. f \in [0 .. n -> M] OBVIOUS
    <2>2. \A x \in 0 .. n, y \in 0 .. n : f[x] = f[y] => x = y BY <1>8
    <2>3. \A y \in M : \E x \in 0 .. n : f[x] = y OBVIOUS
    <2>4. IsFiniteSet(0 .. n) /\ Cardinality(0 .. n) = n + 1 BY <1>1, FS_Interval
    <2> HIDE DEF f, M
    <2>5. Cardinality(M) = n + 1 BY <2>1, <2>2, <2>3, <2>4, SameSize
    <2> QED BY <1>3, <1>4, <1>5, <2>5, FS_Subset
  <1>10. ASSUME NEW v \in 0 .. n PROVE Cardinality({j \in S : j < MarkerAt(v)}) = v
    <2> DEFINE B == {j \in S : j < MarkerAt(v)}
               I == 0 .. v - 1
               f == [u \in I |-> MarkerAt(u)]
    <2>1. v \in Nat /\ v - 1 \in Int /\ \A u \in 0 .. v - 1 : u \in 0 .. n /\ u < v BY <1>1
    <2>2. f \in [I -> B]
      <3>1. \A u \in 0 .. v - 1 : MarkerAt(u) \in S /\ MarkerAt(u) < MarkerAt(v)
        BY <1>6, <1>7, <2>1
      <3> QED BY <3>1
    <2>3. \A x \in I, y \in I : f[x] = f[y] => x = y BY <1>8, <2>1
    <2>4. \A y \in B : \E x \in I : f[x] = y
      <3> SUFFICES ASSUME NEW y \in B PROVE \E x \in I : f[x] = y OBVIOUS
      <3>1. PICK u \in 0 .. n : y = MarkerAt(u) BY <1>9
      <3>2. u < v BY <1>8, <3>1
      <3>3. u \in 0 .. v - 1 BY <1>1, <2>1, <3>2
      <3> QED BY <3>1, <3>3
    <2>5. IsFiniteSet(I) /\ Cardinality(I) = v
      <3>1. IsFiniteSet(0 .. v - 1)
            /\ Cardinality(0 .. v - 1) = IF 0 > v - 1 THEN 0 ELSE (v - 1) - 0 + 1
        BY <2>1, FS_Interval
      <3> QED BY <2>1, <3>1
    <2> HIDE DEF f, B, I
    <2>6. Cardinality(B) = v BY <2>2, <2>3, <2>4, <2>5, SameSize
    <2> QED BY <2>6 DEF B
  <1>11. ASSUME NEW v \in 0 .. n PROVE StartOf(v) = MarkerAt(v)
    <2> DEFINE c(i) == Cardinality({j \in S : j < i})
    <2>1. c(MarkerAt(v)) = v /\ MarkerAt(v) \in S BY <1>6, <1>10
    <2>2. \A u \in 0 .. n : c(MarkerAt(u)) = u BY <1>10
    <2> HIDE DEF c
    <2>3. \A i \in S : c(i) = v => i = MarkerAt(v) BY <1>9, <2>2
    <2>4. StartOf(v) = CHOOSE i \in S : c(i) = v BY DEF StartOf, S, c
    <2> QED BY <2>1, <2>3, <2>4
  <1> QED BY <1>6, <1>11 DEF n

\* The text of a block ends at its marker, which the image and the references
\* behind it take in; the rows of the block follow.
LEMMA ReachedIs ==
  ASSUME TypeOK, Rear, K > 0, NEW v \in 0 .. 2 * K
  PROVE  /\ GridOf(v) \in Grids /\ Reached(v) \in Nat
         /\ MarkerAt(v) - Reached(v) - Skip(v) \in Nat
         /\ Reached(v + 1) = MarkerAt(v) - Skip(v) + Area(GridOf(v))
         /\ v > K => MarkerAt(v) - Reached(v) - Skip(v) = 0
         /\ v <= K => MarkerAt(v) - Skip(v) <= TemplateRows
         /\ v >= K => Reached(v) > 0
  <1> DEFINE A == Area(Target)
             R == TemplateRows
  <1>1. refs \in Seq(Geometries) BY DEF TypeOK
  <1>2. /\ K \in Nat /\ A \in Nat /\ A >= 1 /\ R \in Nat /\ Behind(K) \in Nat
        /\ R >= Behind(K) + 2
    BY TemplateRowsIs
  <1> HIDE DEF A, R
  <1>3. CASE v < K
    <2> DEFINE c == CondAreas[v + 1]
               b == Behind(v)
    <2>1. v + 1 \in 1 .. K /\ (v + 1) - 1 = v /\ v \in 0 .. K /\ v + 1 \in 0 .. K BY <1>2, <1>3
    <2>2. b \in Nat /\ b >= 3 /\ c \in Nat /\ Behind(v + 1) = b + c + 2 BY <1>1, <2>1, BehindIs
    <2>3. GridOf(v) = refs[v + 1].cond BY <1>3 DEF GridOf
    <2>4. GridOf(v) \in Grids /\ Area(GridOf(v)) = c BY <1>1, <2>1, <2>3, AreasAre
    <2>5. MarkerAt(v) = b + 1 /\ Skip(v) = 0 BY <1>2, <1>3 DEF MarkerAt, Skip
    <2>6. Reached(v + 1) = b + c + 1
      <3>1. Reached(v + 1) = Behind(v + 1) - 1 BY <1>2, <1>3 DEF Reached
      <3> HIDE DEF b, c
      <3> QED BY <2>2, <3>1
    <2>7. Reached(v) = (IF v = 0 THEN 0 ELSE b - 1) BY <1>2, <1>3 DEF Reached
    <2>8. v = 0 => b = 3 BY <1>1, BehindIs
    <2>9. b <= Behind(K)
      <3>1. K \in 0 .. K /\ v <= K /\ K - v \in Nat BY <1>2, <1>3
      <3>2. Total(CondAreas, v) + (K - v) <= Total(CondAreas, K) /\ Total(CondAreas, v) \in Nat
            /\ Total(CondAreas, K) \in Nat
        BY <1>1, <1>2, <2>1, <3>1, CondTotals
      <3> QED BY <1>2, <1>3, <3>1, <3>2 DEF Behind
    <2> HIDE DEF b, c
    <2>10. MarkerAt(v) <= R BY <1>2, <2>2, <2>5, <2>9
    <2> QED BY <1>2, <1>3, <2>2, <2>4, <2>5, <2>6, <2>7, <2>8, <2>10 DEF R
  <1>4. CASE v = K
    <2>1. GridOf(v) = Target BY <1>2, <1>4 DEF GridOf
    <2>2. GridOf(v) \in Grids /\ Area(GridOf(v)) = A BY <2>1, GridsAssumption DEF A
    <2>3. MarkerAt(v) = R + 1 /\ Skip(v) = 1 BY <1>2, <1>4 DEF MarkerAt, Skip, R
    <2>4. Reached(v) = Behind(K) - 1 BY <1>2, <1>4 DEF Reached
    <2>5. Behind(K) >= 3
      <3>1. K \in 0 .. K BY <1>2
      <3> QED BY <1>1, <3>1, BehindIs
    <2>6. Reached(v + 1) = R + A
      <3>1. (v + 1) - K - 1 = 0 /\ ~(v + 1 = 0) /\ ~(v + 1 <= K) BY <1>2, <1>4
      <3>2. Reached(v + 1) = R + A + Total(GridAreas, (v + 1) - K - 1)
        BY <3>1 DEF Reached, R, A
      <3>3. Total(GridAreas, 0) = 0 BY <1>1, GridTotals
      <3> QED BY <1>2, <3>1, <3>2, <3>3
    <2> QED BY <1>2, <1>4, <2>2, <2>3, <2>4, <2>5, <2>6 DEF R
  <1>5. CASE v > K
    <2> DEFINE k == v - K
               t == Total(GridAreas, k - 1)
               c == GridAreas[k]
    <2>1. k \in 1 .. K /\ k - 1 \in 0 .. K /\ k - 1 = v - K - 1 /\ (v + 1) - K - 1 = k BY <1>2, <1>5
    <2>2. GridOf(v) = refs[k].grid BY <1>2, <1>5 DEF GridOf
    <2>3. GridOf(v) \in Grids /\ Area(GridOf(v)) = c /\ c \in Nat BY <1>1, <2>1, <2>2, AreasAre
    <2>4. t \in Nat /\ Total(GridAreas, k) = t + c BY <1>1, <2>1, GridTotals
    <2>5. MarkerAt(v) = R + A + t + 1 /\ Skip(v) = 1
      <3>1. ~(v < K) /\ v # K /\ v >= K BY <1>2, <1>5
      <3> QED BY <2>1, <3>1 DEF MarkerAt, Skip, R, A
    <2>6. Reached(v) = R + A + t
      <3>1. v # 0 /\ ~(v <= K) BY <1>2, <1>5
      <3> QED BY <2>1, <3>1 DEF Reached, R, A
    <2>7. Reached(v + 1) = R + A + (t + c)
      <3>1. v + 1 # 0 /\ ~(v + 1 <= K) BY <1>2, <1>5
      <3> QED BY <2>1, <2>4, <3>1 DEF Reached, R, A
    <2> HIDE DEF k, t, c
    <2> QED BY <1>2, <1>5, <2>3, <2>4, <2>5, <2>6, <2>7
  <1> QED BY <1>2, <1>3, <1>4, <1>5

\* Behind the last block no row is left.
LEMMA ReachedLast ==
  ASSUME TypeOK, Rear, K > 0
  PROVE  Reached(2 * K + 1) = Len(row)
  <1>1. K \in Nat /\ Len(row) = TemplateRows + Area(Target) + Total(GridAreas, K) BY TemplateRowsIs
  <1>2. 2 * K + 1 # 0 /\ ~(2 * K + 1 <= K) /\ (2 * K + 1) - K - 1 = K BY <1>1
  <1> QED BY <1>1, <1>2 DEF Reached

\* The rows of a reference are those of its block in the template.
LEMMA ReferenceRowsAre ==
  ASSUME refs \in Seq(Geometries), NEW k \in 1 .. K
  PROVE  /\ ReferenceRows(k) = Behind(k - 1) + 1 .. Behind(k) - 2
         /\ Behind(k) = Behind(k - 1) + CondAreas[k] + 2
         /\ Behind(k - 1) \in Nat /\ Behind(k) \in Nat /\ CondAreas[k] \in Nat /\ CondAreas[k] >= 1
         /\ Reached(k) = Behind(k) - 1
  <1>1. K \in Nat /\ k - 1 \in 0 .. K /\ k \in 0 .. K BY AreasAre
  <1>2. /\ Behind(k) = Behind(k - 1) + CondAreas[k] + 2 /\ Behind(k - 1) \in Nat
        /\ Behind(k) \in Nat /\ CondAreas[k] \in Nat /\ CondAreas[k] >= 1
    BY <1>1, BehindIs
  <1>3. Area(refs[k].cond) = CondAreas[k] BY AreasAre
  <1>4. Total(CondAreas, k - 1) \in Nat BY <1>1, CondTotals
  <1>5. Behind(k - 1) + 1 = 4 + Total(CondAreas, k - 1) + 2 * (k - 1) BY <1>1, <1>4 DEF Behind
  <1>6. ReferenceRows(k) = Behind(k - 1) + 1 .. (Behind(k - 1) + 1) + CondAreas[k] - 1
    BY <1>3, <1>5 DEF ReferenceRows
  <1>7. (Behind(k - 1) + 1) + CondAreas[k] - 1 = Behind(k) - 2 BY <1>2
  <1>8. Reached(k) = Behind(k) - 1 BY <1>1 DEF Reached
  <1> QED BY <1>2, <1>6, <1>7, <1>8

\* The larger of two.
LEMMA MaxIs ==
  ASSUME NEW a \in Int, NEW b \in Int
  PROVE  Max({a, b}) \in Int /\ Max({a, b}) >= a /\ Max({a, b}) >= b
  <1>1. \E x \in {a, b} : \A y \in {a, b} : x >= y
    <2>1. CASE a >= b BY <2>1
    <2>2. CASE ~(a >= b) BY <2>2
    <2> QED BY <2>1, <2>2
  <1>2. Max({a, b}) \in {a, b} /\ \A y \in {a, b} : Max({a, b}) >= y BY <1>1 DEF Max
  <1> QED BY <1>2

-----------------------------------------------------------------------------
(* Every row gets its place. *)

\* The text stays below the places of the image, as far as it was placed.
Near == \A p \in placed : p[1] < TemplateRows => p[2] < FixPoint

OneTime(S, rows) == \E t \in Nat : \A p \in S : p[1] \in rows => p[2] = t

\* The blocks are placed one behind the other, each behind all times before it;
\* only the image begins at a time of its own.
Placing ==
  /\ pc \in {"names", "encode", "merge", "expand", "text_only"} =>
       block = 0 /\ start = 0 /\ top = -1 /\ fp = FixPoint /\ placed = {}
  /\ pc \in {"layout", "mask", "done"} /\ K > 0 =>
       /\ block \in 0 .. 2 * K + 1 /\ (pc = "layout" <=> block <= 2 * K)
       /\ start = Reached(block)
       /\ Whole(placed, 0, start)
       /\ \A k \in 1 .. K : k <= block => Behind(k) <= start + 1 /\ OneTime(placed, ReferenceRows(k))
       /\ fp = IF block <= K THEN FixPoint ELSE 0
       /\ top \in Int /\ top >= -1 /\ \A p \in placed : p[2] <= top
       /\ Near => Distinct(placed)
  /\ pc = "done" /\ K = 0 => Whole(placed, 0, Len(row)) /\ (Near => Distinct(placed))

\* The step that places a block: n rows of text at time first, its grid at time base.
Placed(n, first, base) ==
  /\ n = MarkerAt(block) - Reached(block) - Skip(block)
  /\ placed' = placed \cup TextPlaces(start, n, first)
                      \cup GridPlaces(start + n, GridOf(block), base)
  /\ start' = start + n + Area(GridOf(block))
  /\ top' \in Int /\ top' >= top /\ top' >= first + n - 1 /\ top' >= base
  /\ first > top
  /\ block < K => base = first + n
  /\ block = K => base = IF FixPoint > 0 THEN FixPoint ELSE first
  /\ block > K => base = first
  /\ fp' = IF block >= K THEN 0 ELSE FixPoint

\* PlaceBlock is such a step.
LEMMA BlockPlaced ==
  ASSUME TypeOK, Sizes, RowsAre, Placing, PlaceBlock
  PROVE  \E n \in Nat, first \in Nat, base \in Nat : Placed(n, first, base)
  <1>1. /\ pc = "layout" /\ K > 0 /\ K \in Nat /\ block \in 0 .. 2 * K /\ block \in Nat
        /\ refs \in Seq(Geometries) /\ Rear /\ \A k \in 1 .. K : Stretch(k)
    BY AreasAre DEF PlaceBlock, Sizes, RowsAre, TypeOK, Placing
  <1>2. /\ start = Reached(block) /\ top \in Int /\ top >= -1
        /\ fp = IF block <= K THEN FixPoint ELSE 0
    BY <1>1 DEF Placing
  <1>3. StartOf(block) = MarkerAt(block) /\ MarkerAt(block) \in Nat BY <1>1, StartOfIs
  <1> DEFINE v == block
             n == MarkerAt(v) - Reached(v) - Skip(v)
             first == IF top >= 0 THEN top + 1 ELSE 0
             base == IF ~(v >= K) THEN first + n ELSE IF fp > 0 THEN fp ELSE first
             L == Largest(GridOf(v))
  <1>4. n \in Nat /\ GridOf(v) \in Grids /\ Reached(v) \in Nat BY <1>1, ReachedIs
  <1>5. n = StartOf(block) - start - (IF block >= K THEN 1 ELSE 0) BY <1>2, <1>3 DEF Skip
  <1>6. /\ placed' = placed \cup TextPlaces(start, n, first)
                        \cup GridPlaces(start + n, GridOf(block), base)
        /\ top' = Max({first + n - 1, base + L})
        /\ start' = start + n + Area(GridOf(block))
        /\ fp' = IF block >= K THEN 0 ELSE fp
    BY <1>5 DEF PlaceBlock
  <1> HIDE DEF n
  <1>7. first \in Nat /\ first > top BY <1>2
  <1> HIDE DEF first
  <1>8. base \in Nat
    <2>1. fp \in Nat BY <1>2, GridsAssumption
    <2> QED BY <1>4, <1>7, <2>1
  <1>9. L \in Nat
    <2>1. start \in Nat BY <1>2, <1>4
    <2> QED BY <1>4, <2>1, GridPlacesAre
  <1>10. /\ block < K => base = first + n
         /\ block = K => base = IF FixPoint > 0 THEN FixPoint ELSE first
         /\ block > K => base = first
    BY <1>1, <1>2
  <1> HIDE DEF base, L
  <1>11. top' \in Int /\ top' >= first + n - 1 /\ top' >= base + L
    <2>1. first + n - 1 \in Int /\ base + L \in Int BY <1>4, <1>7, <1>8, <1>9
    <2> QED BY <1>6, <2>1, MaxIs
  <1>12. top' >= base BY <1>8, <1>9, <1>11
  <1>13. top' >= top BY <1>2, <1>4, <1>7, <1>11
  <1>14. fp' = IF block >= K THEN 0 ELSE FixPoint BY <1>1, <1>2, <1>6
  <1>15. n = MarkerAt(block) - Reached(block) - Skip(block) BY DEF n
  <1>16. Placed(n, first, base)
    BY <1>6, <1>7, <1>10, <1>11, <1>12, <1>13, <1>14, <1>15 DEF Placed
  <1> QED BY <1>4, <1>7, <1>8, <1>16

\* Nothing else of the layout changes with a block.
LEMMA SameLayout ==
  ASSUME TypeOK, refs' = refs, row' = row
  PROVE  /\ K' = K /\ TemplateRows' = TemplateRows /\ Len(row)' = Len(row)
         /\ \A i : /\ Behind(i)' = Behind(i) /\ ReferenceRows(i)' = ReferenceRows(i)
                   /\ Reached(i)' = Reached(i)
  BY DEF K, TemplateRows, Behind, ReferenceRows, Reached, CondAreas, GridAreas

\* Such a step keeps what was placed and places what is next.
LEMMA PlacingBlock ==
  ASSUME TypeOK, Sizes, RowsAre, Placing, PlaceBlock
  PROVE  Placing'
  <1>1. /\ pc = "layout" /\ K > 0 /\ K \in Nat /\ block \in 0 .. 2 * K /\ block \in Nat
        /\ refs \in Seq(Geometries) /\ Rear /\ refs' = refs /\ row' = row /\ block' = block + 1
        /\ pc' = (IF block' > 2 * K THEN "mask" ELSE pc)
    BY AreasAre DEF PlaceBlock, Sizes, RowsAre, TypeOK, Placing
  <1>2. /\ start = Reached(block) /\ Whole(placed, 0, start)
        /\ \A k \in 1 .. K : k <= block => Behind(k) <= start + 1 /\ OneTime(placed, ReferenceRows(k))
        /\ top \in Int /\ top >= -1 /\ \A p \in placed : p[2] <= top
        /\ Near => Distinct(placed)
    BY <1>1 DEF Placing
  <1>3. PICK n \in Nat, first \in Nat, base \in Nat : Placed(n, first, base) BY BlockPlaced
  <1> DEFINE g == GridOf(block)
             A == Area(g)
             T == TextPlaces(start, n, first)
             G == GridPlaces(start + n, g, base)
             mid == start + n
             end == mid + A
  <1>4. /\ g \in Grids /\ start \in Nat /\ A \in Nat /\ A >= 1 /\ mid \in Nat /\ end \in Nat
        /\ start <= mid /\ mid <= end
    <2>1. g \in Grids /\ start \in Nat BY <1>1, <1>2, ReachedIs
    <2>2. A \in Nat /\ A >= 1 BY <2>1, AreaIs
    <2> HIDE DEF g, A
    <2> QED BY <2>1, <2>2
  <1>5. /\ placed' = (placed \cup T) \cup G /\ start' = end
        /\ n = MarkerAt(block) - Reached(block) - Skip(block)
        /\ top' \in Int /\ top' >= top /\ top' >= first + n - 1 /\ top' >= base /\ first > top
        /\ block < K => base = first + n
        /\ block = K => base = IF FixPoint > 0 THEN FixPoint ELSE first
        /\ block > K => base = first
        /\ fp' = IF block >= K THEN 0 ELSE FixPoint
    BY <1>3 DEF Placed
  <1>6. /\ Whole(T, start, mid) /\ \A p \in T : p[2] = first + (p[1] - start)
    BY <1>4, TextPlacesAre
  <1>7. Whole(G, mid, end) /\ Distinct(G) /\ \A p \in G : p[2] = base BY <1>4, GridPlacesAre
  <1>8. end = Reached(block + 1)
    <2> DEFINE m == MarkerAt(block)
               r == Reached(block)
               s == Skip(block)
    <2>1. Reached(block + 1) = m - s + A BY <1>1, ReachedIs
    <2>2. m \in Nat /\ s \in Nat
      <3>1. m \in Nat BY <1>1, StartOfIs DEF RowsAre
      <3> QED BY <3>1 DEF Skip
    <2> HIDE DEF m, r, s, A
    <2>3. start = r /\ n = m - r - s BY <1>2, <1>5 DEF m, r, s
    <2>4. mid = m - s BY <1>4, <2>2, <2>3
    <2> HIDE DEF mid
    <2> QED BY <2>1, <2>4
  <1> HIDE DEF T, G, mid, end, A, g
  <1>9. Whole(placed', 0, end)
    <2>1. 0 \in Nat /\ 0 <= start BY <1>4
    <2>2. Whole(placed \cup T, 0, mid) BY <1>2, <1>4, <1>6, <2>1, WholeJoins
    <2>3. 0 <= mid BY <1>4
    <2> QED BY <1>4, <1>5, <1>7, <2>1, <2>2, <2>3, WholeJoins
  <1>10. ASSUME NEW p \in T PROVE p[1] \in start .. mid - 1 /\ p[2] = first + (p[1] - start)
    BY <1>6 DEF Whole
  <1>11. ASSUME NEW p \in T PROVE p[2] \in Int /\ p[2] >= first /\ p[2] <= first + n - 1
    <2>1. p[1] \in start .. mid - 1 /\ p[2] = first + (p[1] - start) BY <1>10
    <2> QED BY <1>4, <2>1 DEF mid
  <1>12. ASSUME NEW p \in G PROVE p[1] \in mid .. end - 1 /\ p[2] = base BY <1>7 DEF Whole
  <1>13. ASSUME NEW p \in placed PROVE p[1] \in 0 .. start - 1 /\ p[2] <= top /\ p[2] \in Int
    <2>1. p \in Nat \X Nat \X Nat \X Nat BY <1>2 DEF Whole
    <2>2. p[2] \in Nat BY <2>1
    <2> QED BY <1>2, <2>2 DEF Whole
  <1>14. ASSUME NEW p \in placed' PROVE p[2] <= top'
    <2>1. CASE p \in placed BY <1>2, <1>5, <1>13, <2>1
    <2>2. CASE p \in T BY <1>5, <1>11, <2>2
    <2>3. CASE p \in G BY <1>5, <1>12, <2>3
    <2> QED BY <1>5, <2>1, <2>2, <2>3
  <1>15. ASSUME NEW k \in 1 .. K, k <= block + 1
         PROVE  Behind(k) <= end + 1 /\ OneTime(placed', ReferenceRows(k))
    <2>1. /\ ReferenceRows(k) = Behind(k - 1) + 1 .. Behind(k) - 2
          /\ Behind(k - 1) \in Nat /\ Behind(k) \in Nat /\ Reached(k) = Behind(k) - 1
      BY <1>1, ReferenceRowsAre
    <2>2. CASE k <= block
      <3>1. Behind(k) <= start + 1 /\ OneTime(placed, ReferenceRows(k)) BY <1>2, <2>2
      <3>2. PICK t \in Nat : \A p \in placed : p[1] \in ReferenceRows(k) => p[2] = t
        BY <3>1 DEF OneTime
      <3>3. ASSUME NEW p \in placed', p[1] \in ReferenceRows(k) PROVE p \in placed
        <4>1. p[1] < start
          <5>1. p[1] \in Behind(k - 1) + 1 .. Behind(k) - 2 BY <2>1, <3>3
          <5> QED BY <1>4, <2>1, <3>1, <5>1
        <4>2. p \notin T BY <1>4, <1>10, <4>1
        <4>3. p \notin G BY <1>4, <1>12, <4>1
        <4> QED BY <1>5, <3>3, <4>2, <4>3
      <3>4. \A p \in placed' : p[1] \in ReferenceRows(k) => p[2] = t BY <3>2, <3>3
      <3>5. OneTime(placed', ReferenceRows(k)) BY <3>4 DEF OneTime
      <3> QED BY <1>4, <2>1, <3>1, <3>5
    <2>3. CASE ~(k <= block)
      <3>1. k = block + 1 /\ block < K /\ k - 1 = block BY <1>1, <1>15, <2>3
      <3>2. Behind(k) = end + 1 BY <1>8, <2>1, <3>1
      <3>3. mid = Behind(k - 1) + 1
        <4>1. MarkerAt(block) = Behind(k - 1) + 1 /\ Skip(block) = 0
          BY <1>1, <3>1 DEF MarkerAt, Skip
        <4>2. n = MarkerAt(block) - Reached(block) - Skip(block) BY <1>5
        <4>3. Reached(block) = start /\ start \in Nat BY <1>2, <1>4
        <4> DEFINE b == Behind(k - 1)
        <4>4. b \in Nat /\ MarkerAt(block) = b + 1 BY <2>1, <4>1
        <4> HIDE DEF b
        <4>5. n = (b + 1) - start BY <4>1, <4>2, <4>3, <4>4
        <4>6. start + n = b + 1 BY <4>3, <4>4, <4>5
        <4> QED BY <4>6 DEF b, mid
      <3>4. ASSUME NEW p \in placed', p[1] \in ReferenceRows(k) PROVE p[2] = base
        <4>1. p[1] \in Behind(k - 1) + 1 .. Behind(k) - 2 BY <2>1, <3>4
        <4>2. p[1] >= mid /\ p[1] \in Int BY <2>1, <3>3, <4>1
        <4>3. p \notin placed
          <5> SUFFICES ASSUME p \in placed PROVE FALSE OBVIOUS
          <5>1. p[1] \in 0 .. start - 1 BY <1>13
          <5> QED BY <1>4, <4>2, <5>1
        <4>4. p \notin T
          <5> SUFFICES ASSUME p \in T PROVE FALSE OBVIOUS
          <5>1. p[1] \in start .. mid - 1 BY <1>10
          <5> QED BY <1>4, <4>2, <5>1
        <4> QED BY <1>5, <1>12, <3>4, <4>3, <4>4
      <3>5. OneTime(placed', ReferenceRows(k)) BY <3>4 DEF OneTime
      <3> QED BY <1>4, <2>1, <3>2, <3>5
    <2> QED BY <2>2, <2>3
  <1>16. ASSUME Near' PROVE Distinct(placed')
    <2>1. TemplateRows' = TemplateRows /\ TemplateRows \in Nat /\ TemplateRows >= 5
      BY <1>1, SameLayout, TemplateRowsIs
    <2>2. \A p \in placed' : p[1] < TemplateRows => p[2] < FixPoint BY <1>16, <2>1 DEF Near
    <2>3. Distinct(placed)
      <3>1. Near BY <1>5, <2>2 DEF Near
      <3> QED BY <1>2, <3>1
    <2>4. ASSUME NEW p \in placed, NEW q \in T PROVE p[2] # q[2] BY <1>2, <1>5, <1>11, <1>13
    <2>5. ASSUME NEW p \in placed \cup T, NEW q \in G PROVE p[2] # q[2]
      <3>1. q[2] = base BY <1>12
      <3>2. CASE block < K
        <4>1. p[2] \in Int /\ p[2] < base BY <1>2, <1>5, <1>11, <1>13, <3>2
        <4> QED BY <3>1, <4>1
      <3>3. CASE block = K
        <4>1. mid <= TemplateRows /\ start > 0
          <5>1. block <= K /\ block >= K BY <1>1, <3>3
          <5>2. MarkerAt(block) - Skip(block) <= TemplateRows /\ Reached(block) > 0
            BY <1>1, <5>1, ReachedIs
          <5>3. MarkerAt(block) \in Nat /\ Skip(block) \in Nat
            <6>1. MarkerAt(block) \in Nat BY <1>1, StartOfIs DEF RowsAre
            <6> QED BY <6>1 DEF Skip
          <5> QED BY <1>2, <1>4, <1>5, <5>2, <5>3 DEF mid
        <4>2. p[1] < TemplateRows
          <5>1. CASE p \in placed
            <6>1. p[1] \in 0 .. start - 1 BY <1>13, <5>1
            <6> QED BY <1>4, <2>1, <4>1, <6>1
          <5>2. CASE p \in T
            <6>1. p[1] \in start .. mid - 1 BY <1>10, <5>2
            <6> QED BY <1>4, <2>1, <4>1, <6>1
          <5> QED BY <5>1, <5>2
        <4>3. p[2] < FixPoint BY <1>5, <2>2, <4>2
        <4>4. FixPoint > 0
          <5>1. p[2] \in Nat
            <6>1. placed' \subseteq Nat \X Nat \X Nat \X Nat BY <1>9 DEF Whole
            <6>2. p \in Nat \X Nat \X Nat \X Nat BY <1>5, <6>1
            <6> QED BY <6>2
          <5> QED BY <4>3, <5>1, GridsAssumption
        <4>5. base = FixPoint BY <1>5, <3>3, <4>4
        <4> QED BY <3>1, <4>3, <4>5, <1>11, <1>13, GridsAssumption
      <3>4. CASE block > K
        <4>1. n = 0 BY <1>1, <1>5, <3>4, ReachedIs
        <4>2. T = {}
          <5> SUFFICES ASSUME NEW x \in T PROVE FALSE OBVIOUS
          <5>1. x[1] \in start .. mid - 1 BY <1>10
          <5> QED BY <1>4, <4>1, <5>1 DEF mid
        <4>3. p \in placed BY <4>2
        <4>4. base > top BY <1>5, <3>4
        <4> QED BY <1>2, <1>13, <3>1, <4>3, <4>4
      <3> QED BY <1>1, <3>2, <3>3, <3>4
    <2>6. ASSUME NEW p \in T, NEW q \in T, p[2] = q[2] PROVE p = q
      <3>1. p[1] \in start .. mid - 1 /\ p[2] = first + (p[1] - start) BY <1>10
      <3>2. q[1] \in start .. mid - 1 /\ q[2] = first + (q[1] - start) BY <1>10
      <3>3. p[1] = q[1]
        <4> DEFINE x == p[1]
                   y == q[1]
        <4>1. x \in start .. mid - 1 /\ y \in start .. mid - 1 BY <3>1, <3>2
        <4>2. p[2] = first + (x - start) /\ q[2] = first + (y - start) BY <3>1, <3>2
        <4> HIDE DEF x, y
        <4>3. first + (x - start) = first + (y - start) BY <2>6, <4>2
        <4>4. x \in Int /\ y \in Int BY <1>4, <4>1
        <4>5. x = y BY <1>4, <4>3, <4>4
        <4> QED BY <4>5 DEF x, y
      <3> QED BY <1>6, <3>3 DEF Whole
    <2>7. ASSUME NEW p \in placed', NEW q \in placed', p[2] = q[2], p[3] = q[3], p[4] = q[4]
          PROVE  p = q
      <3>1. p \in placed /\ q \in placed => p = q BY <2>3, <2>7 DEF Distinct
      <3>2. p \in G /\ q \in G => p = q BY <1>7, <2>7 DEF Distinct
      <3>3. p \in T /\ q \in T => p = q BY <2>6, <2>7
      <3>4. ~(p \in placed /\ q \in T) /\ ~(p \in T /\ q \in placed) BY <2>4, <2>7
      <3>5. ~(p \in placed \cup T /\ q \in G) /\ ~(p \in G /\ q \in placed \cup T)
        BY <2>5, <2>7
      <3> QED BY <1>5, <3>1, <3>2, <3>3, <3>4, <3>5
    <2> QED BY <2>7 DEF Distinct
  <1>17. /\ K' = K /\ \A i : /\ Behind(i)' = Behind(i) /\ ReferenceRows(i)' = ReferenceRows(i)
                             /\ Reached(i)' = Reached(i)
    BY <1>1, SameLayout
  <1>18. /\ block' \in 0 .. 2 * K' + 1
         /\ (pc' = "layout" <=> block' <= 2 * K') /\ pc' \in {"layout", "mask"}
         /\ fp' = IF block' <= K' THEN FixPoint ELSE 0
    BY <1>1, <1>5, <1>17
  <1>19. (start = Reached(block))' BY <1>1, <1>5, <1>8, <1>17 DEF Reached
  <1>20. top' \in Int /\ top' >= -1 BY <1>2, <1>5
  <1>21. \A k \in 1 .. K' : k <= block' =>
           (Behind(k) <= start + 1 /\ OneTime(placed, ReferenceRows(k)))'
    BY <1>1, <1>5, <1>15, <1>17 DEF OneTime
  <1>22. (Whole(placed, 0, start))' BY <1>5, <1>9
  <1>23. (Near => Distinct(placed))' BY <1>16
  <1> QED BY <1>14, <1>18, <1>19, <1>20, <1>21, <1>22, <1>23 DEF Placing

\* A sequence without references: the text, then the grid of the image.
LEMMA PlacingText ==
  ASSUME TypeOK, Sizes, PlaceText
  PROVE  (Whole(placed, 0, Len(row)) /\ (Near => Distinct(placed)))'
  <1> DEFINE n == Len(ids) + 2
             A == Area(Target)
             T == TextPlaces(0, n, 0)
             G == GridPlaces(n, Target, FixPoint)
             a == ids \o <<<<"boi">>, <<"tms">>>>
  <1>1. refs \in Seq(Geometries) /\ ids \in Seq(Tokens) /\ Len(ids) \in Nat /\ K = 0 /\ refs' = refs
    BY DEF TypeOK, PlaceText, Sizes
  <1>2. n \in Nat /\ A \in Nat /\ 0 <= n BY <1>1, AreasAre
  <1>3. placed' = T \cup G /\ row' = a \o Pads(A) BY DEF PlaceText
  <1>4. Len(row') = n + A
    <2>1. a \in Seq(Tokens) /\ Len(a) = n BY <1>1, RowsType
    <2>2. Pads(A) \in Seq(Tokens) /\ Len(Pads(A)) = A BY <1>2, RowsType DEF Pads
    <2> DEFINE u == row'
               b == Pads(A)
    <2>3. a \in Seq(Tokens) /\ b \in Seq(Tokens) /\ u = a \o b BY <1>3, <2>1, <2>2
    <2> HIDE DEF a, n, A, b, u
    <2>4. Len(u) = Len(a) + Len(b) BY <2>3
    <2> QED BY <2>1, <2>2, <2>4 DEF b, u
  <1>5. TemplateRows' = n
    <2>1. K' = K /\ Total(GridAreas, K)' = Total(GridAreas, K) BY <1>1 DEF K, GridAreas
    <2>2. Total(GridAreas, K) = 0 BY <1>1, GridTotals
    <2>3. TemplateRows' = Len(row') - A - 0 BY <2>1, <2>2 DEF TemplateRows
    <2> HIDE DEF A, n
    <2> QED BY <1>2, <1>4, <2>3
  <1> HIDE DEF A, a, T, G, n
  <1>6. Whole(T, 0, n) /\ \A p \in T : p[2] = p[1]
    <2>1. Whole(T, 0, 0 + n) /\ \A p \in T : p[2] = 0 + (p[1] - 0)
      <3>1. 0 \in Nat OBVIOUS
      <3> QED BY <1>2, <3>1, TextPlacesAre DEF T
    <2>2. 0 + n = n BY <1>2
    <2>3. \A p \in T : p[1] \in 0 .. n - 1 BY <2>1, <2>2 DEF Whole
    <2>4. ASSUME NEW p \in T PROVE p[2] = p[1]
      <3>1. p[1] \in 0 .. n - 1 /\ p[2] = 0 + (p[1] - 0) BY <2>1, <2>3
      <3> QED BY <1>2, <3>1
    <2> QED BY <2>1, <2>2, <2>4
  <1>7. Whole(G, n, n + A) /\ Distinct(G) /\ \A p \in G : p[2] = FixPoint
    BY <1>2, GridsAssumption, GridPlacesAre DEF G, A
  <1>8. Whole(placed', 0, Len(row'))
    <2>1. 0 \in Nat /\ n + A \in Nat /\ n <= n + A BY <1>2
    <2> QED BY <1>2, <1>3, <1>4, <1>6, <1>7, <2>1, WholeJoins
  <1>9. ASSUME Near' PROVE Distinct(placed')
    <2>1. ASSUME NEW p \in T PROVE p[2] < FixPoint
      <3>1. p[1] \in 0 .. n - 1 BY <1>6 DEF Whole
      <3>2. p[1] < n BY <1>2, <3>1
      <3>3. p \in placed' BY <1>3
      <3> QED BY <1>5, <1>9, <3>2, <3>3 DEF Near
    <2>2. ASSUME NEW p \in placed', NEW q \in placed', p[2] = q[2], p[3] = q[3], p[4] = q[4]
          PROVE  p = q
      <3>1. p \in G /\ q \in G => p = q BY <1>7, <2>2 DEF Distinct
      <3>2. p \in T /\ q \in T => p = q BY <1>6, <2>2 DEF Whole
      <3>3. \A x \in T : x[2] # FixPoint
        <4> SUFFICES ASSUME NEW x \in T PROVE x[2] # FixPoint OBVIOUS
        <4>1. x[1] \in 0 .. n - 1 /\ x[2] = x[1] BY <1>6 DEF Whole
        <4>2. x[2] \in Int /\ x[2] < FixPoint BY <1>2, <2>1, <4>1
        <4> QED BY <4>2, GridsAssumption
      <3>4. ~(p \in T /\ q \in G) /\ ~(p \in G /\ q \in T) BY <1>7, <2>2, <3>3
      <3> QED BY <1>3, <3>1, <3>2, <3>4
    <2> QED BY <2>2 DEF Distinct
  <1> QED BY <1>8, <1>9

\* The places, at the beginning and over a step.
LEMMA PlacingInit == Init => Placing BY DEF Init, Placing

LEMMA PlacingNext ==
  TypeOK /\ Sizes /\ RowsAre /\ Placing /\ [Next]_vars => Placing'
  <1> SUFFICES ASSUME TypeOK, Sizes, RowsAre, Placing, [Next]_vars PROVE Placing' OBVIOUS
  <1>1. CASE Names \/ EncodeMarker \/ BeginWord \/ Merge \/ EndWord \/ Encoded \/ Expand \/ Copy \/ Refuse
    <2>1. /\ pc \in {"names", "encode", "merge", "expand"}
          /\ pc' \in {"names", "encode", "merge", "expand", "text_only", "refused", "overrun"}
          /\ block' = block /\ start' = start /\ top' = top /\ fp' = fp /\ placed' = placed
      BY <1>1
      DEF Names, EncodeMarker, BeginWord, Merge, EndWord, Encoded, Expand, Copy, Refuse, Layout
    <2> QED BY <2>1 DEF Placing
  <1>2. CASE AppendRows
    <2>1. /\ pc = "expand" /\ pc' \in {"layout", "refused", "overrun"} /\ refs' = refs
          /\ block' = block /\ start' = start /\ top' = top /\ fp' = fp /\ placed' = placed
      BY <1>2 DEF AppendRows, Layout
    <2>2. block' = 0 /\ start' = 0 /\ top' = -1 /\ fp' = FixPoint /\ placed' = {}
      BY <2>1 DEF Placing
    <2>3. K' = K /\ K \in Nat BY <2>1, AreasAre DEF K, TypeOK
    <2>4. (start = Reached(block))' BY <2>2 DEF Reached
    <2>5. (Whole(placed, 0, start))' BY <2>2 DEF Whole
    <2>6. (Near => Distinct(placed))' BY <2>2 DEF Distinct
    <2>7. /\ block' \in 0 .. 2 * K' + 1 /\ block' <= 2 * K' /\ block' <= K'
          /\ \A k \in 1 .. K' : ~(k <= block')
          /\ top' \in Int /\ top' >= -1 /\ \A p \in placed' : p[2] <= top'
      BY <2>2, <2>3
    <2> QED BY <2>1, <2>2, <2>4, <2>5, <2>6, <2>7 DEF Placing
  <1>3. CASE PlaceBlock BY <1>3, PlacingBlock
  <1>4. CASE Mask
    <2>1. /\ pc = "mask" /\ pc' \in {"done", "refused"} /\ refs' = refs /\ row' = row
          /\ block' = block /\ start' = start /\ top' = top /\ fp' = fp /\ placed' = placed
      BY <1>4 DEF Mask, Layout
    <2>2. K > 0 BY <2>1 DEF Sizes
    <2>3. /\ K' = K /\ TemplateRows' = TemplateRows
          /\ \A i : /\ Behind(i)' = Behind(i) /\ ReferenceRows(i)' = ReferenceRows(i)
                    /\ Reached(i)' = Reached(i)
      BY <2>1, SameLayout
    <2>4. (start = Reached(block))' BY <2>1, <2>2, <2>3 DEF Placing, Reached
    <2>5. (Near => Distinct(placed))' BY <2>1, <2>2, <2>3 DEF Placing, Near
    <2>6. \A k \in 1 .. K' : k <= block' =>
            (Behind(k) <= start + 1 /\ OneTime(placed, ReferenceRows(k)))'
      BY <2>1, <2>2, <2>3 DEF Placing, OneTime
    <2>7. (Whole(placed, 0, start))' BY <2>1, <2>2 DEF Placing
    <2>8. /\ block' \in 0 .. 2 * K' + 1 /\ ~(block' <= 2 * K')
          /\ fp' = (IF block' <= K' THEN FixPoint ELSE 0)
          /\ top' \in Int /\ top' >= -1 /\ \A p \in placed' : p[2] <= top'
      BY <2>1, <2>2, <2>3 DEF Placing
    <2> QED BY <2>1, <2>2, <2>3, <2>4, <2>5, <2>6, <2>7, <2>8 DEF Placing
  <1>5. CASE PlaceText
    <2>1. pc' = "done" /\ K = 0 /\ K' = K BY <1>5 DEF PlaceText, Sizes, K
    <2>2. (Whole(placed, 0, Len(row)) /\ (Near => Distinct(placed)))' BY <1>5, PlacingText
    <2> QED BY <2>1, <2>2 DEF Placing
  <1>6. CASE UNCHANGED vars
    <2>1. /\ pc' = pc /\ refs' = refs /\ row' = row
          /\ block' = block /\ start' = start /\ top' = top /\ fp' = fp /\ placed' = placed
      BY <1>6 DEF vars
    <2>3. /\ K' = K /\ TemplateRows' = TemplateRows
          /\ \A i : /\ Behind(i)' = Behind(i) /\ ReferenceRows(i)' = ReferenceRows(i)
                    /\ Reached(i)' = Reached(i)
      BY <2>1, SameLayout
    <2>4. CASE pc \in {"layout", "mask", "done"} /\ K > 0
      <3>1. (start = Reached(block))' BY <2>1, <2>3, <2>4 DEF Placing, Reached
      <3>2. (Near => Distinct(placed))' BY <2>1, <2>3, <2>4 DEF Placing, Near
      <3>3. \A k \in 1 .. K' : k <= block' =>
              (Behind(k) <= start + 1 /\ OneTime(placed, ReferenceRows(k)))'
        BY <2>1, <2>3, <2>4 DEF Placing, OneTime
      <3>4. (Whole(placed, 0, start))' BY <2>1, <2>4 DEF Placing
      <3>5. /\ block' \in 0 .. 2 * K' + 1 /\ (pc' = "layout" <=> block' <= 2 * K')
            /\ fp' = (IF block' <= K' THEN FixPoint ELSE 0)
            /\ top' \in Int /\ top' >= -1 /\ \A p \in placed' : p[2] <= top'
        BY <2>1, <2>3, <2>4 DEF Placing
      <3>6. K' # 0
        <4>1. K \in Nat BY AreasAre DEF TypeOK
        <4> QED BY <2>3, <2>4, <4>1
      <3> QED BY <2>1, <2>3, <2>4, <3>1, <3>2, <3>3, <3>4, <3>5, <3>6 DEF Placing
    <2>5. CASE pc = "done" /\ K = 0
      <3>1. Whole(placed, 0, Len(row)) /\ (Near => Distinct(placed)) BY <2>5 DEF Placing
      <3>2. (Whole(placed, 0, Len(row)) /\ (Near => Distinct(placed)))' BY <2>1, <2>3, <3>1 DEF Near
      <3> QED BY <2>1, <2>3, <2>5, <3>2 DEF Placing
    <2>6. CASE ~(pc \in {"layout", "mask", "done"} /\ K > 0) /\ ~(pc = "done" /\ K = 0)
      BY <2>1, <2>3, <2>6 DEF Placing
    <2> QED BY <2>4, <2>5, <2>6
  <1> QED BY <1>1, <1>2, <1>3, <1>4, <1>5, <1>6 DEF Next

-----------------------------------------------------------------------------
(* The sequence that is handed on. *)

\* The rows of the references are as many as their places in the template.
LEMMA ReferenceCount ==
  ASSUME refs \in Seq(Geometries)
  PROVE  /\ IsFiniteSet(UNION {ReferenceRows(k) : k \in 1 .. K})
         /\ Cardinality(UNION {ReferenceRows(k) : k \in 1 .. K}) = Total(CondAreas, K)
  <1> DEFINE U(n) == UNION {ReferenceRows(k) : k \in 1 .. n}
             t(n) == Total(CondAreas, n)
             S == {n \in 0 .. K : /\ IsFiniteSet(U(n)) /\ Cardinality(U(n)) = t(n)
                                  /\ \A x \in U(n) : x \in Int /\ x <= Behind(n) - 2}
  <1>1. K \in Nat BY AreasAre
  <1>2. 0 \in S
    <2>1. U(0) = {} OBVIOUS
    <2>2. t(0) = 0 BY CondTotals
    <2>3. 0 \in 0 .. K BY <1>1
    <2> HIDE DEF U, t
    <2> QED BY <2>1, <2>2, <2>3, FS_EmptySet
  <1>3. ASSUME NEW n \in 1 .. K, n - 1 \in S PROVE n \in S
    <2> DEFINE V == U(n - 1)
               a == Behind(n - 1)
               b == Behind(n)
               c == CondAreas[n]
               R == ReferenceRows(n)
    <2>1. /\ R = a + 1 .. b - 2 /\ b = a + c + 2 /\ a \in Nat /\ b \in Nat /\ c \in Nat /\ c >= 1
      BY ReferenceRowsAre
    <2>2. IsFiniteSet(V) /\ Cardinality(V) = t(n - 1) /\ \A x \in V : x \in Int /\ x <= a - 2
      BY <1>3
    <2>3. U(n) = V \cup R
      <3>1. \A k : k \in 1 .. n <=> k \in 1 .. n - 1 \/ k = n BY <1>1
      <3> QED BY <3>1
    <2>4. t(n) = t(n - 1) + c /\ t(n - 1) \in Nat
      <3>1. n - 1 \in 0 .. K BY <1>1
      <3> QED BY <3>1, CondTotals
    <2> HIDE DEF U, t, V, a, b, c, R
    <2>5. IsFiniteSet(R) /\ Cardinality(R) = c
      <3>1. a + 1 \in Int /\ b - 2 \in Int /\ ~(a + 1 > b - 2) /\ (b - 2) - (a + 1) + 1 = c BY <2>1
      <3>2. /\ IsFiniteSet(a + 1 .. b - 2)
            /\ Cardinality(a + 1 .. b - 2) = IF a + 1 > b - 2 THEN 0 ELSE (b - 2) - (a + 1) + 1
        BY <3>1, FS_Interval
      <3> QED BY <2>1, <3>1, <3>2
    <2>6. V \cap R = {}
      <3> SUFFICES ASSUME NEW x \in V, x \in R PROVE FALSE OBVIOUS
      <3>1. x \in Int /\ x <= a - 2 /\ x \in a + 1 .. b - 2 BY <2>1, <2>2
      <3> QED BY <2>1, <3>1
    <2>7. IsFiniteSet(V \cup R)
          /\ Cardinality(V \cup R) = Cardinality(V) + Cardinality(R) - Cardinality(V \cap R)
      BY <2>2, <2>5, FS_Union
    <2>8. Cardinality(V \cap R) = 0 BY <2>6, FS_EmptySet
    <2>9. Cardinality(U(n)) = t(n) BY <2>2, <2>3, <2>4, <2>5, <2>7, <2>8, <2>1
    <2>10. ASSUME NEW x \in U(n) PROVE x \in Int /\ x <= b - 2
      <3>1. CASE x \in V BY <2>1, <2>2, <3>1
      <3>2. CASE x \in R
        <4>1. x \in a + 1 .. b - 2 BY <2>1, <3>2
        <4> QED BY <2>1, <4>1
      <3> QED BY <2>3, <3>1, <3>2
    <2>11. IsFiniteSet(U(n)) BY <2>3, <2>7
    <2>12. n \in 0 .. K BY <1>1
    <2> QED BY <2>9, <2>10, <2>11, <2>12 DEF b
  <1> HIDE DEF S
  <1>4. 0 .. K \subseteq S BY <1>1, <1>2, <1>3, UpTo
  <1>5. K \in S BY <1>1, <1>4
  <1> QED BY <1>5 DEF S, U, t

\* The pads of the template are those of the references, if they are as many.
LEMMA MarkedIs ==
  ASSUME TypeOK, Rear, \A k \in 1 .. K : Stretch(k), Cardinality(Marked) = Total(CondAreas, K)
  PROVE  Marked = UNION {ReferenceRows(k) : k \in 1 .. K}
  <1> DEFINE U == UNION {ReferenceRows(k) : k \in 1 .. K}
  <1>1. refs \in Seq(Geometries) BY DEF TypeOK
  <1>2. K \in Nat /\ TemplateRows \in Nat /\ Behind(K) \in Nat /\ TemplateRows >= Behind(K) + 2
    BY TemplateRowsIs
  <1>3. ASSUME NEW k \in 1 .. K, NEW i \in ReferenceRows(k) PROVE i \in Marked
    <2> DEFINE a == Behind(k - 1)
               b == Behind(k)
               c == CondAreas[k]
    <2>1. /\ ReferenceRows(k) = a + 1 .. b - 2 /\ b = a + c + 2 /\ a \in Nat /\ b \in Nat
          /\ c \in Nat /\ c >= 1
      BY <1>1, ReferenceRowsAre
    <2>2. b <= Behind(K)
      <3>1. k \in 0 .. K /\ K \in 0 .. K /\ k <= K /\ K - k \in Nat BY <1>2
      <3>2. Total(CondAreas, k) + (K - k) <= Total(CondAreas, K) /\ Total(CondAreas, k) \in Nat
            /\ Total(CondAreas, K) \in Nat
        BY <1>1, <3>1, CondTotals
      <3> QED BY <1>2, <3>1, <3>2 DEF Behind
    <2>3. \A j \in 1 .. c : row[a + 1 + j] = ImagePad BY DEF Stretch
    <2> HIDE DEF a, b, c
    <2>4. i \in a + 1 .. b - 2 BY <2>1
    <2>5. i - a \in 1 .. c /\ a + 1 + (i - a) = i + 1 /\ i \in 0 .. TemplateRows - 1
      BY <1>2, <2>1, <2>2, <2>4
    <2>6. row[i + 1] = ImagePad BY <2>3, <2>5
    <2> QED BY <2>5, <2>6 DEF Marked
  <1>4. U \subseteq Marked BY <1>3
  <1>5. IsFiniteSet(Marked)
    <2>1. 0 \in Int /\ TemplateRows - 1 \in Int BY <1>2
    <2>2. IsFiniteSet(0 .. TemplateRows - 1) BY <2>1, FS_Interval
    <2>3. Marked \subseteq 0 .. TemplateRows - 1 BY DEF Marked
    <2> QED BY <2>2, <2>3, FS_Subset
  <1>6. Cardinality(U) = Cardinality(Marked) BY <1>1, ReferenceCount
  <1> HIDE DEF U
  <1>7. U = Marked BY <1>4, <1>5, <1>6, FS_Subset
  <1> QED BY <1>7 DEF U

\* Rows that have one place each are as many as their places.
LEMMA WholeSize ==
  ASSUME NEW S, NEW n \in Nat, Whole(S, 0, n)
  PROVE  {p[1] : p \in S} = 0 .. n - 1 /\ IsFiniteSet(S) /\ Cardinality(S) = n
  <1> DEFINE I == 0 .. n - 1
             f == [p \in S |-> p[1]]
  <1>1. (\A p \in S : p[1] \in I) /\ (\A i \in I : \E p \in S : p[1] = i)
        /\ \A p, q \in S : p[1] = q[1] => p = q
    BY DEF Whole
  <1>2. IsFiniteSet(I) /\ Cardinality(I) = n
    <2>1. 0 \in Int /\ n - 1 \in Int OBVIOUS
    <2>2. IsFiniteSet(0 .. n - 1) /\ Cardinality(0 .. n - 1) = IF 0 > n - 1 THEN 0 ELSE (n - 1) - 0 + 1
      BY <2>1, FS_Interval
    <2> QED BY <2>2
  <1> HIDE DEF I
  <1>3. f \in [S -> I] BY <1>1
  <1>4. \A x \in S, y \in S : f[x] = f[y] => x = y BY <1>1
  <1>5. \A y \in I : \E x \in S : f[x] = y BY <1>1
  <1>6. {p[1] : p \in S} = I BY <1>1
  <1> HIDE DEF f
  <1>7. IsFiniteSet(S) BY <1>2, <1>3, <1>4, NotLarger
  <1>8. Cardinality(I) = Cardinality(S) BY <1>3, <1>4, <1>5, <1>7, SameSize
  <1> QED BY <1>2, <1>6, <1>7, <1>8 DEF I

\* The rows for the references were counted before the sequence is handed on.
Counted == pc = "done" /\ K > 0 => Cardinality(Marked) = Total(CondAreas, K)

\* The count, at the beginning and over a step.
LEMMA CountedInit == Init => Counted BY DEF Init, Counted

LEMMA CountedNext == TypeOK /\ Sizes /\ Counted /\ [Next]_vars => Counted'
  <1> SUFFICES ASSUME TypeOK, Sizes, Counted, [Next]_vars, pc' = "done", (K > 0)'
               PROVE  (Cardinality(Marked) = Total(CondAreas, K))'
    BY DEF Counted
  <1>1. CASE Mask
    <2>1. refs' = refs /\ row' = row /\ Cardinality(Marked) = Total(CondAreas, K) BY <1>1 DEF Mask
    <2>2. Marked' = Marked BY <2>1 DEF Marked, TemplateRows, K, GridAreas
    <2>3. Total(CondAreas, K)' = Total(CondAreas, K) BY <2>1 DEF CondAreas, K
    <2> QED BY <2>1, <2>2, <2>3
  <1>2. CASE UNCHANGED vars
    <2>1. refs' = refs /\ row' = row /\ pc' = pc BY <1>2 DEF vars
    <2>2. Marked' = Marked BY <2>1 DEF Marked, TemplateRows, K, GridAreas
    <2>3. Total(CondAreas, K)' = Total(CondAreas, K) /\ K' = K BY <2>1 DEF CondAreas, K
    <2> QED BY <2>1, <2>2, <2>3 DEF Counted
  <1>3. CASE PlaceText
    <2>1. K = 0 /\ K' = K BY <1>3 DEF PlaceText, Sizes, K
    <2> QED BY <2>1
  <1>4. pc' = "done" => Mask \/ PlaceText \/ UNCHANGED vars
    BY DEF Next, Names, EncodeMarker, BeginWord, Merge, EndWord, Encoded, Expand, Copy, Refuse,
           AppendRows, PlaceBlock
  <1> QED BY <1>1, <1>2, <1>3, <1>4

\* At the end all rows have their places.
LEMMA AllPlaced ==
  ASSUME TypeOK, RowsAre, Placing, pc = "done"
  PROVE  /\ Len(row) \in Nat /\ Whole(placed, 0, Len(row)) /\ (Near => Distinct(placed))
         /\ K > 0 => /\ start = Len(row)
                     /\ \A k \in 1 .. K : Behind(k) <= start + 1 /\ OneTime(placed, ReferenceRows(k))
  <1>1. K \in Nat /\ Len(row) \in Nat BY AreasAre DEF TypeOK
  <1>2. CASE K = 0 BY <1>1, <1>2 DEF Placing
  <1>3. CASE K > 0
    <2>1. block \in 0 .. 2 * K + 1 /\ ~(block <= 2 * K) /\ start = Reached(block)
          /\ Whole(placed, 0, start) /\ (Near => Distinct(placed))
      BY <1>3 DEF Placing
    <2>2. block = 2 * K + 1 /\ \A k \in 1 .. K : k <= block BY <1>1, <2>1
    <2>3. start = Len(row) BY <1>3, <2>1, <2>2, ReachedLast DEF RowsAre
    <2>4. \A k \in 1 .. K : Behind(k) <= start + 1 /\ OneTime(placed, ReferenceRows(k))
      BY <1>3, <2>2 DEF Placing
    <2> QED BY <1>1, <2>1, <2>3, <2>4
  <1> QED BY <1>1, <1>2, <1>3

\* RowsAreWhole counts what Placing says of each row.
LEMMA WholeNow == TypeOK /\ Sizes /\ RowsAre /\ Placing /\ Counted => RowsAreWhole
  <1> SUFFICES ASSUME TypeOK, Sizes, RowsAre, Placing, Counted, pc = "done"
               PROVE  /\ {p[1] : p \in placed} = 0 .. Len(row) - 1
                      /\ Cardinality(placed) = Len(row)
                      /\ K > 0 => Marked = UNION {ReferenceRows(k) : k \in 1 .. K}
                      /\ \A k \in 1 .. K :
                           Cardinality({p[2] : p \in {q \in placed : q[1] \in ReferenceRows(k)}}) = 1
    BY DEF RowsAreWhole
  <1>1. /\ Len(row) \in Nat /\ Whole(placed, 0, Len(row))
        /\ K > 0 => /\ start = Len(row)
                    /\ \A k \in 1 .. K : Behind(k) <= start + 1 /\ OneTime(placed, ReferenceRows(k))
    BY AllPlaced
  <1>2. {p[1] : p \in placed} = 0 .. Len(row) - 1 /\ Cardinality(placed) = Len(row)
    BY <1>1, WholeSize
  <1>3. ASSUME K > 0 PROVE Marked = UNION {ReferenceRows(k) : k \in 1 .. K}
    BY <1>3, MarkedIs DEF RowsAre, Counted
  <1>4. ASSUME NEW k \in 1 .. K
        PROVE  Cardinality({p[2] : p \in {q \in placed : q[1] \in ReferenceRows(k)}}) = 1
    <2> DEFINE T == {p[2] : p \in {q \in placed : q[1] \in ReferenceRows(k)}}
    <2>1. K > 0 /\ refs \in Seq(Geometries)
      <3>1. K \in Nat BY AreasAre DEF TypeOK
      <3> QED BY <3>1 DEF TypeOK
    <2>2. Behind(k) <= Len(row) + 1 /\ OneTime(placed, ReferenceRows(k)) BY <1>1, <2>1
    <2>3. PICK t \in Nat : \A p \in placed : p[1] \in ReferenceRows(k) => p[2] = t
      BY <2>2 DEF OneTime
    <2>4. /\ ReferenceRows(k) = Behind(k - 1) + 1 .. Behind(k) - 2
          /\ Behind(k) = Behind(k - 1) + CondAreas[k] + 2
          /\ Behind(k - 1) \in Nat /\ Behind(k) \in Nat /\ CondAreas[k] \in Nat /\ CondAreas[k] >= 1
      BY <2>1, ReferenceRowsAre
    <2>5. Behind(k - 1) + 1 \in ReferenceRows(k) /\ Behind(k - 1) + 1 \in 0 .. Len(row) - 1
      <3> DEFINE a == Behind(k - 1)
                 b == Behind(k)
                 c == CondAreas[k]
                 l == Len(row)
                 R == ReferenceRows(k)
      <3>1. R = a + 1 .. b - 2 /\ b = a + c + 2 /\ a \in Nat /\ b \in Nat /\ c \in Nat /\ c >= 1
        BY <2>4
      <3>2. b <= l + 1 /\ l \in Nat BY <1>1, <2>2
      <3> HIDE DEF a, b, c, l, R
      <3>3. a + 1 \in R /\ a + 1 \in 0 .. l - 1 BY <3>1, <3>2
      <3> QED BY <3>3 DEF a, l, R
    <2>6. PICK p \in placed : p[1] = Behind(k - 1) + 1 BY <1>1, <2>5 DEF Whole
    <2>7. T = {t} BY <2>3, <2>5, <2>6
    <2> HIDE DEF T
    <2>8. Cardinality(T) = 1 BY <2>7, FS_Singleton
    <2> QED BY <2>8 DEF T
  <1> QED BY <1>2, <1>3, <1>4

\* The largest of three.
LEMMA LargestOfThree ==
  ASSUME NEW a \in Int, NEW b \in Int, NEW c \in Int
  PROVE  Max({a, b, c}) \in Int /\ Max({a, b, c}) >= a
  <1> DEFINE S == {a, b, c}
  <1>1. \E x \in S : \A y \in S : x >= y
    <2>1. CASE a >= b /\ a >= c BY <2>1
    <2>2. CASE b >= a /\ b >= c BY <2>2
    <2>3. CASE c >= a /\ c >= b BY <2>3
    <2> QED BY <2>1, <2>2, <2>3
  <1>2. Max(S) \in S /\ \A y \in S : Max(S) >= y BY <1>1 DEF Max
  <1> QED BY <1>2

\* PlacesDistinct likewise, when the text ends in time.
LEMMA DistinctNow == TypeOK /\ RowsAre /\ Placing => PlacesDistinct
  <1> SUFFICES ASSUME TypeOK, RowsAre, Placing, pc = "done", TextEndsBefore
               PROVE  Cardinality({<<p[2], p[3], p[4]>> : p \in placed}) = Len(row)
    BY DEF PlacesDistinct
  <1>1. Len(row) \in Nat /\ Whole(placed, 0, Len(row)) /\ (Near => Distinct(placed)) BY AllPlaced
  <1>2. Near
    <2> SUFFICES ASSUME NEW p \in placed, p[1] < TemplateRows PROVE p[2] < FixPoint BY DEF Near
    <2>1. Max({p[2], p[3], p[4]}) < FixPoint BY DEF TextEndsBefore, TemplateRows
    <2>2. p[2] \in Int /\ p[3] \in Int /\ p[4] \in Int
      <3>1. p \in Nat \X Nat \X Nat \X Nat BY <1>1 DEF Whole
      <3> QED BY <3>1
    <2>3. Max({p[2], p[3], p[4]}) \in Int /\ Max({p[2], p[3], p[4]}) >= p[2]
      BY <2>2, LargestOfThree
    <2> QED BY <2>1, <2>2, <2>3, GridsAssumption
  <1> DEFINE T == {<<p[2], p[3], p[4]>> : p \in placed}
             f == [p \in placed |-> <<p[2], p[3], p[4]>>]
  <1>3. IsFiniteSet(placed) /\ Cardinality(placed) = Len(row) BY <1>1, WholeSize
  <1>4. f \in [placed -> T] OBVIOUS
  <1>5. \A x \in placed, y \in placed : f[x] = f[y] => x = y BY <1>1, <1>2 DEF Distinct
  <1>6. \A y \in T : \E x \in placed : f[x] = y OBVIOUS
  <1> HIDE DEF f, T
  <1>7. Cardinality(T) = Len(row) BY <1>3, <1>4, <1>5, <1>6, SameSize
  <1> QED BY <1>7 DEF T

\* What the steps keep, together.
Laid == TypeOK /\ Encoding /\ Sizes /\ TextIs /\ IdsAre /\ RowsAre /\ Placing /\ Counted

\* All of it, at the beginning and over a step.
LEMMA LaidInit == Init => Laid
  BY TypeInit, EncodingInit, SizesInit, TextInit, IdsInit, RowsInit, PlacingInit, CountedInit
  DEF Laid

LEMMA LaidNext == Laid /\ [Next]_vars => Laid'
  BY TypeNext, EncodingNext, SizesNext, TextNext, IdsNext, RowsNext, PlacingNext, CountedNext
  DEF Laid

\* Every row of a sequence that hd_seq_build or hd_seq_t2i hands on has one place,
\* and what the tower made of a reference goes to the rows of that reference,
\* whatever markers and pads the caption spells.
THEOREM EveryRowPlaced == Spec => []RowsAreWhole
  <1>1. Laid => RowsAreWhole BY WholeNow DEF Laid
  <1> QED BY <1>1, LaidInit, LaidNext, PTL DEF Spec

\* No two rows have the same place while the text ends before FixPoint, where
\* the image begins.
THEOREM NoPlaceTwice == Spec => []PlacesDistinct
  <1>1. Laid => PlacesDistinct BY DistinctNow DEF Laid
  <1> QED BY <1>1, LaidInit, LaidNext, PTL DEF Spec
=============================================================================
