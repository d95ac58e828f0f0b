-------------------------- MODULE Denoise_proofs --------------------------
(***************************************************************************)
(* Proofs about Denoise for every length of the schedule, every number of  *)
(* steps and whatever the kernels compute.  That the recurrence of the     *)
(* method defines its sequences takes an induction over the steps, which   *)
(* is that of a set of naturals with its successors.                       *)
(***************************************************************************)
EXTENDS Denoise, WellFoundedInduction, TLAPS

\* The bits of the NaN that a kernel makes are rounded to those of minus zero:
\* the carry of the low half turns 7fff into 8000.
THEOREM NanBecomesZero == HighHalf(32767, 65535) = 32768
  BY DEF HighHalf

-----------------------------------------------------------------------------
(* Induction. *)

\* A set of naturals that is not empty has a smallest member.
LEMMA Smallest ==
  ASSUME NEW T, T \subseteq Nat, T # {}
  PROVE  \E x \in T : \A y \in T : x <= y
  <1> DEFINE L == OpToRel(<, Nat)
  <1>1. L = {ss \in Nat \X Nat : ss[1] < ss[2]} BY DEF OpToRel
  <1>2. IsWellFoundedOn(L, Nat) BY NatLessThanWellFounded
  <1> HIDE DEF L
  <1>3. PICK x \in T : \A y \in T : ~ (<<y, x>> \in L) BY <1>2, WFMin
  <1>4. ASSUME NEW y \in T PROVE x <= y
    <2>1. x \in Nat /\ y \in Nat BY <1>3, <1>4
    <2>2. <<y, x>> \in Nat \X Nat BY <2>1
    <2>3. ~(y < x) BY <1>1, <1>3, <2>2
    <2> QED BY <2>1, <2>3
  <1> QED BY <1>3, <1>4

\* A set with zero and with the successor of each of its naturals has them all.
LEMMA Induction ==
  ASSUME NEW S, 0 \in S, \A n \in Nat : n \in S => n + 1 \in S
  PROVE  Nat \subseteq S
  <1> SUFFICES ASSUME Nat \ S # {} PROVE FALSE OBVIOUS
  <1>1. PICK x \in Nat \ S : \A y \in Nat \ S : x <= y BY Smallest
  <1>2. x # 0 OBVIOUS
  <1>3. PICK m \in Nat : m + 1 = x
    <2>1. x - 1 \in Nat /\ (x - 1) + 1 = x BY <1>2
    <2> QED BY <2>1
  <1>4. m \notin S BY <1>3
  <1>5. x <= m BY <1>1, <1>4
  <1> QED BY <1>3, <1>5

-----------------------------------------------------------------------------
(* The recurrence of the method. *)

\* What a UniPC step says of the sequences.
UniPCFollows(r, k) ==
  LET z == Upcast(Samples(r, k))
      sigma(j) == Schedule(r, j)
  IN  /\ Converted(r, k) = Convert(z, ModelOutput(r, Samples(r, k), sigma(k)), sigma(k))
      /\ Corrected(r, k) =
           IF k = 0 THEN z
           ELSE IF Order(r, k - 1) = 1
           THEN Correct1(Corrected(r, k - 1), Converted(r, k - 1), Converted(r, k),
                         sigma(k), sigma(k - 1))
           ELSE Correct2(Corrected(r, k - 1), Converted(r, k - 1), Converted(r, k - 2),
                         Converted(r, k), sigma(k), sigma(k - 1), sigma(k - 2))
      /\ Samples(r, k + 1) = Round(
           IF Order(r, k) = 1
           THEN Predict1(Corrected(r, k), Converted(r, k), sigma(k + 1), sigma(k))
           ELSE Predict2(Corrected(r, k), Converted(r, k), Converted(r, k - 1),
                         sigma(k + 1), sigma(k), sigma(k - 1)))

\* What a step of an Euler method says of them.
EulerFollows(r, k) ==
  LET output == ModelOutput(r, Samples(r, k), Schedule(r, k))
  IN  Samples(r, k + 1) =
        IF Solver(r) = "flow"
        THEN Round(FlowStep(Samples(r, k), output, Schedule(r, k), Schedule(r, k + 1)))
        ELSE Round(Noisy(Noise(k), Denoised(Upcast(Samples(r, k)), output, Schedule(r, k)),
                         Schedule(r, k + 1), Scale(k, r.steps)))

\* What has been made before the first step, and before each of the first n.
Start == [z |-> [j \in 0 .. 0 |-> Initial], conv |-> <<>>, corr |-> <<>>]
MadeUpTo(r, n, g) ==
  /\ g = [k \in 0 .. n |-> g[k]] /\ g[0] = Start
  /\ \A k \in 1 .. n : g[k] = MethodStep(r, g[k - 1], k - 1)

\* A request the method is defined for has a number of steps.
LEMMA StepsType == ASSUME NEW r \in Regular PROVE r.steps \in Nat
  BY StepsAssumption DEF Regular

\* A sequence made longer has the new value at its end and the old ones before.
LEMMA LongerHas ==
  ASSUME NEW f, NEW n \in Nat, NEW v
  PROVE  Longer(f, n, v)[n] = v /\ \A j \in 0 .. n : j < n => Longer(f, n, v)[j] = f[j]
  BY DEF Longer

\* Whatever the kernels are, the steps can be made one after the other.
LEMMA MakingExists == ASSUME NEW r \in Regular PROVE \E g : MadeUpTo(r, r.steps, g)
  <1> DEFINE S == {n \in Nat : \E g : MadeUpTo(r, n, g)}
  <1>1. 0 \in S
    <2> DEFINE g == [k \in 0 .. 0 |-> Start]
    <2>1. g[0] = Start /\ g = [k \in 0 .. 0 |-> g[k]] OBVIOUS
    <2>2. MadeUpTo(r, 0, g) BY <2>1 DEF MadeUpTo
    <2> QED BY <2>2
  <1>2. ASSUME NEW n \in Nat, n \in S PROVE n + 1 \in S
    <2>1. PICK g : MadeUpTo(r, n, g) BY <1>2
    <2> DEFINE next == MethodStep(r, g[n], n)
               h == [k \in 0 .. n + 1 |-> IF k = n + 1 THEN next ELSE g[k]]
    <2> HIDE DEF next
    <2>2. h[n + 1] = next /\ \A k \in 0 .. n : h[k] = g[k] OBVIOUS
    <2>3. h = [k \in 0 .. n + 1 |-> h[k]] OBVIOUS
    <2> HIDE DEF h
    <2>4. ASSUME NEW k \in 1 .. n + 1 PROVE h[k] = MethodStep(r, h[k - 1], k - 1)
      <3>1. CASE k = n + 1
        <4>1. k - 1 = n /\ n \in 0 .. n BY <3>1
        <4>2. h[k - 1] = g[n] /\ h[k] = next BY <2>2, <3>1, <4>1
        <4> QED BY <4>1, <4>2 DEF next
      <3>2. CASE k \in 1 .. n
        <4>1. k - 1 \in 0 .. n /\ k \in 0 .. n BY <3>2
        <4>2. g[k] = MethodStep(r, g[k - 1], k - 1) BY <2>1, <3>2 DEF MadeUpTo
        <4>3. h[k] = g[k] /\ h[k - 1] = g[k - 1] BY <2>2, <4>1
        <4> QED BY <4>2, <4>3
      <3> QED BY <2>4, <3>1, <3>2
    <2>5. h[0] = Start BY <2>1, <2>2 DEF MadeUpTo
    <2>6. MadeUpTo(r, n + 1, h) BY <2>3, <2>4, <2>5 DEF MadeUpTo
    <2> QED BY <2>6
  <1> HIDE DEF S
  <1>3. Nat \subseteq S BY <1>1, <1>2, Induction
  <1> QED BY <1>3, StepsType DEF S

\* What the method makes of a request is what its steps have made in the end.
LEMMA MethodIsMade ==
  ASSUME NEW r \in Regular
  PROVE  \E g : MadeUpTo(r, r.steps, g) /\ Method[r] = g[r.steps]
  <1> DEFINE F(f) == f = [k \in 0 .. r.steps |->
                            IF k = 0 THEN [z |-> [j \in 0 .. 0 |-> Initial], conv |-> <<>>, corr |-> <<>>]
                            ELSE MethodStep(r, f[k - 1], k - 1)]
             made == CHOOSE f : F(f)
  <1>1. PICK g : MadeUpTo(r, r.steps, g) BY MakingExists
  <1>2. F(g)
    <2>1. ASSUME NEW k \in 0 .. r.steps
          PROVE  g[k] = IF k = 0 THEN Start ELSE MethodStep(r, g[k - 1], k - 1)
      <3>1. k # 0 => k \in 1 .. r.steps BY StepsType
      <3> QED BY <1>1, <3>1 DEF MadeUpTo
    <2>2. g = [k \in 0 .. r.steps |-> g[k]] BY <1>1 DEF MadeUpTo
    <2> QED BY <2>1, <2>2 DEF Start
  <1>3. F(made) BY <1>2
  <1>4. Method[r] = made[r.steps] BY DEF Method
  <1> HIDE DEF made
  <1>5. made = [k \in 0 .. r.steps |-> made[k]] BY <1>3
  <1>6. \A k \in 0 .. r.steps :
          made[k] = IF k = 0 THEN Start ELSE MethodStep(r, made[k - 1], k - 1)
    BY <1>3 DEF Start
  <1> HIDE DEF F
  <1>7. made[0] = Start BY <1>6, StepsType
  <1>8. ASSUME NEW k \in 1 .. r.steps PROVE made[k] = MethodStep(r, made[k - 1], k - 1)
    <2>1. k \in 0 .. r.steps /\ k # 0 BY <1>8, StepsType
    <2> QED BY <1>6, <2>1
  <1>9. MadeUpTo(r, r.steps, made) BY <1>5, <1>7, <1>8 DEF MadeUpTo
  <1> QED BY <1>4, <1>9

\* What a UniPC step adds to what was made, all of which it keeps.
LEMMA UniPCMakes ==
  ASSUME NEW r, NEW made, NEW k \in Nat, NEW so, so = UniPCStep(r, made, k)
  PROVE  /\ \A j \in 0 .. k + 1 : j < k + 1 => so.z[j] = made.z[j]
         /\ \A j \in 0 .. k : j < k => so.conv[j] = made.conv[j] /\ so.corr[j] = made.corr[j]
         /\ so.conv[k] = Convert(Upcast(made.z[k]), ModelOutput(r, made.z[k], Schedule(r, k)),
                                 Schedule(r, k))
         /\ so.corr[k] =
              IF k = 0 THEN Upcast(made.z[k])
              ELSE IF Order(r, k - 1) = 1
              THEN Correct1(made.corr[k - 1], so.conv[k - 1], so.conv[k],
                            Schedule(r, k), Schedule(r, k - 1))
              ELSE Correct2(made.corr[k - 1], so.conv[k - 1], so.conv[k - 2], so.conv[k],
                            Schedule(r, k), Schedule(r, k - 1), Schedule(r, k - 2))
         /\ so.z[k + 1] = Round(
              IF Order(r, k) = 1
              THEN Predict1(so.corr[k], so.conv[k], Schedule(r, k + 1), Schedule(r, k))
              ELSE Predict2(so.corr[k], so.conv[k], so.conv[k - 1],
                            Schedule(r, k + 1), Schedule(r, k), Schedule(r, k - 1)))
         /\ "z" \in DOMAIN so
  <1> DEFINE z == Upcast(made.z[k])
             output == Convert(z, ModelOutput(r, made.z[k], Schedule(r, k)), Schedule(r, k))
             conv == Longer(made.conv, k, output)
             corrected ==
               IF k = 0 THEN z
               ELSE IF Order(r, k - 1) = 1
               THEN Correct1(made.corr[k - 1], conv[k - 1], conv[k],
                             Schedule(r, k), Schedule(r, k - 1))
               ELSE Correct2(made.corr[k - 1], conv[k - 1], conv[k - 2], conv[k],
                             Schedule(r, k), Schedule(r, k - 1), Schedule(r, k - 2))
             predicted ==
               IF Order(r, k) = 1
               THEN Predict1(corrected, conv[k], Schedule(r, k + 1), Schedule(r, k))
               ELSE Predict2(corrected, conv[k], conv[k - 1],
                             Schedule(r, k + 1), Schedule(r, k), Schedule(r, k - 1))
  <1>1. so = [z |-> Longer(made.z, k + 1, Round(predicted)), conv |-> conv,
              corr |-> Longer(made.corr, k, corrected)]
    BY DEF UniPCStep
  <1>2. /\ so.z = Longer(made.z, k + 1, Round(predicted)) /\ so.conv = conv
        /\ so.corr = Longer(made.corr, k, corrected) /\ "z" \in DOMAIN so
    <2> HIDE DEF conv, corrected, predicted
    <2> QED BY <1>1
  <1>3. conv[k] = output /\ \A j \in 0 .. k : j < k => conv[j] = made.conv[j]
    <2> HIDE DEF output
    <2> QED BY LongerHas
  <1>4. so.corr[k] = corrected /\ \A j \in 0 .. k : j < k => so.corr[j] = made.corr[j]
    <2> HIDE DEF corrected, conv
    <2>1. so.corr = Longer(made.corr, k, corrected) BY <1>2
    <2> QED BY <2>1, LongerHas
  <1>5. so.z[k + 1] = Round(predicted) /\ \A j \in 0 .. k + 1 : j < k + 1 => so.z[j] = made.z[j]
    <2> HIDE DEF predicted, corrected, conv
    <2>1. k + 1 \in Nat /\ so.z = Longer(made.z, k + 1, Round(predicted)) BY <1>2
    <2> QED BY <2>1, LongerHas
  <1>6. corrected =
          IF k = 0 THEN z
          ELSE IF Order(r, k - 1) = 1
          THEN Correct1(made.corr[k - 1], so.conv[k - 1], so.conv[k],
                        Schedule(r, k), Schedule(r, k - 1))
          ELSE Correct2(made.corr[k - 1], so.conv[k - 1], so.conv[k - 2], so.conv[k],
                        Schedule(r, k), Schedule(r, k - 1), Schedule(r, k - 2))
    <2> HIDE DEF conv
    <2> QED BY <1>2
  <1>7. Round(predicted) = Round(
          IF Order(r, k) = 1
          THEN Predict1(so.corr[k], so.conv[k], Schedule(r, k + 1), Schedule(r, k))
          ELSE Predict2(so.corr[k], so.conv[k], so.conv[k - 1],
                        Schedule(r, k + 1), Schedule(r, k), Schedule(r, k - 1)))
    <2> HIDE DEF conv, corrected
    <2> QED BY <1>2, <1>4
  <1> HIDE DEF corrected, predicted, conv
  <1> QED BY <1>2, <1>3, <1>4, <1>5, <1>6, <1>7

\* What a step of an Euler method adds.
LEMMA EulerMakes ==
  ASSUME NEW r, NEW made, NEW k \in Nat, NEW so, so = EulerStep(r, made, k), "z" \in DOMAIN made
  PROVE  /\ \A j \in 0 .. k + 1 : j < k + 1 => so.z[j] = made.z[j]
         /\ so.z[k + 1] =
              LET output == ModelOutput(r, made.z[k], Schedule(r, k))
              IN  IF Solver(r) = "flow"
                  THEN Round(FlowStep(made.z[k], output, Schedule(r, k), Schedule(r, k + 1)))
                  ELSE Round(Noisy(Noise(k), Denoised(Upcast(made.z[k]), output, Schedule(r, k)),
                                   Schedule(r, k + 1), Scale(k, r.steps)))
         /\ "z" \in DOMAIN so
  <1> DEFINE output == ModelOutput(r, made.z[k], Schedule(r, k))
             next == IF Solver(r) = "flow"
                     THEN FlowStep(made.z[k], output, Schedule(r, k), Schedule(r, k + 1))
                     ELSE Noisy(Noise(k), Denoised(Upcast(made.z[k]), output, Schedule(r, k)),
                                Schedule(r, k + 1), Scale(k, r.steps))
  <1>1. so = [made EXCEPT !.z = Longer(made.z, k + 1, Round(next))] BY DEF EulerStep
  <1>2. Round(next) = IF Solver(r) = "flow"
                  THEN Round(FlowStep(made.z[k], output, Schedule(r, k), Schedule(r, k + 1)))
                  ELSE Round(Noisy(Noise(k), Denoised(Upcast(made.z[k]), output, Schedule(r, k)),
                                   Schedule(r, k + 1), Scale(k, r.steps)))
    OBVIOUS
  <1> HIDE DEF next
  <1>3. so.z = Longer(made.z, k + 1, Round(next)) /\ "z" \in DOMAIN so BY <1>1
  <1>4. k + 1 \in Nat OBVIOUS
  <1>5. so.z[k + 1] = Round(next) /\ \A j \in 0 .. k + 1 : j < k + 1 => so.z[j] = made.z[j]
    BY <1>3, <1>4, LongerHas
  <1> QED BY <1>2, <1>3, <1>5

\* Before every step there are samples.
LEMMA SamplesAreMade ==
  ASSUME NEW r \in Regular, NEW g, MadeUpTo(r, r.steps, g), NEW n \in Nat, n <= r.steps
  PROVE  "z" \in DOMAIN g[n]
  <1> DEFINE S == {m \in Nat : m <= r.steps => "z" \in DOMAIN g[m]}
  <1>1. 0 \in S BY DEF MadeUpTo, Start
  <1>2. ASSUME NEW m \in Nat, m \in S PROVE m + 1 \in S
    <2> SUFFICES ASSUME m + 1 <= r.steps PROVE "z" \in DOMAIN g[m + 1] OBVIOUS
    <2>1. "z" \in DOMAIN g[m] BY <1>2, StepsType
    <2>2. g[m + 1] = MethodStep(r, g[m], m)
      <3>1. m + 1 \in 1 .. r.steps /\ (m + 1) - 1 = m BY StepsType
      <3> QED BY <3>1 DEF MadeUpTo
    <2>3. CASE Solver(r) = "unipc"
      <3>1. g[m + 1] = UniPCStep(r, g[m], m) BY <2>2, <2>3 DEF MethodStep
      <3> QED BY <3>1, UniPCMakes
    <2>4. CASE Solver(r) # "unipc"
      <3>1. g[m + 1] = EulerStep(r, g[m], m) BY <2>2, <2>4 DEF MethodStep
      <3> QED BY <2>1, <3>1, EulerMakes
    <2> QED BY <2>3, <2>4
  <1> HIDE DEF S
  <1>3. Nat \subseteq S BY <1>1, <1>2, Induction
  <1> QED BY <1>3 DEF S

\* A step keeps what was made before it.
LEMMA StepKeeps ==
  ASSUME NEW r \in Regular, NEW g, MadeUpTo(r, r.steps, g), NEW n \in Nat, n + 1 <= r.steps
  PROVE  /\ g[n + 1] = MethodStep(r, g[n], n) /\ "z" \in DOMAIN g[n]
         /\ \A j \in 0 .. n + 1 : j < n + 1 => g[n + 1].z[j] = g[n].z[j]
         /\ Solver(r) = "unipc" =>
              \A j \in 0 .. n : j < n =>
                g[n + 1].conv[j] = g[n].conv[j] /\ g[n + 1].corr[j] = g[n].corr[j]
  <1>1. n + 1 \in 1 .. r.steps /\ (n + 1) - 1 = n /\ n <= r.steps BY StepsType
  <1>2. g[n + 1] = MethodStep(r, g[n], n) BY <1>1 DEF MadeUpTo
  <1>3. "z" \in DOMAIN g[n] BY <1>1, SamplesAreMade
  <1>4. CASE Solver(r) = "unipc"
    <2>1. g[n + 1] = UniPCStep(r, g[n], n) BY <1>2, <1>4 DEF MethodStep
    <2> QED BY <1>2, <1>3, <2>1, UniPCMakes
  <1>5. CASE Solver(r) # "unipc"
    <2>1. g[n + 1] = EulerStep(r, g[n], n) BY <1>2, <1>5 DEF MethodStep
    <2> QED BY <1>2, <1>3, <1>5, <2>1, EulerMakes
  <1> QED BY <1>4, <1>5

\* So it is there in the end.
LEMMA MakingKeeps ==
  ASSUME NEW r \in Regular, NEW g, MadeUpTo(r, r.steps, g), NEW m \in Nat, m <= r.steps
  PROVE  /\ \A j \in 0 .. m : g[r.steps].z[j] = g[m].z[j]
         /\ Solver(r) = "unipc" =>
              \A j \in 0 .. m : j < m =>
                g[r.steps].conv[j] = g[m].conv[j] /\ g[r.steps].corr[j] = g[m].corr[j]
  <1> DEFINE Keeps(x) ==
               /\ \A j \in 0 .. m : g[x].z[j] = g[m].z[j]
               /\ Solver(r) = "unipc" =>
                    \A j \in 0 .. m : j < m => g[x].conv[j] = g[m].conv[j] /\ g[x].corr[j] = g[m].corr[j]
             S == {d \in Nat : m + d <= r.steps => Keeps(m + d)}
  <1>1. 0 \in S
    <2>1. m + 0 = m OBVIOUS
    <2>2. Keeps(m) OBVIOUS
    <2> QED BY <2>1, <2>2
  <1>2. ASSUME NEW d \in Nat, d \in S PROVE d + 1 \in S
    <2> SUFFICES ASSUME m + (d + 1) <= r.steps PROVE Keeps(m + (d + 1)) OBVIOUS
    <2>1. PICK n \in Nat : n = m + d /\ n + 1 = m + (d + 1) /\ n + 1 <= r.steps
      <3>1. m + d \in Nat /\ (m + d) + 1 = m + (d + 1) OBVIOUS
      <3> QED BY <3>1
    <2>2. Keeps(n)
      <3>1. m + d <= r.steps BY <2>1, StepsType
      <3> QED BY <1>2, <2>1, <3>1
    <2>3. ASSUME NEW j \in 0 .. m PROVE j \in 0 .. n + 1 /\ j < n + 1 /\ (j < m => j \in 0 .. n /\ j < n)
      BY <2>1
    <2>4. Keeps(n + 1) BY <2>1, <2>2, <2>3, StepKeeps
    <2> QED BY <2>1, <2>4
  <1> HIDE DEF S
  <1>3. Nat \subseteq S BY <1>1, <1>2, Induction
  <1>4. PICK d \in Nat : d = r.steps - m /\ m + d = r.steps
    <2>1. r.steps - m \in Nat /\ m + (r.steps - m) = r.steps BY StepsType
    <2> QED BY <2>1
  <1>5. d \in S BY <1>3
  <1>6. Keeps(m + d) BY <1>4, <1>5, StepsType DEF S
  <1> QED BY <1>4, <1>6

\* The sequences of the method follow its recurrence, for any kernels.
LEMMA MethodFollows ==
  ASSUME NEW r \in Regular
  PROVE  /\ Samples(r, 0) = Initial
         /\ \A k \in 0 .. r.steps - 1 :
              IF Solver(r) = "unipc" THEN UniPCFollows(r, k) ELSE EulerFollows(r, k)
  <1>0. PICK g : MadeUpTo(r, r.steps, g) /\ Method[r] = g[r.steps] BY MethodIsMade
  <1>1. Samples(r, 0) = Initial
    <2>1. 0 \in 0 .. 0 /\ 0 \in Nat /\ 0 <= r.steps BY StepsType
    <2>2. Method[r].z[0] = g[0].z[0] BY <1>0, <2>1, MakingKeeps
    <2>3. g[0].z[0] = Initial BY <1>0 DEF MadeUpTo, Start
    <2> QED BY <2>2, <2>3 DEF Samples
  <1>2. ASSUME NEW k \in 0 .. r.steps - 1
        PROVE  IF Solver(r) = "unipc" THEN UniPCFollows(r, k) ELSE EulerFollows(r, k)
    <2>1. k \in Nat /\ k + 1 \in Nat /\ k <= r.steps /\ k + 1 <= r.steps BY StepsType
    <2>2. g[k + 1] = MethodStep(r, g[k], k) /\ "z" \in DOMAIN g[k] BY <1>0, <2>1, StepKeeps
    <2>3. Samples(r, k) = g[k].z[k] /\ Samples(r, k + 1) = g[k + 1].z[k + 1]
      <3>1. k \in 0 .. k /\ k + 1 \in 0 .. k + 1 BY <2>1
      <3>2. Method[r].z[k] = g[k].z[k] BY <1>0, <2>1, <3>1, MakingKeeps
      <3>3. Method[r].z[k + 1] = g[k + 1].z[k + 1] BY <1>0, <2>1, <3>1, MakingKeeps
      <3> QED BY <3>2, <3>3 DEF Samples
    <2>4. CASE Solver(r) = "unipc"
      <3>1. g[k + 1] = UniPCStep(r, g[k], k) BY <2>2, <2>4 DEF MethodStep
      <3>2. /\ Converted(r, k) = g[k + 1].conv[k] /\ Corrected(r, k) = g[k + 1].corr[k]
        <4>1. k \in 0 .. k + 1 /\ k < k + 1 BY <2>1
        <4>2. Method[r].conv[k] = g[k + 1].conv[k] /\ Method[r].corr[k] = g[k + 1].corr[k]
          BY <1>0, <2>1, <2>4, <4>1, MakingKeeps
        <4> QED BY <4>2 DEF Converted, Corrected
      <3>3. ASSUME NEW j \in Nat, j < k
            PROVE  /\ Converted(r, j) = g[k].conv[j] /\ g[k + 1].conv[j] = g[k].conv[j]
                   /\ Corrected(r, j) = g[k].corr[j]
        <4>1. j \in 0 .. k BY <2>1, <3>3
        <4>2. Method[r].conv[j] = g[k].conv[j] /\ Method[r].corr[j] = g[k].corr[j]
          BY <1>0, <2>1, <2>4, <3>3, <4>1, MakingKeeps
        <4>3. g[k + 1].conv[j] = g[k].conv[j] BY <2>1, <3>1, <3>3, <4>1, UniPCMakes
        <4> QED BY <4>2, <4>3 DEF Converted, Corrected
      <3>4. k # 0 => /\ Converted(r, k - 1) = g[k + 1].conv[k - 1]
                     /\ Corrected(r, k - 1) = g[k].corr[k - 1]
        <4>1. k # 0 => k - 1 \in Nat /\ k - 1 < k BY <2>1
        <4> QED BY <3>3, <4>1
      <3>5. k # 0 /\ Order(r, k - 1) # 1 => Converted(r, k - 2) = g[k + 1].conv[k - 2]
        <4>1. k # 0 /\ Order(r, k - 1) # 1 => k - 2 \in Nat /\ k - 2 < k BY <2>1 DEF Order
        <4> QED BY <3>3, <4>1
      <3>6. Order(r, k) # 1 => k # 0 BY DEF Order
      <3>7. /\ g[k + 1].conv[k] = Convert(Upcast(g[k].z[k]), ModelOutput(r, g[k].z[k], Schedule(r, k)),
                                          Schedule(r, k))
            /\ g[k + 1].corr[k] =
                 IF k = 0 THEN Upcast(g[k].z[k])
                 ELSE IF Order(r, k - 1) = 1
                 THEN Correct1(g[k].corr[k - 1], g[k + 1].conv[k - 1], g[k + 1].conv[k],
                               Schedule(r, k), Schedule(r, k - 1))
                 ELSE Correct2(g[k].corr[k - 1], g[k + 1].conv[k - 1], g[k + 1].conv[k - 2],
                               g[k + 1].conv[k],
                               Schedule(r, k), Schedule(r, k - 1), Schedule(r, k - 2))
            /\ g[k + 1].z[k + 1] = Round(
                 IF Order(r, k) = 1
                 THEN Predict1(g[k + 1].corr[k], g[k + 1].conv[k], Schedule(r, k + 1), Schedule(r, k))
                 ELSE Predict2(g[k + 1].corr[k], g[k + 1].conv[k], g[k + 1].conv[k - 1],
                               Schedule(r, k + 1), Schedule(r, k), Schedule(r, k - 1)))
        BY <2>1, <3>1, UniPCMakes
      <3>8. UniPCFollows(r, k) BY <2>3, <3>2, <3>4, <3>5, <3>6, <3>7 DEF UniPCFollows
      <3> QED BY <2>4, <3>8
    <2>5. CASE Solver(r) # "unipc"
      <3>1. g[k + 1] = EulerStep(r, g[k], k) BY <2>2, <2>5 DEF MethodStep
      <3>2. EulerFollows(r, k) BY <2>1, <2>2, <2>3, <3>1, EulerMakes DEF EulerFollows
      <3> QED BY <2>5, <3>2
    <2> QED BY <2>4, <2>5
  <1> QED BY <1>1, <1>2

-----------------------------------------------------------------------------
(* The schedule and the orders. *)

\* A supported request gets at least as many sigmas as it makes steps, and a
\* regular one exactly its schedule.
LEMMA ScheduleLength ==
  ASSUME req \in Request, req.steps \in Nat \ {0}, Supported, sigmas = Derived
  PROVE  /\ sigmas.recipe \in {"dev", "flash", "default"}
         /\ sigmas.count \in req.steps + 1 .. MaxSigmas
         /\ req \in Regular => sigmas = [recipe |-> Recipe(req), count |-> req.steps + 1]
         /\ Solver(req) = "unipc" => req \in Regular
  <1> USE StepsAssumption DEF Supported, Derived
  <1>1. CASE req.scheduler = "default"
    <2>1. req.steps \in 1 .. MaxSigmas - 1 BY <1>1
    <2>2. sigmas = [recipe |-> "default", count |-> req.steps + 1] BY <1>1, <2>1
    <2> QED BY <1>1, <2>1, <2>2 DEF Recipe, Regular, Solver
  <1>2. CASE req.scheduler # "default" /\ (req.steps <= 1 \/ req.steps = DevSteps)
    <2>1. sigmas = [recipe |-> "dev", count |-> DevSteps + 1] BY <1>2
    <2>2. req \in Regular => req.steps = DevSteps BY <1>2 DEF Regular, Solver
    <2>3. Solver(req) # "unipc" BY <1>2 DEF Solver
    <2> QED BY <1>2, <2>1, <2>2, <2>3 DEF Recipe
  <1>3. CASE req.scheduler # "default" /\ ~(req.steps <= 1 \/ req.steps = DevSteps)
    <2>1. req.steps \in 2 .. MaxSigmas - 1 BY <1>3
    <2>2. sigmas = [recipe |-> "flash", count |-> req.steps + 1] BY <1>3, <2>1
    <2>3. Solver(req) # "unipc" BY <1>3 DEF Solver
    <2> QED BY <1>3, <2>1, <2>2, <2>3 DEF Recipe
  <1> QED BY <1>1, <1>2, <1>3

\* What the scheduler holds is the schedule of a regular request.
LEMMA SigmaIsSchedule ==
  ASSUME req \in Regular, req.steps \in Nat \ {0}, Supported, sigmas = Derived,
         NEW k \in Nat
  PROVE  Sigma(k) = Schedule(req, k)
  <1>1. req \in Request BY DEF Regular
  <1>2. sigmas = [recipe |-> Recipe(req), count |-> req.steps + 1] BY <1>1, ScheduleLength
  <1> QED BY <1>2 DEF Sigma, Schedule

\* The plan of a step has the orders of the method.
LEMMA PlanFits ==
  ASSUME IInv, pc = "solve", Solver(req) = "unipc"
  PROVE  /\ req \in Regular /\ i \in Nat /\ i < req.steps /\ req.steps \in Nat \ {0}
         /\ Plan.pred = Order(req, i)
         /\ Plan.corr = IF i = 0 THEN 0 ELSE Order(req, i - 1)
         /\ history.this = Plan.corr
         /\ history.have <=> i > 0
         /\ Plan.corrOld = IF i >= 2 THEN i - 2 ELSE 0
         /\ Plan.predOld = IF i >= 1 THEN i - 1 ELSE 0
         /\ Plan.lower = IF i + 1 < 2 THEN i + 1 ELSE 2
  <1>1. /\ req \in Request /\ req.steps \in Nat \ {0} /\ i \in Nat /\ i < req.steps
        /\ Supported /\ sigmas = Derived
    BY StepsAssumption DEF IInv, TypeOK, LoopPlace, InLoop, Request
  <1>2. req \in Regular /\ sigmas.count = req.steps + 1 BY <1>1, ScheduleLength
  <1>3. /\ history.lower = IF i < 2 THEN i ELSE 2
        /\ history.this = IF i = 0 THEN 0 ELSE Order(req, i - 1)
        /\ history.have <=> i > 0
    BY DEF IInv, HistoryPlace, InLoop, Made
  <1>4. Plan.pred = Order(req, i)
    BY <1>1, <1>2, <1>3 DEF Plan, Trailing, Order
  <1>5. Plan.corr = history.this BY <1>1, <1>3 DEF Plan, Order
  <1>6. Plan.lower = IF i + 1 < 2 THEN i + 1 ELSE 2 BY <1>1, <1>3 DEF Plan
  <1>7. /\ Plan.corrOld = IF i >= 2 THEN i - 2 ELSE 0
        /\ Plan.predOld = IF i >= 1 THEN i - 1 ELSE 0
    BY DEF Plan
  <1> QED BY <1>1, <1>2, <1>3, <1>4, <1>5, <1>6, <1>7

-----------------------------------------------------------------------------
(* The parts of the invariant. *)

\* Nothing has happened: the invariant holds at the start.
LEMMA InitInvariant == Init => IInv
  <1> SUFFICES ASSUME Init PROVE IInv OBVIOUS
  <1>1. TypeOK BY StepsAssumption DEF Init, TypeOK, PC
  <1>2. LoopPlace BY DEF Init, LoopPlace, InLoop, Through
  <1>3. HistoryPlace BY DEF Init, HistoryPlace, InLoop, Through
  <1>4. BufferPlace BY DEF Init, BufferPlace, InLoop, Through
  <1> QED BY <1>1, <1>2, <1>3, <1>4 DEF IInv

\* What holds of a request in the loop.
LEMMA InTheLoop ==
  ASSUME IInv, InLoop \/ Through
  PROVE  /\ req \in Request /\ req.steps \in Nat \ {0} /\ i \in Nat /\ i <= req.steps
         /\ Supported /\ sigmas = Derived /\ req.steps < MaxSigmas
         /\ sigmas.count \in req.steps + 1 .. MaxSigmas
  <1>1. /\ req \in Request /\ req.steps \in Nat \ {0} /\ i \in Nat /\ i <= req.steps
        /\ Supported /\ sigmas = Derived
    BY StepsAssumption DEF IInv, TypeOK, LoopPlace, InLoop, Through, Request
  <1>2. sigmas.count \in req.steps + 1 .. MaxSigmas BY <1>1, ScheduleLength
  <1> QED BY <1>1, <1>2, StepsAssumption

\* A request that is refused keeps all it had.
LEMMA RefuseInvariant == ASSUME IInv, Refuse PROVE IInv'
  <1> USE DEF Refuse, schedVars, unipcVars
  <1>1. TypeOK' BY DEF IInv, TypeOK, PC
  <1>2. LoopPlace' BY DEF LoopPlace, InLoop, Through
  <1>3. HistoryPlace' BY DEF HistoryPlace, InLoop, Through
  <1>4. BufferPlace' BY DEF BufferPlace, InLoop, Through
  <1> QED BY <1>1, <1>2, <1>3, <1>4 DEF IInv

\* The steps of a request that goes on are within the limit.
LEMMA ValidateInvariant == ASSUME IInv, Validate PROVE IInv'
  <1> USE DEF Validate, schedVars, unipcVars
  <1>1. TypeOK' BY DEF IInv, TypeOK, PC
  <1>2. LoopPlace' BY DEF IInv, LoopPlace, InLoop, Through
  <1>3. HistoryPlace' BY DEF IInv, HistoryPlace, InLoop, Through
  <1>4. BufferPlace' BY DEF BufferPlace, InLoop, Through
  <1> QED BY <1>1, <1>2, <1>3, <1>4 DEF IInv

\* The loop starts on the first sample with the schedule derived.
LEMMA PrepareInvariant == ASSUME IInv, Prepare PROVE IInv'
  <1> USE DEF Prepare, unipcVars
  <1>1. req \in Request /\ req.steps \in Nat \ {0} /\ req.steps \in 1 .. StepLimit /\ Supported
    BY StepsAssumption DEF IInv, TypeOK, LoopPlace, Request
  <1>2. TypeOK' BY StepsAssumption DEF IInv, TypeOK, PC, Derived
  <1>3. LoopPlace'
    <2>1. Supported' /\ sigmas' = Derived' BY <1>1 DEF Supported, Derived
    <2> QED BY <1>1, <2>1 DEF IInv, LoopPlace, InLoop, Through, Made, Solver
  <1>4. HistoryPlace' BY DEF IInv, HistoryPlace, InLoop, Through, Made
  <1>5. BufferPlace' BY MethodFollows DEF BufferPlace, InLoop, Through, Made
  <1> QED BY <1>2, <1>3, <1>4, <1>5 DEF IInv

\* The model is run on the sample and the sigma of the step.
LEMMA ForwardInvariant == ASSUME IInv, Forward PROVE IInv'
  <1> USE DEF Forward, schedVars, unipcVars
  <1>1. InLoop BY DEF InLoop
  <1>2. TypeOK' BY DEF IInv, TypeOK, PC
  <1>3. LoopPlace'
    <2>1. Supported' /\ sigmas' = Derived' BY <1>1, InTheLoop DEF Supported, Derived
    <2> QED BY <2>1 DEF IInv, LoopPlace, InLoop, Through, Made, Solver
  <1>4. HistoryPlace' BY DEF IInv, HistoryPlace, InLoop, Through, Made
  <1>5. BufferPlace'
    <2>1. req \in Regular => mo' = ModelOutput(req, Samples(req, i), Schedule(req, i))
      BY <1>1, InTheLoop, SigmaIsSchedule DEF IInv, BufferPlace
    <2> QED BY <2>1 DEF IInv, BufferPlace, InLoop, Through, Made
  <1> QED BY <1>2, <1>3, <1>4, <1>5 DEF IInv

\* The next sample becomes the current one.
LEMMA AdvanceInvariant == ASSUME IInv, Advance PROVE IInv'
  <1> USE DEF Advance, schedVars, unipcVars
  <1>1. InLoop BY DEF InLoop
  <1>2. /\ i \in Nat /\ i < req.steps /\ req.steps \in Nat /\ req.steps < MaxSigmas
        /\ (InLoop \/ Through)'
    BY <1>1, InTheLoop DEF IInv, LoopPlace, InLoop, Through
  <1>3. TypeOK' BY <1>2, StepsAssumption DEF IInv, TypeOK, PC
  <1>4. Made' = Made BY DEF Made
  <1>5. LoopPlace'
    <2>1. Supported' /\ sigmas' = Derived' BY <1>1, InTheLoop DEF Supported, Derived
    <2>2. req'.steps \in 1 .. StepLimit BY DEF IInv, LoopPlace
    <2>3. InLoop' => i' < req'.steps BY <1>2 DEF InLoop
    <2>4. Through' => i' = req'.steps BY <1>2 DEF Through
    <2> QED BY <1>1, <1>4, <2>1, <2>2, <2>3, <2>4 DEF IInv, LoopPlace, Solver
  <1>6. HistoryPlace' BY <1>1, <1>4 DEF IInv, HistoryPlace
  <1>7. BufferPlace' BY <1>1, <1>2, <1>4 DEF IInv, BufferPlace, InLoop, Through
  <1> QED BY <1>3, <1>5, <1>6, <1>7 DEF IInv

\* flow_match makes a step of the Euler method without noise.
LEMMA FlowMatchInvariant == ASSUME IInv, FlowMatch PROVE IInv'
  <1> USE DEF FlowMatch, unipcVars
  <1>1. InLoop BY DEF InLoop
  <1>2. /\ req \in Request /\ req.steps \in Nat \ {0} /\ i \in Nat /\ i < req.steps
        /\ req.steps < MaxSigmas
        /\ Supported /\ sigmas = Derived
    BY <1>1, InTheLoop DEF IInv, LoopPlace
  <1>3. step_index = i /\ draws = 0
    BY <1>1 DEF IInv, LoopPlace, Made
  <1>4. TypeOK' BY <1>2, <1>3, StepsAssumption DEF IInv, TypeOK, PC
  <1>5. LoopPlace'
    <2>1. Supported' /\ sigmas' = Derived' BY <1>2 DEF Supported, Derived
    <2> QED BY <1>2, <1>3, <2>1 DEF IInv, LoopPlace, InLoop, Through, Made, Solver
  <1>6. HistoryPlace' BY DEF HistoryPlace, Solver
  <1>7. BufferPlace'
    <2>1. CASE req \in Regular
      <3>1. z_prev = Samples(req, i) /\ mo = ModelOutput(req, Samples(req, i), Schedule(req, i))
        BY <1>1, <2>1 DEF IInv, BufferPlace
      <3>2. Sigma(i) = Schedule(req, i) /\ Sigma(i + 1) = Schedule(req, i + 1)
        BY <1>2, <2>1, SigmaIsSchedule
      <3>3. EulerFollows(req, i) BY <1>2, <2>1, MethodFollows
      <3>4. z_next' = Samples(req, i + 1) BY <3>1, <3>2, <3>3 DEF EulerFollows
      <3> QED BY <3>1, <3>4 DEF BufferPlace, Solver
    <2>2. CASE req \notin Regular BY <2>2 DEF BufferPlace
    <2> QED BY <2>1, <2>2
  <1> QED BY <1>4, <1>5, <1>6, <1>7 DEF IInv

\* hd_scheduler_step makes one with noise: it is never out of sigmas, and the
\* draw and the sigmas it takes are those of the loop's step.
LEMMA NoisyEulerInvariant == ASSUME IInv, NoisyEuler PROVE IInv'
  <1>1. pc = "solve" /\ Solver(req) = "noisy" /\ InLoop BY DEF InLoop, NoisyEuler
  <1>2. /\ req \in Request /\ req.steps \in Nat \ {0} /\ i \in Nat /\ i < req.steps
        /\ req.steps < MaxSigmas
        /\ Supported /\ sigmas = Derived /\ sigmas.count \in req.steps + 1 .. MaxSigmas
    BY <1>1, InTheLoop DEF IInv, LoopPlace
  <1>3. step_index = i /\ draws = i
    BY <1>1 DEF IInv, LoopPlace, Made
  <1>4. SchedulerStep BY <1>2, <1>3 DEF NoisyEuler
  <1> USE <1>4 DEF SchedulerStep, unipcVars
  <1>5. TypeOK' BY <1>2, <1>3, StepsAssumption DEF IInv, TypeOK, PC
  <1>6. LoopPlace'
    <2>1. Supported' /\ sigmas' = Derived' BY <1>2 DEF Supported, Derived
    <2> QED BY <1>1, <1>2, <1>3, <2>1 DEF IInv, LoopPlace, InLoop, Through, Made, Solver
  <1>7. HistoryPlace' BY <1>1 DEF HistoryPlace, Solver
  <1>8. BufferPlace'
    <2>1. CASE req \in Regular
      <3>1. z_prev = Samples(req, i) /\ mo = ModelOutput(req, Samples(req, i), Schedule(req, i))
        BY <1>1, <2>1 DEF IInv, BufferPlace
      <3>2. Sigma(i) = Schedule(req, i) /\ Sigma(i + 1) = Schedule(req, i + 1)
        BY <1>2, <2>1, SigmaIsSchedule
      <3>3. EulerFollows(req, i) BY <1>1, <1>2, <2>1, MethodFollows
      <3>4. NoiseScale = Scale(i, req.steps) BY <1>1, <2>1 DEF NoiseScale, Regular
      <3>5. z_next' = Samples(req, i + 1) BY <1>1, <1>3, <3>1, <3>2, <3>3, <3>4 DEF EulerFollows
      <3> QED BY <1>1, <3>1, <3>5 DEF BufferPlace, Solver
    <2>2. CASE req \notin Regular BY <2>2 DEF BufferPlace
    <2> QED BY <2>1, <2>2
  <1> QED BY <1>5, <1>6, <1>7, <1>8 DEF IInv

\* What a step of UniPC computes is what the method defines for it.
LEMMA UniPCComputes ==
  ASSUME IInv, UniPC
  PROVE  /\ last' = Corrected(req, i)
         /\ slots'[1] = Converted(req, i)
         /\ i >= 1 => slots'[2] = Converted(req, i - 1)
         /\ z_next' = Samples(req, i + 1)
  <1>1. pc = "solve" /\ Solver(req) = "unipc" /\ InLoop BY DEF UniPC, InLoop
  <1>2. /\ req \in Regular /\ i \in Nat /\ i < req.steps /\ req.steps \in Nat \ {0}
        /\ Plan.pred = Order(req, i)
        /\ Plan.corr = IF i = 0 THEN 0 ELSE Order(req, i - 1)
        /\ history.this = Plan.corr
        /\ history.have <=> i > 0
        /\ Plan.corrOld = IF i >= 2 THEN i - 2 ELSE 0
        /\ Plan.predOld = IF i >= 1 THEN i - 1 ELSE 0
    BY <1>1, PlanFits
  <1>3. /\ z_prev = Samples(req, i)
        /\ mo = ModelOutput(req, Samples(req, i), Schedule(req, i))
        /\ i >= 1 => last = Corrected(req, i - 1) /\ slots[1] = Converted(req, i - 1)
        /\ i >= 2 => slots[2] = Converted(req, i - 2)
    BY <1>1, <1>2 DEF IInv, BufferPlace, Made
  <1>4. Supported /\ sigmas = Derived BY <1>1, InTheLoop
  <1>5. /\ Sigma(i) = Schedule(req, i) /\ Sigma(i + 1) = Schedule(req, i + 1)
        /\ i >= 1 => Sigma(i - 1) = Schedule(req, i - 1)
        /\ i >= 2 => Sigma(i - 2) = Schedule(req, i - 2)
    BY <1>2, <1>4, SigmaIsSchedule
  <1>6. UniPCFollows(req, i) BY <1>1, <1>2, MethodFollows
  <1> DEFINE sample == Upcast(z_prev)
             conv == Convert(sample, mo, Sigma(i))
             corrected ==
               IF ~(i > 0 /\ history.this > 0 /\ history.have) THEN sample
               ELSE IF Plan.corr = 2
               THEN Correct2(last, slots[1], slots[2], conv,
                             Sigma(i), Sigma(i - 1), Sigma(Plan.corrOld))
               ELSE Correct1(last, slots[1], conv, Sigma(i), Sigma(i - 1))
             predicted ==
               IF Plan.pred = 2
               THEN Predict2(corrected, conv, slots[1],
                             Sigma(i + 1), Sigma(i), Sigma(Plan.predOld))
               ELSE Predict1(corrected, conv, Sigma(i + 1), Sigma(i))
  <1>7. last' = corrected /\ z_next' = Round(predicted) /\ slots' = Rotated(conv)
    BY DEF UniPC
  <1>8. conv = Converted(req, i) BY <1>3, <1>5, <1>6 DEF UniPCFollows
  <1>9. corrected = Corrected(req, i)
    <2>1. CASE i = 0 BY <1>3, <1>6, <2>1 DEF UniPCFollows
    <2>2. CASE i > 0 /\ Order(req, i - 1) = 1
      <3>1. corrected = Correct1(last, slots[1], conv, Sigma(i), Sigma(i - 1))
        BY <1>2, <2>2
      <3> QED BY <1>2, <1>3, <1>5, <1>6, <1>8, <2>2, <3>1 DEF UniPCFollows
    <2>3. CASE i > 0 /\ Order(req, i - 1) = 2
      <3>1. i >= 2 BY <1>2, <2>3 DEF Order
      <3>2. corrected = Correct2(last, slots[1], slots[2], conv, Sigma(i), Sigma(i - 1), Sigma(i - 2))
        BY <1>2, <2>3, <3>1
      <3> QED BY <1>2, <1>3, <1>5, <1>6, <1>8, <2>3, <3>1, <3>2 DEF UniPCFollows
    <2> QED BY <1>2, <2>1, <2>2, <2>3 DEF Order
  <1>10. Round(predicted) = Samples(req, i + 1)
    <2>1. CASE Order(req, i) = 1
      <3>1. predicted = Predict1(corrected, conv, Sigma(i + 1), Sigma(i)) BY <1>2, <2>1
      <3> QED BY <1>5, <1>6, <1>8, <1>9, <2>1, <3>1 DEF UniPCFollows
    <2>2. CASE Order(req, i) = 2
      <3>1. i >= 1 BY <1>2, <2>2 DEF Order
      <3>2. predicted = Predict2(corrected, conv, slots[1], Sigma(i + 1), Sigma(i), Sigma(i - 1))
        BY <1>2, <2>2, <3>1
      <3> QED BY <1>2, <1>3, <1>5, <1>6, <1>8, <1>9, <2>2, <3>1, <3>2 DEF UniPCFollows
    <2> QED BY <2>1, <2>2 DEF Order
  <1>11. slots'[1] = conv /\ slots'[2] = slots[1] BY <1>7 DEF Rotated
  <1> HIDE DEF conv, corrected, predicted
  <1> QED BY <1>2, <1>3, <1>7, <1>8, <1>9, <1>10, <1>11

\* A step of UniPC leaves what it computed where the next step looks for it.
LEMMA UniPCInvariant == ASSUME IInv, UniPC PROVE IInv'
  <1>1. pc = "solve" /\ Solver(req) = "unipc" /\ InLoop BY DEF UniPC, InLoop
  <1>2. /\ req \in Request /\ req.steps \in Nat \ {0} /\ i \in Nat /\ i < req.steps
        /\ req.steps < MaxSigmas /\ Supported /\ sigmas = Derived
    BY <1>1, InTheLoop DEF IInv, LoopPlace
  <1>3. /\ req \in Regular /\ Plan.pred = Order(req, i)
        /\ Plan.lower = IF i + 1 < 2 THEN i + 1 ELSE 2
    BY <1>1, PlanFits
  <1>4. /\ pc' = "advance" /\ history' = [this |-> Plan.pred, lower |-> Plan.lower, have |-> TRUE]
        /\ UNCHANGED <<req, sigmas, step_index, i, z_prev, mo, draws>>
        /\ DOMAIN scratch' = 1 .. 3 /\ DOMAIN slots' = 0 .. 2
    BY DEF UniPC, Rotated, schedVars
  <1>5. TypeOK'
    <2>1. Plan.pred \in 0 .. 2 /\ Plan.lower \in 0 .. 2 BY <1>2, <1>3 DEF Order
    <2> QED BY <1>4, <2>1 DEF IInv, TypeOK, PC
  <1>6. LoopPlace'
    <2>1. Supported' /\ sigmas' = Derived' BY <1>2, <1>4 DEF Supported, Derived
    <2> QED BY <1>1, <1>2, <1>4, <2>1 DEF IInv, LoopPlace, InLoop, Through, Made, Solver
  <1>7. HistoryPlace'
    <2>1. Made' = i + 1 /\ Made' > 0 /\ Made' - 1 = i BY <1>2, <1>4 DEF Made
    <2> QED BY <1>3, <1>4, <2>1 DEF HistoryPlace, InLoop, Through, Order
  <1>8. BufferPlace'
    <2>1. Made' = i + 1 /\ Made' - 1 = i /\ Made' - 2 = i - 1 /\ (Made' >= 2 => i >= 1)
      BY <1>2, <1>4 DEF Made
    <2>2. z_prev = Samples(req, i) BY <1>1, <1>3 DEF IInv, BufferPlace
    <2> QED BY <1>3, <1>4, <2>1, <2>2, UniPCComputes DEF BufferPlace
  <1> QED BY <1>5, <1>6, <1>7, <1>8 DEF IInv

\* The invariant is inductive.
LEMMA NextInvariant == IInv /\ [Next]_vars => IInv'
  <1> SUFFICES ASSUME IInv, [Next]_vars PROVE IInv' OBVIOUS
  <1>1. CASE Validate BY <1>1, ValidateInvariant
  <1>2. CASE Prepare BY <1>2, PrepareInvariant
  <1>3. CASE Forward BY <1>3, ForwardInvariant
  <1>4. CASE UniPC BY <1>4, UniPCInvariant
  <1>5. CASE NoisyEuler BY <1>5, NoisyEulerInvariant
  <1>6. CASE FlowMatch BY <1>6, FlowMatchInvariant
  <1>7. CASE Advance BY <1>7, AdvanceInvariant
  <1>8. CASE ValidateFails \/ PrepareFails \/ ForwardFails \/ Reject
    BY <1>8, RefuseInvariant DEF ValidateFails, PrepareFails, ForwardFails, Reject
  <1>9. CASE Decode
    <2> USE <1>9 DEF Decode, schedVars, unipcVars
    <2>1. TypeOK' BY DEF IInv, TypeOK, PC
    <2>2. LoopPlace'
      <3>1. Supported' /\ sigmas' = Derived' BY InTheLoop DEF Supported, Derived, Through
      <3> QED BY <3>1 DEF IInv, LoopPlace, InLoop, Through, Made, Solver
    <2>3. HistoryPlace' BY DEF IInv, HistoryPlace, InLoop, Through, Made
    <2>4. BufferPlace' BY DEF IInv, BufferPlace, InLoop, Through, Made
    <2> QED BY <2>1, <2>2, <2>3, <2>4 DEF IInv
  <1>10. CASE UNCHANGED vars
    BY <1>10 DEF vars, schedVars, unipcVars, IInv, TypeOK, LoopPlace, HistoryPlace, BufferPlace,
       InLoop, Through, Made, Supported, Derived
  <1> QED BY <1>1, <1>2, <1>3, <1>4, <1>5, <1>6, <1>7, <1>8, <1>9, <1>10 DEF Next

\* The inductive invariant holds in every reachable state.
THEOREM Invariance == Spec => []IInv
  <1> QED BY InitInvariant, NextInvariant, PTL DEF Spec

-----------------------------------------------------------------------------
(* The properties. *)

\* The control variables keep their types.
THEOREM TypeCorrect == Spec => []TypeOK
  <1>1. IInv => TypeOK BY DEF IInv
  <1> QED BY <1>1, Invariance, PTL

\* What the loop computes in place is the method, for every length of the
\* schedule, every number of steps and whatever arithmetic the kernels do.
THEOREM LoopComputesMethod == Spec => []SampleFollowsMethod
  <1>1. IInv => SampleFollowsMethod BY DEF IInv, BufferPlace, SampleFollowsMethod
  <1> QED BY <1>1, Invariance, PTL

\* A second-order formula always has its history and never meets the zero.
THEOREM SecondOrderIsSafe == Spec => []SecondOrderFits
  <1>1. IInv => SecondOrderFits
    <2> SUFFICES ASSUME IInv, pc = "solve", Solver(req) = "unipc"
                 PROVE  /\ i < Trailing
                        /\ Plan.pred = 2 => i >= 1 /\ i + 1 < Trailing
                        /\ Plan.corr = 2 => i >= 2
                        /\ i > 0 <=> Plan.corr > 0 /\ history.have
      BY DEF SecondOrderFits
    <2>1. /\ req \in Regular /\ i \in Nat /\ i < req.steps /\ req.steps \in Nat \ {0}
          /\ Plan.pred = Order(req, i)
          /\ Plan.corr = IF i = 0 THEN 0 ELSE Order(req, i - 1)
          /\ history.have <=> i > 0
      BY PlanFits
    <2>2. req \in Request /\ Supported /\ sigmas = Derived BY InTheLoop DEF InLoop
    <2>3. Trailing = req.steps BY <2>1, <2>2, ScheduleLength DEF Trailing
    <2>4. i < Trailing BY <2>1, <2>3
    <2>5. Order(req, i) = 2 => i >= 1 /\ i + 1 < Trailing BY <2>1, <2>3 DEF Order
    <2>6. i > 0 /\ Order(req, i - 1) = 2 => i >= 2 BY <2>1 DEF Order
    <2>7. i > 0 => Order(req, i - 1) > 0 BY DEF Order
    <2> QED BY <2>1, <2>4, <2>5, <2>6, <2>7
  <1> QED BY <1>1, Invariance, PTL

\* The loop, the scheduler and the step generator keep pace, never run out of
\* sigmas, and end at the trailing zero.
THEOREM KeepsPace == Spec => []SchedulerKeepsPace
  <1>1. IInv => SchedulerKeepsPace
    <2> SUFFICES ASSUME IInv PROVE SchedulerKeepsPace OBVIOUS
    <2>1. InLoop => draws = (IF Solver(req) = "noisy" THEN step_index ELSE 0)
      BY DEF IInv, LoopPlace, Solver
    <2>2. InLoop /\ Solver(req) # "unipc" =>
            step_index = (IF pc = "advance" THEN i + 1 ELSE i) /\ step_index < sigmas.count
      BY InTheLoop DEF IInv, LoopPlace, Made
    <2>3. pc = "solve" => i < Trailing
      <3> SUFFICES ASSUME pc = "solve" PROVE i < Trailing OBVIOUS
      <3>1. /\ req \in Request /\ req.steps \in Nat \ {0} /\ i \in Nat /\ Supported
            /\ sigmas = Derived /\ sigmas.count \in req.steps + 1 .. MaxSigmas
        BY InTheLoop DEF InLoop
      <3>2. i < req.steps BY DEF IInv, LoopPlace, InLoop
      <3> QED BY <3>1, <3>2 DEF Trailing
    <2>4. Through /\ req \in Regular => i = Trailing
      <3> SUFFICES ASSUME Through, req \in Regular PROVE i = Trailing OBVIOUS
      <3>1. req.steps \in Nat \ {0} /\ req \in Request /\ Supported /\ sigmas = Derived
        BY InTheLoop
      <3>2. i = req.steps BY DEF IInv, LoopPlace
      <3>3. sigmas.count = req.steps + 1 BY <3>1, ScheduleLength
      <3> QED BY <3>1, <3>2, <3>3 DEF Trailing
    <2> QED BY <2>1, <2>2, <2>3, <2>4 DEF SchedulerKeepsPace
  <1> QED BY <1>1, Invariance, PTL

\* Every step has the values it needs.
THEOREM StepsAreFitted == Spec => []StepsFitSchedule
  <1>1. SecondOrderFits /\ SchedulerKeepsPace => StepsFitSchedule BY DEF StepsFitSchedule
  <1> QED BY <1>1, SecondOrderIsSafe, KeepsPace, PTL

=============================================================================
