------------------------- MODULE AnnotationsProofs -------------------------
(***************************************************************************)
(* Machine-checked facts about the annotations, for every module, every    *)
(* file and every percentage: the creator picks no function twice, the     *)
(* file it writes comes back as it was meant, and of entries for one       *)
(* function under one annotation the first is kept.                        *)
(*                                                                         *)
(* The functions picked are those swapped to the end of the shuffled list, *)
(* in the order from there.  The list of entries is the one FlattenSeq     *)
(* makes of the items of a file, which is a sequence by induction; the     *)
(* parser has always gone through a beginning of it.                       *)
(***************************************************************************)
EXTENDS Annotations, FiniteSetTheorems, WellFoundedInduction, TLAPS

(***************************************************************************)
(* Induction over the subsets of a finite set, for a set P of subsets.     *)
(***************************************************************************)
LEMMA SubsetInduction ==
  ASSUME NEW S, IsFiniteSet(S), NEW P,
         \A T \in SUBSET S : (\A U \in SUBSET T : U # T => U \in P) => T \in P
  PROVE  \A T \in SUBSET S : T \in P
<1> DEFINE Others == {T \in SUBSET S : T \notin P}
<1> DEFINE R == StrictSubsetOrdering(S)
<1> SUFFICES ASSUME Others # {} PROVE FALSE
  OBVIOUS
<1>1. IsWellFoundedOn(R, SUBSET S)
  <2>1. FiniteSubsetsOf(S) = SUBSET S
    BY FS_FiniteSubsetsOfFinite, Zenon
  <2>2. IsWellFoundedOn(StrictSubsetOrdering(S), FiniteSubsetsOf(S))
    BY FS_StrictSubsetOrderingWellFounded, Zenon
  <2>3. QED BY <2>1, <2>2
<1>2. PICK T \in Others : \A U \in Others : ~(<<U, T>> \in R)
  <2>1. Others \subseteq SUBSET S
    OBVIOUS
  <2> HIDE DEF Others, R
  <2> QED BY <1>1, <2>1, WFMin
<1>3. ASSUME NEW U \in SUBSET T, U # T PROVE U \in P
  <2>1. <<U, T>> \in R
    BY <1>2, <1>3 DEF StrictSubsetOrdering
  <2>2. QED BY <1>2, <2>1
<1>4. QED BY <1>2, <1>3

(***************************************************************************)
(* From it, induction along the places of a sequence.                      *)
(***************************************************************************)
LEMMA PlaceInduction ==
  ASSUME NEW n \in Nat, NEW P,
         \A i \in 1 .. n : (i > 1 => i - 1 \in P) => i \in P
  PROVE  \A i \in 1 .. n : i \in P
<1> DEFINE I == 1 .. n
           Q == {T \in SUBSET I : T = {} \/ \E least \in T : \A k \in T : least <= k}
<1>1. IsFiniteSet(I)
  BY FS_Interval
<1>2. ASSUME NEW T \in SUBSET I, \A U \in SUBSET T : U # T => U \in Q
      PROVE  T \in Q
  <2>1. CASE T = {}
    BY <2>1
  <2>2. ASSUME NEW x \in T PROVE T \in Q
    <3> DEFINE U == T \ {x}
    <3>1. U \in Q
      BY <1>2, <2>2
    <3>2. x \in Int /\ \A k \in U : k \in Int
      BY <2>2
    <3>3. T = U \cup {x}
      BY <2>2
    <3>4. \E least \in T : \A k \in T : least <= k
      <4>1. CASE U = {}
        BY <3>2, <3>3, <4>1
      <4>2. ASSUME NEW m \in U, \A k \in U : m <= k
            PROVE  \E least \in T : \A k \in T : least <= k
        <5>1. m \in Int /\ m \in T /\ x \in T
          BY <3>2, <3>3, <4>2
        <5> HIDE DEF U
        <5>2. CASE m <= x
          BY <3>2, <3>3, <4>2, <5>1, <5>2
        <5>3. CASE x <= m
          BY <3>2, <3>3, <4>2, <5>1, <5>3
        <5>4. QED BY <3>2, <5>1, <5>2, <5>3
      <4>3. QED BY <3>1, <4>1, <4>2
    <3>5. QED BY <3>4
  <2>3. QED BY <2>1, <2>2
<1>3. \A T \in SUBSET I : T \in Q
  <2> HIDE DEF I, Q
  <2> QED BY <1>1, <1>2, SubsetInduction
<1> DEFINE Others == {i \in I : i \notin P}
<1>4. Others \in Q
  BY <1>3
<1> SUFFICES ASSUME Others # {} PROVE FALSE
  OBVIOUS
<1>5. PICK least \in Others : \A k \in Others : least <= k
  BY <1>4
<1>6. least > 1 => least - 1 \in P
  BY <1>5
<1>7. QED BY <1>5, <1>6

-----------------------------------------------------------------------------
(***************************************************************************)
(* FlattenSeq picks a solution of its recursion; there is one, and its     *)
(* values are sequences of what the sequences to put together consist of.  *)
(***************************************************************************)
FlattenStep(seqs, flatten, i) == IF i = 1 THEN seqs[i] ELSE flatten[i - 1] \o seqs[i]

IsFlatten(seqs, flatten) ==
  flatten = [i \in 1 .. Len(seqs) |-> FlattenStep(seqs, flatten, i)]

LEMMA FlattenExists ==
  ASSUME NEW V, NEW seqs \in Seq(Seq(V))
  PROVE  \E flatten : IsFlatten(seqs, flatten)
<1> DEFINE n == Len(seqs)
           Partial(flatten, m) ==
             \A i \in 1 .. m : flatten[i] = FlattenStep(seqs, flatten, i)
           P == {m \in 1 .. n : \E flatten \in [1 .. m -> Seq(V)] : Partial(flatten, m)}
<1>1. n \in Nat /\ \A i \in 1 .. n : seqs[i] \in Seq(V)
  OBVIOUS
<1>2. ASSUME NEW m \in 1 .. n, m > 1 => m - 1 \in P
      PROVE  m \in P
  <2>1. CASE m = 1
    <3> DEFINE f == [i \in 1 .. 1 |-> seqs[1]]
    <3>1. f \in [1 .. 1 -> Seq(V)] /\ Partial(f, 1)
      BY <1>1, <2>1 DEF FlattenStep
    <3>2. QED BY <2>1, <3>1
  <2>2. CASE m > 1
    <3>1. PICK g \in [1 .. m - 1 -> Seq(V)] : Partial(g, m - 1)
      BY <1>2, <2>2
    <3> DEFINE f == [i \in 1 .. m |-> IF i = m THEN g[m - 1] \o seqs[m] ELSE g[i]]
    <3>2. f \in [1 .. m -> Seq(V)]
      <4>1. g[m - 1] \in Seq(V) /\ seqs[m] \in Seq(V)
        BY <1>1, <2>2, <3>1
      <4>2. g[m - 1] \o seqs[m] \in Seq(V)
        BY <4>1
      <4>3. QED BY <3>1, <4>2
    <3>3. ASSUME NEW i \in 1 .. m PROVE f[i] = FlattenStep(seqs, f, i)
      <4>1. CASE i = m
        <5>1. m \in 1 .. m /\ m - 1 \in 1 .. m /\ m - 1 # m /\ m # 1
          BY <2>2
        <5>2. f[m] = g[m - 1] \o seqs[m]
          BY <5>1
        <5>3. f[m - 1] = g[m - 1]
          BY <5>1
        <5> HIDE DEF f
        <5>4. FlattenStep(seqs, f, m) = f[m - 1] \o seqs[m]
          BY <5>1 DEF FlattenStep
        <5>5. QED BY <4>1, <5>2, <5>3, <5>4
      <4>2. CASE i # m
        <5>1. i \in 1 .. m - 1 /\ f[i] = g[i]
          BY <4>2
        <5>2. g[i] = FlattenStep(seqs, g, i)
          BY <3>1, <5>1
        <5>3. i > 1 => f[i - 1] = g[i - 1]
          BY <5>1
        <5>4. QED BY <5>1, <5>2, <5>3 DEF FlattenStep
      <4>3. QED BY <4>1, <4>2
    <3> HIDE DEF f
    <3>4. QED BY <3>2, <3>3
  <2>3. m = 1 \/ m > 1
    BY <1>1
  <2>4. QED BY <2>1, <2>2, <2>3
<1>3. CASE n = 0
  <2> DEFINE f == [i \in 1 .. 0 |-> seqs]
  <2>1. f = [i \in 1 .. 0 |-> FlattenStep(seqs, f, i)]
    OBVIOUS
  <2> HIDE DEF f
  <2>2. QED BY <1>3, <2>1 DEF IsFlatten
<1>4. CASE n > 0
  <2>1. \A i \in 1 .. n : i \in P
    <3> HIDE DEF n, P
    <3> QED BY <1>1, <1>2, PlaceInduction
  <2>2. n \in 1 .. n
    BY <1>1, <1>4
  <2>3. PICK f \in [1 .. n -> Seq(V)] : Partial(f, n)
    BY <2>1, <2>2
  <2>4. f = [i \in 1 .. n |-> FlattenStep(seqs, f, i)]
    BY <2>3
  <2>5. QED BY <2>4 DEF IsFlatten
<1>5. QED BY <1>1, <1>3, <1>4

LEMMA FlattenIsSequence ==
  ASSUME NEW V, NEW seqs \in Seq(Seq(V))
  PROVE  FlattenSeq(seqs) \in Seq(V)
<1> DEFINE flatten == CHOOSE f : IsFlatten(seqs, f)
           n == Len(seqs)
           P == {i \in 1 .. n : flatten[i] \in Seq(V)}
<1>1. IsFlatten(seqs, flatten)
  BY FlattenExists
<1>2. n \in Nat /\ \A i \in 1 .. n : seqs[i] \in Seq(V)
  OBVIOUS
<1>3. FlattenSeq(seqs) = IF n = 0 THEN seqs ELSE flatten[n]
  BY DEF FlattenSeq, IsFlatten, FlattenStep
<1> HIDE DEF flatten
<1>4. ASSUME NEW i \in 1 .. n, i > 1 => i - 1 \in P
      PROVE  i \in P
  <2>1. flatten[i] = FlattenStep(seqs, flatten, i)
    BY <1>1 DEF IsFlatten
  <2>2. flatten[i] \in Seq(V)
    <3>1. CASE i = 1
      BY <1>2, <2>1, <3>1 DEF FlattenStep
    <3>2. CASE i > 1
      <4>1. flatten[i - 1] \in Seq(V) /\ seqs[i] \in Seq(V)
        BY <1>2, <1>4, <3>2
      <4>2. flatten[i - 1] \o seqs[i] \in Seq(V)
        BY <4>1
      <4>3. QED BY <2>1, <3>2, <4>2 DEF FlattenStep
    <3>3. QED BY <3>1, <3>2
  <2>3. QED BY <2>2
<1>5. \A i \in 1 .. n : i \in P
  <2> HIDE DEF n, P
  <2> QED BY <1>2, <1>4, PlaceInduction
<1>6. CASE n = 0
  <2>1. seqs = << >>
    BY <1>6
  <2>2. QED BY <1>3, <1>6, <2>1
<1>7. CASE n > 0
  BY <1>2, <1>3, <1>5, <1>7
<1>8. QED BY <1>2, <1>6, <1>7

\* One sequence is put together to itself.
LEMMA FlattenOne ==
  ASSUME NEW V, NEW seqs \in Seq(Seq(V)), Len(seqs) = 1
  PROVE  FlattenSeq(seqs) = seqs[1]
<1> DEFINE flatten == CHOOSE f : IsFlatten(seqs, f)
<1>1. IsFlatten(seqs, flatten)
  BY FlattenExists
<1>2. FlattenSeq(seqs) = flatten[1]
  BY DEF FlattenSeq, IsFlatten, FlattenStep
<1> HIDE DEF flatten
<1>3. QED BY <1>1, <1>2 DEF IsFlatten, FlattenStep

-----------------------------------------------------------------------------
(***************************************************************************)
(* Picking                                                                 *)
(*                                                                         *)
(* The list of all functions stays an arrangement of the candidates; those *)
(* picked are at its end, the first one last.                              *)
(***************************************************************************)
Drawn ==
  /\ allFunctions \in SetToSeqs(Candidates)
  /\ count \in Nat
  /\ Len(picked) + count = Cardinality(Candidates)
  /\ \A k \in 1 .. Len(picked) : picked[k] = allFunctions[Cardinality(Candidates) + 1 - k]

PickInv ==
  /\ module \in Modules
  /\ picked \in Seq(Candidates)
  /\ pc = "start" => picked = << >>
  /\ (allFunctions = << >> /\ count = 0) \/ Drawn

LEMMA CandidatesFinite ==
  ASSUME module \in Modules
  PROVE  IsFiniteSet(Candidates) /\ Cardinality(Candidates) \in Nat
BY FilesAssumption, FS_Subset, FS_CardinalityType DEF Candidates

(***************************************************************************)
(* An arrangement of a finite set has all of its elements, and is one      *)
(* still after two places are swapped.                                     *)
(***************************************************************************)
LEMMA ArrangementHasAll ==
  ASSUME NEW S, IsFiniteSet(S), NEW s \in SetToSeqs(S)
  PROVE  \A x \in S : \E k \in 1 .. Cardinality(S) : s[k] = x
<1> DEFINE n == Cardinality(S)
           I == 1 .. n
<1>1. n \in Nat
  BY FS_CardinalityType
<1>2. Cardinality(I) = n
  BY <1>1, FS_Interval
<1>3. s \in [I -> S] /\ \A j, k \in I : s[j] = s[k] => j = k
  BY DEF SetToSeqs
<1> HIDE DEF n, I
<1>4. s \in Injection(I, S)
  <2>1. \A j, k \in DOMAIN s : s[j] = s[k] => j = k
    BY <1>3
  <2>2. QED BY <1>3, <2>1 DEF Injection, IsInjective
<1>5. s \in Surjection(I, S)
  <2>1. Cardinality(I) = Cardinality(S)
    BY <1>2 DEF n
  <2>2. QED BY <1>4, <2>1, FS_Injection
<1>6. QED BY <1>5 DEF Surjection, I, n

LEMMA SwappedArrangement ==
  ASSUME NEW S, NEW s \in SetToSeqs(S),
         NEW j \in 1 .. Cardinality(S), NEW k \in 1 .. Cardinality(S)
  PROVE  /\ Swapped(s, j, k) \in SetToSeqs(S)
         /\ Swapped(s, j, k)[k] = s[j]
         /\ \A i \in (1 .. Cardinality(S)) \ {j, k} : Swapped(s, j, k)[i] = s[i]
<1> DEFINE I == 1 .. Cardinality(S)
           t == Swapped(s, j, k)
           from(i) == IF i = k THEN j ELSE IF i = j THEN k ELSE i
<1>1. s \in [I -> S] /\ \A a, b \in I : a # b => s[a] # s[b]
  BY DEF SetToSeqs
<1> HIDE DEF I
<1>2. j \in I /\ k \in I
  BY DEF I
<1>3. t \in [I -> S] /\ \A i \in I : t[i] = s[from(i)]
  BY <1>1, <1>2 DEF Swapped
<1>4. \A i \in I : from(i) \in I
  BY <1>2
<1>5. \A a, b \in I : a # b => from(a) # from(b)
  OBVIOUS
<1> HIDE DEF t
<1>6. \A a, b \in I : a # b => t[a] # t[b]
  <2> HIDE DEF from
  <2> QED BY <1>1, <1>3, <1>4, <1>5
<1>7. t \in SetToSeqs(S)
  BY <1>3, <1>6 DEF SetToSeqs, I
<1>8. QED BY <1>2, <1>3, <1>7 DEF I, t

LEMMA PickInvPicks == PickInv => PickedOnce
<1> SUFFICES ASSUME PickInv, allFunctions # << >>
             PROVE  /\ IsInjective(picked)
                    /\ Len(picked) + count = Cardinality(Candidates)
                    /\ ToSet(picked) \cup {allFunctions[k] : k \in 1 .. count} = Candidates
  BY DEF PickedOnce
<1> DEFINE n == Cardinality(Candidates)
           m == Len(picked)
<1>1. n \in Nat /\ IsFiniteSet(Candidates)
  BY CandidatesFinite DEF PickInv
<1>2. /\ picked \in Seq(Candidates) /\ allFunctions \in SetToSeqs(Candidates)
      /\ count \in Nat /\ m + count = n
      /\ \A k \in 1 .. m : picked[k] = allFunctions[n + 1 - k]
  BY DEF PickInv, Drawn
<1>3. m \in Nat /\ DOMAIN picked = 1 .. m
  BY <1>2
<1>4. /\ allFunctions \in [1 .. n -> Candidates]
      /\ \A a, b \in 1 .. n : a # b => allFunctions[a] # allFunctions[b]
  BY <1>2 DEF SetToSeqs
<1>5. \A x \in Candidates : \E k \in 1 .. n : allFunctions[k] = x
  BY <1>1, <1>2, ArrangementHasAll
<1> HIDE DEF n, m
<1>6. \A k \in 1 .. m : n + 1 - k \in 1 .. n
  BY <1>1, <1>2, <1>3
<1>7. IsInjective(picked)
  <2>1. ASSUME NEW a \in 1 .. m, NEW b \in 1 .. m, a # b
        PROVE  picked[a] # picked[b]
    <3>1. n + 1 - a # n + 1 - b
      BY <1>1, <2>1
    <3>2. QED BY <1>2, <1>4, <1>6, <2>1, <3>1
  <2>2. QED BY <1>3, <2>1 DEF IsInjective
<1>8. ASSUME NEW x \in Candidates
      PROVE  x \in ToSet(picked) \cup {allFunctions[k] : k \in 1 .. count}
  <2>1. PICK k \in 1 .. n : allFunctions[k] = x
    BY <1>5
  <2>2. CASE k <= count
    <3>1. k \in 1 .. count
      BY <1>2, <2>2
    <3>2. QED BY <2>1, <3>1
  <2>3. CASE k > count
    <3>1. n + 1 - k \in 1 .. m /\ n + 1 - (n + 1 - k) = k
      BY <1>1, <1>2, <1>3, <2>3
    <3>2. picked[n + 1 - k] = x
      BY <1>2, <2>1, <3>1
    <3>3. QED BY <1>3, <3>1, <3>2 DEF ToSet
  <2>4. QED BY <1>2, <2>2, <2>3
<1>9. \A k \in 1 .. count : allFunctions[k] \in Candidates
  <2>1. \A k \in 1 .. count : k \in 1 .. n
    BY <1>1, <1>2, <1>3
  <2>2. QED BY <1>4, <2>1
<1>10. ToSet(picked) \subseteq Candidates
  BY <1>2 DEF ToSet
<1>11. QED BY <1>2, <1>7, <1>8, <1>9, <1>10 DEF n, m

LEMMA PickKeeps ==
  ASSUME PickInv, NEW idx, Pick(idx)
  PROVE  PickInv'
<1> DEFINE n == Cardinality(Candidates)
           m == Len(picked)
           all == Swapped(allFunctions, idx, count)
<1>1. /\ pc = "pick" /\ pc' = pc /\ module' = module
      /\ idx \in 1 .. count
      /\ picked' = Append(picked, allFunctions[idx])
      /\ allFunctions' = all /\ count' = count - 1
  BY DEF Pick
<1>2. n \in Nat /\ Candidates' = Candidates
  BY <1>1, CandidatesFinite DEF PickInv, Candidates
<1>3. Drawn
  BY <1>1 DEF PickInv
<1>4. /\ picked \in Seq(Candidates) /\ m \in Nat
      /\ allFunctions \in SetToSeqs(Candidates)
      /\ count \in Nat /\ m + count = n
      /\ \A k \in 1 .. m : picked[k] = allFunctions[n + 1 - k]
  BY <1>3 DEF PickInv, Drawn
<1>5. idx \in 1 .. n /\ count \in 1 .. n /\ count - 1 \in Nat
  <2> HIDE DEF n, m
  <2> QED BY <1>1, <1>2, <1>4
<1>6. /\ all \in SetToSeqs(Candidates) /\ all[count] = allFunctions[idx]
      /\ \A i \in (1 .. n) \ {idx, count} : all[i] = allFunctions[i]
  BY <1>4, <1>5, SwappedArrangement
<1>7. allFunctions[idx] \in Candidates
  BY <1>4, <1>5 DEF SetToSeqs
<1>8. /\ picked' \in Seq(Candidates) /\ Len(picked') = m + 1
      /\ picked'[m + 1] = allFunctions[idx] /\ \A k \in 1 .. m : picked'[k] = picked[k]
  BY <1>1, <1>4, <1>7
<1> HIDE DEF n, m, all
<1>9. ASSUME NEW k \in 1 .. m + 1
      PROVE  picked'[k] = all[n + 1 - k]
  <2>1. CASE k = m + 1
    <3>1. n + 1 - k = count
      BY <1>1, <1>2, <1>4, <2>1
    <3>2. QED BY <1>6, <1>8, <2>1, <3>1
  <2>2. CASE k # m + 1
    <3>1. k \in 1 .. m
      BY <1>4, <2>2
    <3>2. n + 1 - k \in 1 .. n /\ n + 1 - k > count
      BY <1>1, <1>2, <1>4, <3>1
    <3>3. n + 1 - k # idx /\ n + 1 - k # count
      BY <1>1, <1>4, <3>2
    <3>4. all[n + 1 - k] = allFunctions[n + 1 - k]
      BY <1>6, <3>2, <3>3
    <3>5. QED BY <1>4, <1>8, <3>1, <3>4
  <2>3. QED BY <2>1, <2>2
<1>10. m + 1 + (count - 1) = n
  BY <1>1, <1>4
<1>11. Drawn'
  BY <1>1, <1>2, <1>5, <1>6, <1>8, <1>9, <1>10 DEF Drawn, n
<1>12. QED BY <1>1, <1>2, <1>8, <1>11 DEF PickInv

LEMMA ShuffleKeeps ==
  ASSUME PickInv, NEW percentage, Shuffle(percentage)
  PROVE  PickInv'
<1>1. /\ pc = "start" /\ pc' = "pick" /\ module' = module /\ picked' = picked
      /\ picked = << >>
  BY DEF Shuffle, PickInv
<1>2. Candidates' = Candidates /\ Cardinality(Candidates) \in Nat
  BY <1>1, CandidatesFinite DEF PickInv, Candidates
<1>3. CASE percentage = 0
  <2>1. allFunctions' = allFunctions /\ count' = count
    BY <1>3 DEF Shuffle
  <2>2. Drawn <=> Drawn'
    BY <1>1, <1>2, <2>1 DEF Drawn
  <2>3. QED BY <1>1, <1>2, <2>1, <2>2 DEF PickInv
<1>4. CASE percentage # 0
  <2>1. allFunctions' \in SetToSeqs(Candidates) /\ count' = Len(allFunctions')
    BY <1>4 DEF Shuffle
  <2>2. allFunctions' \in [1 .. Cardinality(Candidates) -> Candidates]
    BY <2>1 DEF SetToSeqs
  <2>3. Len(allFunctions') = Cardinality(Candidates)
    <3> DEFINE n == Cardinality(Candidates)
               s == allFunctions'
    <3>1. n \in Nat /\ s \in [1 .. n -> Candidates]
      BY <1>2, <2>2
    <3> HIDE DEF n, s
    <3>2. s \in Seq(Candidates) /\ DOMAIN s = 1 .. n
      BY <3>1
    <3>3. Len(s) = n
      BY <3>1, <3>2
    <3>4. QED BY <3>3 DEF n, s
  <2>4. Len(picked') = 0
    BY <1>1
  <2>5. 0 + count' = Cardinality(Candidates) /\ count' \in Nat /\ 1 .. 0 = {}
    BY <1>2, <2>1, <2>3
  <2>6. Drawn'
    BY <1>2, <2>1, <2>4, <2>5 DEF Drawn
  <2>7. QED BY <1>1, <1>2, <2>6 DEF PickInv
<1>5. QED BY <1>3, <1>4

LEMMA PickInvInit == Init => PickInv
BY DEF Init, PickInv

LEMMA PickInvStep == PickInv /\ [Next]_vars => PickInv'
<1> SUFFICES ASSUME PickInv, [Next]_vars PROVE PickInv'
  OBVIOUS
<1>1. ASSUME UNCHANGED <<module, allFunctions, count, picked>>, pc' # "start" \/ pc' = pc
      PROVE  PickInv'
  BY <1>1 DEF PickInv, Drawn, Candidates
<1>2. ASSUME NEW percentage, Shuffle(percentage) PROVE PickInv'
  BY <1>2, ShuffleKeeps
<1>3. ASSUME NEW idx, Pick(idx) PROVE PickInv'
  BY <1>3, PickKeeps
<1>4. CASE PickFromNone \/ DumpAnnotationFile
  BY <1>1, <1>4 DEF PickFromNone, DumpAnnotationFile, creator
<1>5. CASE OpenFile \/ ReadModule \/ ParseEntry \/ Finish \/ \E f \in Files \cup {NoFile} : GiveFile(f)
  BY <1>1, <1>5 DEF OpenFile, ReadModule, ParseEntry, Finish, GiveFile, creator
<1>6. CASE UNCHANGED vars
  BY <1>1, <1>6 DEF vars, creator
<1>7. QED BY <1>2, <1>3, <1>4, <1>5, <1>6 DEF Next

(***************************************************************************)
(* For every module, every percentage and every way the functions are      *)
(* shuffled and drawn: no function is picked twice, and those picked and   *)
(* those that can still be chosen are together all candidates              *)
(* (pickFunctions swaps what it has picked out of reach).                  *)
(***************************************************************************)
THEOREM FunctionsPickedOnce == Spec => []PickedOnce
<1>1. Spec => []PickInv
  BY PickInvInit, PickInvStep, PTL DEF Spec
<1>2. QED BY <1>1, PickInvPicks, PTL

-----------------------------------------------------------------------------
(***************************************************************************)
(* Parsing                                                                 *)
(*                                                                         *)
(* A file is a sequence of items with sequences of functions, whether      *)
(* written by hand or created, and its entries are a sequence as well.     *)
(***************************************************************************)
\* That a given string is in STRING is nothing the provers know.
AnnotationNames == STRING \cup {"sensitive"}

ItemOf(E) == [annotation : AnnotationNames, functions : Seq(E)]
FileOf(E) == Seq(ItemOf(E))

EntryOf(annotation, element) ==
  [annotation |-> annotation, on |-> element.function,
   arguments |-> element.arguments, return |-> element.return]

EntriesOf(E) == {EntryOf(a, e) : a \in AnnotationNames, e \in E}

CreatedItem ==
  [annotation |-> "sensitive", functions |-> [k \in DOMAIN picked |-> FileElement(picked[k])]]

ElementsWritten == {FileElement(f) : f \in Candidates}

LEMMA ItemEntriesListed ==
  ASSUME NEW E, NEW item \in ItemOf(E)
  PROVE  ItemEntries(item) \in Seq(EntriesOf(E))
<1> DEFINE n == Len(item.functions)
<1>1. /\ item.functions \in Seq(E) /\ item.annotation \in AnnotationNames
      /\ n \in Nat /\ DOMAIN item.functions = 1 .. n
  BY DEF ItemOf
<1>2. \A k \in 1 .. n : item.functions[k] \in E
  BY <1>1
<1>3. ItemEntries(item) = [k \in 1 .. n |-> EntryOf(item.annotation, item.functions[k])]
  BY <1>1 DEF ItemEntries, EntryOf
<1>4. \A k \in 1 .. n : EntryOf(item.annotation, item.functions[k]) \in EntriesOf(E)
  BY <1>1, <1>2 DEF EntriesOf
<1> HIDE DEF n
<1>5. ItemEntries(item) \in [1 .. n -> EntriesOf(E)]
  BY <1>3, <1>4
<1>6. QED BY <1>1, <1>5

LEMMA FileEntriesListed ==
  ASSUME NEW E, NEW f \in FileOf(E)
  PROVE  FileEntries(f) \in Seq(EntriesOf(E))
<1> DEFINE V == EntriesOf(E)
           lists == [k \in DOMAIN f |-> ItemEntries(f[k])]
           n == Len(f)
<1>1. n \in Nat /\ DOMAIN f = 1 .. n /\ \A k \in 1 .. n : f[k] \in ItemOf(E)
  <2>1. f \in Seq(ItemOf(E))
    BY DEF FileOf
  <2>2. QED BY <2>1
<1>2. \A k \in 1 .. n : ItemEntries(f[k]) \in Seq(V)
  BY <1>1, ItemEntriesListed
<1> HIDE DEF n, V
<1>3. lists \in [1 .. n -> Seq(V)]
  BY <1>1, <1>2
<1> HIDE DEF lists
<1>4. lists \in Seq(Seq(V))
  BY <1>1, <1>3
<1>5. FlattenSeq(lists) \in Seq(V)
  BY <1>4, FlattenIsSequence
<1>6. QED BY <1>5 DEF FileEntries, lists, V

LEMMA CreatedIsFile ==
  ASSUME PickInv
  PROVE  /\ <<CreatedItem>> \in FileOf(ElementsWritten)
         /\ FileEntries(<<CreatedItem>>)
              = [k \in 1 .. Len(picked) |-> EntryOf("sensitive", FileElement(picked[k]))]
<1> DEFINE n == Len(picked)
           list == [k \in DOMAIN picked |-> FileElement(picked[k])]
           E == ElementsWritten
           lists == [k \in DOMAIN <<CreatedItem>> |-> ItemEntries(<<CreatedItem>>[k])]
<1>1. n \in Nat /\ DOMAIN picked = 1 .. n /\ \A k \in 1 .. n : picked[k] \in Candidates
  BY DEF PickInv
<1>2. \A k \in 1 .. n : FileElement(picked[k]) \in E
  BY <1>1 DEF ElementsWritten
<1> HIDE DEF n, E
<1>3. list \in [1 .. n -> E]
  BY <1>1, <1>2
<1>4. list \in Seq(E)
  <2> HIDE DEF list
  <2> QED BY <1>1, <1>3
<1>5. CreatedItem \in ItemOf(E)
  <2>1. CreatedItem = [annotation |-> "sensitive", functions |-> list]
    BY DEF CreatedItem
  <2> HIDE DEF list
  <2>2. QED BY <1>4, <2>1 DEF ItemOf, AnnotationNames
<1>6. ItemEntries(CreatedItem) \in Seq(EntriesOf(E))
  BY <1>5, ItemEntriesListed
<1>7. lists = <<ItemEntries(CreatedItem)>>
  OBVIOUS
<1>8. lists \in Seq(Seq(EntriesOf(E))) /\ Len(lists) = 1 /\ lists[1] = ItemEntries(CreatedItem)
  BY <1>6, <1>7
<1>9. FlattenSeq(lists) = ItemEntries(CreatedItem)
  <2> HIDE DEF lists
  <2> QED BY <1>8, FlattenOne
<1>10. ItemEntries(CreatedItem)
         = [k \in 1 .. n |-> EntryOf("sensitive", FileElement(picked[k]))]
  BY <1>1 DEF ItemEntries, CreatedItem, EntryOf
<1>11. FileEntries(<<CreatedItem>>) = FlattenSeq(lists)
  BY DEF FileEntries
<1> HIDE DEF lists
<1>12. <<CreatedItem>> \in FileOf(E)
  BY <1>5 DEF FileOf
<1>13. QED BY <1>9, <1>10, <1>11, <1>12 DEF n, E

LEMMA FilesAreFiles ==
  ASSUME NEW f \in Files
  PROVE  f \in FileOf(Elements)
<1> DEFINE A == [annotation : STRING, functions : Seq(Elements)]
           B == ItemOf(Elements)
<1>1. f \in Seq(A)
  BY FilesAssumption
<1>2. A \subseteq B
  BY DEF ItemOf, AnnotationNames
<1> HIDE DEF A, B
<1>3. Len(f) \in Nat /\ f \in [1 .. Len(f) -> A]
  BY <1>1
<1>4. f \in [1 .. Len(f) -> B]
  BY <1>2, <1>3
<1>5. f \in Seq(B)
  BY <1>3, <1>4
<1>6. QED BY <1>5 DEF FileOf, B

(***************************************************************************)
(* What the parser has made of the entries it has gone through: those that *)
(* are left are the rest of the file, and each entry with a function has   *)
(* an annotation equal to its own.                                         *)
(***************************************************************************)
First(list, j) ==
  /\ list[j].on \in module.functions
  /\ \A i \in 1 .. j - 1 : \/ list[i].on # list[j].on
                           \/ list[i].annotation # list[j].annotation

KeptOf(list, n) == {Annotation(list[k]) : k \in {j \in 1 .. n : First(list, j)}}

EachHasOne(list, n) ==
  \A i \in 1 .. n :
    list[i].on \in module.functions =>
      \E b \in annotations : SameAnnotation(Annotation(list[i]), b)

Rest(list, n) ==
  /\ n \in Nat /\ Len(entries) \in Nat
  /\ n + Len(entries) = Len(list)
  /\ \A k \in 1 .. Len(entries) : entries[k] = list[n + k]

GoneThrough ==
  /\ \E V : Given \in Seq(V) /\ entries \in Seq(V)
  /\ \E n \in Nat : /\ Rest(Given, n)
                    /\ annotations = KeptOf(Given, n)
                    /\ EachHasOne(Given, n)

FileInv ==
  /\ pc \in {"start", "pick"} => file = NoFile
  /\ file \in {NoFile, <<CreatedItem>>} \cup Files
  /\ pc \in {"start", "pick", "parse"} => annotations = {}
  /\ pc \in {"entries", "done"} /\ file # NoFile => GoneThrough
  /\ pc = "done" => entries = << >>

LEMMA SameAnnotations ==
  ASSUME NEW d, NEW e
  PROVE  SameAnnotation(Annotation(d), Annotation(e))
           <=> d.on = e.on /\ d.annotation = e.annotation
BY DEF SameAnnotation, Annotation

(***************************************************************************)
(* The next entry, after n of them: it is kept if it is the first for its  *)
(* function and its annotation, and otherwise there is one already.        *)
(***************************************************************************)
LEMMA NextEntryKept ==
  ASSUME NEW list, NEW n \in Nat, annotations = KeptOf(list, n), EachHasOne(list, n),
         module' = module,
         annotations' = IF list[n + 1].on \in module.functions
                        THEN Inserted(Annotation(list[n + 1])) ELSE annotations
  PROVE  annotations' = KeptOf(list, n + 1)' /\ EachHasOne(list, n + 1)'
<1> DEFINE e == list[n + 1]
           a == Annotation(e)
<1>1. \A k : k \in 1 .. n + 1 <=> k \in 1 .. n \/ k = n + 1
  OBVIOUS
<1>2. KeptOf(list, n + 1) = KeptOf(list, n) \cup (IF First(list, n + 1) THEN {a} ELSE {})
  BY <1>1 DEF KeptOf
<1>3. KeptOf(list, n + 1)' = KeptOf(list, n + 1)
  BY DEF KeptOf, First, Annotation
<1>4. \A i \in 1 .. n : i \in 1 .. (n + 1) - 1
  OBVIOUS
<1>5. CASE e.on \notin module.functions
  <2>1. annotations' = annotations /\ ~First(list, n + 1)
    BY <1>5 DEF First
  <2>2. EachHasOne(list, n + 1)'
    BY <1>1, <1>5, <2>1 DEF EachHasOne
  <2>3. QED BY <1>2, <1>3, <2>1, <2>2
<1>6. ASSUME e.on \in module.functions, NEW b \in annotations, SameAnnotation(a, b)
      PROVE  annotations' = KeptOf(list, n + 1)' /\ EachHasOne(list, n + 1)'
  <2>1. annotations' = annotations
    BY <1>6 DEF Inserted
  <2>2. PICK k \in 1 .. n : b = Annotation(list[k])
    BY DEF KeptOf
  <2>3. list[k].on = e.on /\ list[k].annotation = e.annotation
    BY <1>6, <2>2, SameAnnotations
  <2>4. ~First(list, n + 1)
    BY <1>4, <2>3 DEF First
  <2>5. EachHasOne(list, n + 1)'
    BY <1>1, <1>6, <2>1 DEF EachHasOne, Annotation, SameAnnotation
  <2>6. QED BY <1>2, <1>3, <2>1, <2>4, <2>5
<1>7. CASE e.on \in module.functions /\ \A b \in annotations : ~SameAnnotation(a, b)
  <2>1. annotations' = annotations \cup {a}
    BY <1>7 DEF Inserted
  <2>2. ASSUME NEW i \in 1 .. n, list[i].on = e.on, list[i].annotation = e.annotation
        PROVE  FALSE
    <3>1. PICK b \in annotations : SameAnnotation(Annotation(list[i]), b)
      BY <1>7, <2>2 DEF EachHasOne
    <3>2. SameAnnotation(a, b)
      BY <2>2, <3>1 DEF SameAnnotation, Annotation
    <3>3. QED BY <1>7, <3>2
  <2>3. \A i : i \in 1 .. (n + 1) - 1 => i \in 1 .. n
    OBVIOUS
  <2>4. First(list, n + 1)
    BY <1>7, <2>2, <2>3 DEF First
  <2>5. SameAnnotation(a, a)
    BY DEF SameAnnotation
  <2>6. \A i \in 1 .. n + 1 :
          list[i].on \in module.functions =>
            \E b \in annotations' : SameAnnotation(Annotation(list[i]), b)
    BY <1>1, <2>1, <2>5 DEF EachHasOne
  <2>7. EachHasOne(list, n + 1)'
    BY <2>6 DEF EachHasOne, Annotation, SameAnnotation
  <2>8. QED BY <1>2, <1>3, <2>1, <2>4, <2>7
<1>8. QED BY <1>5, <1>6, <1>7

LEMMA FileIsListed ==
  ASSUME PickInv, FileInv
  PROVE  \E V : Given \in Seq(V)
<1>1. CASE file = NoFile
  <2>1. Given \in Seq({})
    BY <1>1 DEF Given
  <2>2. QED BY <2>1
<1>2. CASE file # NoFile /\ file = <<CreatedItem>>
  <2>1. Given = FileEntries(file) /\ file \in FileOf(ElementsWritten)
    BY <1>2, CreatedIsFile DEF Given
  <2>2. QED BY <2>1, FileEntriesListed
<1>3. CASE file # NoFile /\ file \in Files
  <2>1. Given = FileEntries(file) /\ file \in FileOf(Elements)
    BY <1>3, FilesAreFiles DEF Given
  <2>2. QED BY <2>1, FileEntriesListed
<1>4. QED BY <1>1, <1>2, <1>3 DEF FileInv

LEMMA OpenFileKeeps ==
  ASSUME PickInv, FileInv, OpenFile
  PROVE  FileInv'
<1>1. /\ pc = "parse" /\ pc' = "entries" /\ annotations = {}
      /\ UNCHANGED <<module, picked, file, annotations>>
  BY DEF OpenFile, creator, FileInv
<1>2. entries' = Given
  BY DEF OpenFile, Given
<1>3. Given' = Given /\ CreatedItem' = CreatedItem
  BY <1>1 DEF Given, CreatedItem, FileElement, FileEntries, ItemEntries
<1>4. PICK V : Given \in Seq(V)
  BY FileIsListed
<1>5. Rest(Given, 0)'
  <2>1. Len(Given) \in Nat /\ \A k \in 1 .. Len(Given) : 0 + k = k
    BY <1>4
  <2>2. QED BY <1>2, <1>3, <2>1 DEF Rest
<1>6. 1 .. 0 = {}
  OBVIOUS
<1>7. annotations' = KeptOf(Given, 0)' /\ EachHasOne(Given, 0)'
  BY <1>1, <1>6 DEF KeptOf, EachHasOne
<1>8. GoneThrough'
  <2>1. 0 \in Nat
    OBVIOUS
  <2>2. \E W : Given' \in Seq(W) /\ entries' \in Seq(W)
    BY <1>2, <1>3, <1>4
  <2>3. QED BY <1>5, <1>7, <2>1, <2>2 DEF GoneThrough
<1>9. QED BY <1>1, <1>3, <1>8 DEF FileInv

LEMMA ParseEntryKeeps ==
  ASSUME PickInv, FileInv, ParseEntry
  PROVE  FileInv'
<1>1. /\ pc = "entries" /\ pc' = pc /\ UNCHANGED <<module, picked, file>>
      /\ entries # << >> /\ entries' = Tail(entries)
      /\ annotations' = IF Head(entries).on \in module.functions
                        THEN Inserted(Annotation(Head(entries))) ELSE annotations
  BY DEF ParseEntry, creator
<1>2. Given' = Given /\ CreatedItem' = CreatedItem
  BY <1>1 DEF Given, CreatedItem, FileElement, FileEntries, ItemEntries
<1>3. ASSUME file # NoFile PROVE GoneThrough'
  <2>1. GoneThrough
    BY <1>1, <1>3 DEF FileInv
  <2>2. PICK V : Given \in Seq(V) /\ entries \in Seq(V)
    BY <2>1 DEF GoneThrough
  <2>3. PICK n \in Nat : Rest(Given, n) /\ annotations = KeptOf(Given, n) /\ EachHasOne(Given, n)
    BY <2>1 DEF GoneThrough
  <2> DEFINE list == Given
             m == Len(entries)
  <2>4. /\ entries \in Seq(V) /\ m \in Nat \ {0}
        /\ Head(entries) = entries[1] /\ Tail(entries) \in Seq(V)
        /\ Len(Tail(entries)) = m - 1
        /\ \A k \in 1 .. m - 1 : Tail(entries)[k] = entries[k + 1]
    BY <1>1, <2>2
  <2>5. n + m = Len(list) /\ \A k \in 1 .. m : entries[k] = list[n + k]
    BY <2>3 DEF Rest
  <2> HIDE DEF list, m
  <2>6. Head(entries) = list[n + 1]
    BY <2>4, <2>5
  <2>7. annotations' = KeptOf(list, n + 1)' /\ EachHasOne(list, n + 1)'
    <3>1. annotations = KeptOf(list, n) /\ EachHasOne(list, n)
      BY <2>3 DEF list
    <3>2. list' = list
      BY <1>2 DEF list
    <3>3. \A l : l = list => annotations' = KeptOf(l, n + 1)' /\ EachHasOne(l, n + 1)'
      BY <1>1, <2>6, <3>1, NextEntryKept
    <3>4. QED BY <3>2, <3>3 DEF KeptOf, EachHasOne, First
  <2>8. Rest(list, n + 1)'
    <3>1. n + 1 \in Nat /\ m - 1 \in Nat /\ (n + 1) + (m - 1) = Len(list)
      BY <2>4, <2>5
    <3>2. ASSUME NEW k \in 1 .. m - 1 PROVE Tail(entries)[k] = list[(n + 1) + k]
      <4>1. k + 1 \in 1 .. m /\ n + (k + 1) = (n + 1) + k
        BY <2>4
      <4>2. entries[k + 1] = list[n + (k + 1)]
        BY <2>5, <4>1
      <4>3. QED BY <2>4, <4>1, <4>2
    <3>3. list' = list
      BY <1>2 DEF list
    <3>4. QED BY <1>1, <2>4, <3>1, <3>2, <3>3 DEF Rest
  <2>9. \E W : Given' \in Seq(W) /\ entries' \in Seq(W)
    BY <1>1, <1>2, <2>2, <2>4
  <2>10. n + 1 \in Nat
    OBVIOUS
  <2>11. QED BY <2>7, <2>8, <2>9, <2>10 DEF GoneThrough, list
<1>4. QED BY <1>1, <1>2, <1>3 DEF FileInv

LEMMA FileInvStep == PickInv /\ FileInv /\ [Next]_vars => FileInv'
<1> SUFFICES ASSUME PickInv, FileInv, [Next]_vars PROVE FileInv'
  OBVIOUS
<1>1. ASSUME pc' \in {"pick", "crashed"}, pc \in {"start", "pick"},
             UNCHANGED <<file, annotations>>
      PROVE  FileInv'
  BY <1>1 DEF FileInv
<1>2. ASSUME NEW percentage, Shuffle(percentage) PROVE FileInv'
  BY <1>1, <1>2 DEF Shuffle
<1>3. ASSUME NEW idx, Pick(idx) PROVE FileInv'
  BY <1>1, <1>3 DEF Pick
<1>4. CASE PickFromNone
  BY <1>1, <1>4 DEF PickFromNone
<1>5. CASE DumpAnnotationFile
  <2>1. /\ pc = "pick" /\ pc' = "parse" /\ file' = <<CreatedItem>>
        /\ UNCHANGED <<module, picked, annotations>>
    BY <1>5 DEF DumpAnnotationFile, CreatedItem, creator
  <2>2. CreatedItem' = CreatedItem
    BY <2>1 DEF CreatedItem, FileElement
  <2>3. QED BY <2>1, <2>2 DEF FileInv
<1>6. ASSUME NEW f \in Files \cup {NoFile}, GiveFile(f) PROVE FileInv'
  BY <1>6 DEF GiveFile, FileInv
<1>7. CASE OpenFile
  BY <1>7, OpenFileKeeps
<1>8. CASE ReadModule
  BY <1>8 DEF ReadModule, FileInv
<1>9. CASE ParseEntry
  BY <1>9, ParseEntryKeeps
<1>10. ASSUME UNCHANGED <<module, picked, file, entries, annotations>>,
              pc' = pc \/ (pc = "entries" /\ entries = << >> /\ pc' = "done")
       PROVE  FileInv'
  <2>1. CreatedItem' = CreatedItem
    BY <1>10 DEF CreatedItem, FileElement
  <2>2. Given' = Given
    BY <1>10 DEF Given, FileEntries, ItemEntries
  <2>3. \A list, n : /\ KeptOf(list, n)' = KeptOf(list, n)
                     /\ EachHasOne(list, n)' <=> EachHasOne(list, n)
                     /\ Rest(list, n)' <=> Rest(list, n)
    BY <1>10 DEF KeptOf, EachHasOne, Rest, First, Annotation, SameAnnotation
  <2>4. GoneThrough => GoneThrough'
    BY <1>10, <2>2, <2>3 DEF GoneThrough
  <2>5. QED BY <1>10, <2>1, <2>4 DEF FileInv
<1>11. CASE Finish
  BY <1>10, <1>11 DEF Finish, creator
<1>12. CASE UNCHANGED vars
  <2>1. UNCHANGED <<module, picked, file, entries, annotations>> /\ pc' = pc
    BY <1>12 DEF vars, creator
  <2>2. pc' = pc \/ (pc = "entries" /\ entries = << >> /\ pc' = "done")
    BY <2>1
  <2>3. QED BY <1>10, <2>1, <2>2
<1>13. QED
  BY <1>2, <1>3, <1>4, <1>5, <1>6, <1>7, <1>8, <1>9, <1>11, <1>12 DEF Next

LEMMA AllGoneThrough ==
  ASSUME FileInv, pc = "done", file # NoFile
  PROVE  /\ \E n \in Nat : DOMAIN Given = 1 .. n /\ annotations = KeptOf(Given, n)
                           /\ EachHasOne(Given, n)
<1>1. GoneThrough /\ entries = << >>
  BY DEF FileInv
<1>2. PICK V : Given \in Seq(V)
  BY <1>1 DEF GoneThrough
<1>3. PICK n \in Nat : Rest(Given, n) /\ annotations = KeptOf(Given, n) /\ EachHasOne(Given, n)
  BY <1>1 DEF GoneThrough
<1>4. Len(entries) = 0
  BY <1>1
<1>5. n = Len(Given)
  BY <1>3, <1>4 DEF Rest
<1>6. DOMAIN Given = 1 .. Len(Given)
  BY <1>2
<1>7. QED BY <1>3, <1>5, <1>6

LEMMA FileInvFirst == FileInv => FirstEntryKept
<1> SUFFICES ASSUME FileInv, pc = "done", file # NoFile
             PROVE  annotations = {Annotation(Given[k]) : k \in {j \in DOMAIN Given : First(Given, j)}}
  BY DEF FirstEntryKept, First
<1>1. QED BY AllGoneThrough DEF KeptOf

LEMMA FileInvReadBack == PickInv /\ FileInv => CreatedFileReadBack
<1> SUFFICES ASSUME PickInv, FileInv, pc = "done", Created
             PROVE  annotations = {[annotation |-> "sensitive", function |-> f,
                                    arguments |-> module.pointers[f],
                                    return |-> f \in module.valued] : f \in ToSet(picked)}
  BY DEF CreatedFileReadBack
<1> DEFINE m == Len(picked)
           back(f) == [annotation |-> "sensitive", function |-> f,
                       arguments |-> module.pointers[f], return |-> f \in module.valued]
<1>1. file = <<CreatedItem>> /\ file # NoFile
  BY DEF Created, FileInv
<1>2. Given = [k \in 1 .. m |-> EntryOf("sensitive", FileElement(picked[k]))]
  BY <1>1, CreatedIsFile DEF Given
<1>3. PICK n \in Nat : /\ DOMAIN Given = 1 .. n /\ annotations = KeptOf(Given, n)
                       /\ EachHasOne(Given, n)
  BY <1>1, AllGoneThrough
<1>4. /\ m \in Nat /\ DOMAIN picked = 1 .. m
      /\ \A k \in 1 .. m : picked[k] \in Candidates
  BY DEF PickInv
<1>5. 1 .. n = 1 .. m
  BY <1>2, <1>3
<1>6. ASSUME NEW f \in module.functions
      PROVE  Annotation(EntryOf("sensitive", FileElement(f))) = back(f)
  <2>1. module.pointers[f] \in Seq(Nat) /\ Absent \notin Seq(Nat) /\ Absent # "True"
    BY FilesAssumption DEF PickInv
  <2>2. module.pointers[f] # Absent
    BY <2>1
  <2> DEFINE arguments == IF module.pointers[f] = << >> THEN Absent ELSE module.pointers[f]
             return == IF f \in module.valued THEN "True" ELSE Absent
  <2>3. EntryOf("sensitive", FileElement(f))
          = [annotation |-> "sensitive", on |-> f, arguments |-> arguments, return |-> return]
    BY DEF EntryOf, FileElement
  <2>4. (IF arguments = Absent THEN << >> ELSE arguments) = module.pointers[f]
    BY <2>2
  <2>5. (return # Absent) = (f \in module.valued)
    BY <2>1
  <2> HIDE DEF arguments, return
  <2>6. QED BY <2>3, <2>4, <2>5 DEF Annotation
<1> HIDE DEF m, back
<1>7. ASSUME NEW k \in 1 .. m
      PROVE  /\ picked[k] \in ToSet(picked) /\ picked[k] \in module.functions
             /\ Given[k].on = picked[k] /\ Annotation(Given[k]) = back(picked[k])
  <2>1. picked[k] \in module.functions /\ picked[k] \in ToSet(picked)
    BY <1>4 DEF Candidates, ToSet
  <2>2. Given[k] = EntryOf("sensitive", FileElement(picked[k]))
    BY <1>2
  <2>3. Given[k].on = picked[k]
    BY <2>2 DEF EntryOf, FileElement
  <2>4. QED BY <1>6, <2>1, <2>2, <2>3
<1>8. \A b \in annotations : \E f \in ToSet(picked) : b = back(f)
  BY <1>3, <1>5, <1>7 DEF KeptOf
<1>9. ASSUME NEW f \in ToSet(picked) PROVE back(f) \in annotations
  <2>1. PICK i \in 1 .. m : picked[i] = f
    BY <1>4 DEF ToSet
  <2>2. PICK b \in annotations : SameAnnotation(Annotation(Given[i]), b)
    BY <1>3, <1>5, <1>7, <2>1 DEF EachHasOne
  <2>3. PICK k \in 1 .. m : b = Annotation(Given[k])
    BY <1>3, <1>5 DEF KeptOf
  <2>4. Given[k].on = Given[i].on
    BY <2>2, <2>3, SameAnnotations
  <2>5. picked[k] = f
    BY <1>7, <2>1, <2>4
  <2>6. QED BY <1>7, <2>3, <2>5
<1>10. annotations = {back(f) : f \in ToSet(picked)}
  BY <1>8, <1>9
<1>11. QED BY <1>10 DEF back

LEMMA FileInvInit == Init => FileInv
BY DEF Init, FileInv

LEMMA FilesAlwaysParsed == Spec => [](PickInv /\ FileInv)
<1>1. PickInv /\ FileInv /\ [Next]_vars => PickInv' /\ FileInv'
  BY PickInvStep, FileInvStep
<1>2. Init => PickInv /\ FileInv
  BY PickInvInit, FileInvInit
<1>3. QED BY <1>1, <1>2, PTL DEF Spec

(***************************************************************************)
(* For every module and every percentage: the file the creator writes,     *)
(* parsed with the same module, gives exactly one annotation of each       *)
(* function picked, with all of its pointers and with its return value if  *)
(* it has one (dumpAnnotationFile, JsonAnnotationParser).                  *)
(***************************************************************************)
THEOREM CreatedFilesReadBack == Spec => []CreatedFileReadBack
BY FilesAlwaysParsed, FileInvReadBack, PTL

(***************************************************************************)
(* For every well-formed file: the parser keeps the first entry for each   *)
(* function and annotation with all of its keys, and no other one, in      *)
(* whatever items they are (insert of an unordered_set with an operator == *)
(* that looks at the function and the annotation only).                    *)
(***************************************************************************)
THEOREM FirstEntriesKept == Spec => []FirstEntryKept
BY FilesAlwaysParsed, FileInvFirst, PTL
==========
