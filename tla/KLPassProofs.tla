---------------------------- MODULE KLPassProofs ----------------------------
(***************************************************************************)
(* Machine-checked facts about the Kernighan-Lin pass, for every finite    *)
(* set of functions, every weighted call graph, every infinity and every   *)
(* starting split: the partitions stay complementary through all tentative *)
(* moves, the pass as a whole is the one choice MoveChoice describes, and  *)
(* the longest best prefix is kept.  Below infinity the gains are exact    *)
(* whenever a function is chosen, and with equal weights on both copies of *)
(* the edges no pass leaves a costlier cut.  The first two hold for any    *)
(* rule that chooses the next function: they rest on the move sequence     *)
(* naming each candidate at most once.  The others are about saturating    *)
(* sums along edge lists and exact sums over sets of functions and of      *)
(* edges, whose laws are proved here from the recursions that define them. *)
(***************************************************************************)
EXTENDS KLPass, FiniteSetTheorems, SequenceTheorems, WellFoundedInduction, TLAPS

Moved == MovedBetween(1, Len(order))
Kept  == MovedBetween(1, idx)

(***************************************************************************)
(* Where the loops of the pass are, and that no function is moved twice.   *)
(***************************************************************************)
SequenceInv ==
  /\ start \in Starts
  /\ pc \in {"move", "scan", "done"}
  /\ order \in Seq(start.candidates)
  /\ \A m, n \in 1 .. Len(order) : order[m] = order[n] => m = n
  /\ candidates = start.candidates \ Moved
  /\ i \in 1 .. Len(order) + 1
  /\ idx \in 0 .. i - 1

(***************************************************************************)
(* The partitions are the starting ones with the moved, at last the kept,  *)
(* functions carried over.                                                 *)
(***************************************************************************)
SidesInv ==
  LET carried == IF pc = "done" THEN Kept ELSE Moved
  IN  /\ secure = start.secure \cup carried
      /\ insecure = start.insecure \ carried

RelatedInv ==
  related = IF pc = "done" THEN start.related \ Kept ELSE start.related

PassInv == SequenceInv /\ SidesInv /\ RelatedInv

(***************************************************************************)
(* The moves up to a point of the sequence are candidates; those after it  *)
(* are other functions.                                                    *)
(***************************************************************************)
LEMMA MovedAreCandidates ==
  ASSUME SequenceInv, NEW m \in Nat, NEW n \in Int, n <= Len(order), m >= 1
  PROVE  MovedBetween(m, n) \subseteq start.candidates
  BY DEF SequenceInv, MovedBetween

LEMMA RevertLeavesPrefix ==
  ASSUME SequenceInv
  PROVE  /\ Moved \ MovedBetween(idx + 1, Len(order)) = Kept
         /\ MovedBetween(idx + 1, Len(order)) \cup Kept = Moved
         /\ MovedBetween(idx + 1, Len(order)) \cap Kept = {}
<1> DEFINE L == Len(order)
<1>1. L \in Nat /\ idx \in Nat /\ idx <= L
  BY DEF SequenceInv
<1>2. MovedBetween(idx + 1, L) \cup Kept = Moved
  <2>1. ASSUME NEW k \in 1 .. L PROVE k \in 1 .. idx \/ k \in idx + 1 .. L
    BY <1>1
  <2>2. 1 .. idx \subseteq 1 .. L /\ idx + 1 .. L \subseteq 1 .. L
    BY <1>1
  <2>3. QED BY <2>1, <2>2 DEF MovedBetween, Moved, Kept
<1>3. MovedBetween(idx + 1, L) \cap Kept = {}
  <2>1. SUFFICES ASSUME NEW f \in MovedBetween(idx + 1, L), f \in Kept PROVE FALSE
    OBVIOUS
  <2>2. PICK m \in idx + 1 .. L : f = order[m]
    BY DEF MovedBetween
  <2>3. PICK n \in 1 .. idx : f = order[n]
    BY <2>1 DEF MovedBetween, Kept
  <2>4. m \in 1 .. L /\ n \in 1 .. L /\ m # n
    BY <1>1
  <2>5. QED BY <2>2, <2>3, <2>4 DEF SequenceInv
<1>4. QED BY <1>2, <1>3

(***************************************************************************)
(* The pass starts with nothing moved.                                     *)
(***************************************************************************)
LEMMA PassInvInit == Init => PassInv
<1> SUFFICES ASSUME Init PROVE PassInv
  OBVIOUS
<1>1. Moved = {}
  BY DEF Init, Moved, MovedBetween
<1>2. SequenceInv
  BY <1>1 DEF Init, SequenceInv
<1>3. SidesInv /\ RelatedInv
  BY <1>1 DEF Init, SidesInv, RelatedInv
<1>4. QED BY <1>2, <1>3 DEF PassInv

(***************************************************************************)
(* A tentative move carries over one more function.                        *)
(***************************************************************************)
LEMMA MoveBestKeeps ==
  ASSUME PassInv, NEW f, MoveBest(f)
  PROVE  PassInv'
<1> USE DEF PassInv
<1>1. /\ pc = "move" /\ pc' = "move" /\ start' = start
      /\ f \in candidates /\ order' = Append(order, f)
      /\ i' = i /\ idx' = idx /\ related' = related
      /\ candidates' = candidates \ {f}
      /\ secure' = secure \cup {f} /\ insecure' = insecure \ {f}
  BY DEF MoveBest, moveFunction
<1>2. f \in start.candidates /\ \A k \in 1 .. Len(order) : order[k] # f
  BY <1>1 DEF SequenceInv, Moved, MovedBetween
<1>3. /\ order' \in Seq(start.candidates)
      /\ Len(order') = Len(order) + 1 /\ Len(order) \in Nat
      /\ order'[Len(order) + 1] = f
      /\ \A k \in 1 .. Len(order) : order'[k] = order[k]
  BY <1>1, <1>2 DEF SequenceInv
<1>4. Moved' = Moved \cup {f}
  <2>1. \A k \in 1 .. Len(order) + 1 : k \in 1 .. Len(order) \/ k = Len(order) + 1
    BY <1>3
  <2>2. /\ 1 .. Len(order) \subseteq 1 .. Len(order) + 1
        /\ Len(order) + 1 \in 1 .. Len(order) + 1
    BY <1>3
  <2>3. Moved' = {order'[k] : k \in 1 .. Len(order) + 1}
    BY <1>3 DEF Moved, MovedBetween
  <2>4. QED BY <1>3, <2>1, <2>2, <2>3 DEF Moved, MovedBetween
<1>5. \A m, n \in 1 .. Len(order') : order'[m] = order'[n] => m = n
  <2>1. \A k \in 1 .. Len(order') : k \in 1 .. Len(order) \/ k = Len(order) + 1
    BY <1>3
  <2>2. QED BY <2>1, <1>2, <1>3 DEF SequenceInv
<1>6. i' \in 1 .. Len(order') + 1 /\ idx' \in 0 .. i' - 1
  BY <1>1, <1>3 DEF SequenceInv
<1>7. SequenceInv'
  BY <1>1, <1>3, <1>4, <1>5, <1>6 DEF SequenceInv
<1>8. SidesInv' /\ RelatedInv'
  BY <1>1, <1>4 DEF SidesInv, RelatedInv
<1>9. QED BY <1>7, <1>8

(***************************************************************************)
(* The scan moves nothing and remembers a position it has passed.          *)
(***************************************************************************)
LEMMA ScanGainKeeps ==
  ASSUME PassInv, ScanGain
  PROVE  PassInv'
<1> USE DEF PassInv
<1>1. /\ pc = "scan" /\ i <= Len(order) /\ i' = i + 1
      /\ idx' = i \/ idx' = idx
      /\ UNCHANGED <<start, pc, candidates, order, secure, insecure, related>>
  BY DEF ScanGain, ScanStep
<1>2. i' \in 1 .. Len(order') + 1 /\ idx' \in 0 .. i' - 1
  BY <1>1 DEF SequenceInv
<1>3. Moved' = Moved
  BY <1>1 DEF Moved, MovedBetween
<1>4. SequenceInv'
  BY <1>1, <1>2, <1>3 DEF SequenceInv
<1>5. SidesInv' /\ RelatedInv'
  BY <1>1, <1>3 DEF SidesInv, RelatedInv
<1>6. QED BY <1>4, <1>5

(***************************************************************************)
(* Taking back the rest leaves the kept prefix; this is the one step seen  *)
(* from outside.                                                           *)
(***************************************************************************)
LEMMA RevertRestEffect ==
  ASSUME PassInv, RevertRest
  PROVE  /\ pc = "scan" /\ pc' = "done" /\ start' = start
         /\ Kept \subseteq start.candidates
         /\ secure' = start.secure \cup Kept
         /\ insecure' = start.insecure \ Kept
         /\ related' = start.related \ Kept
         /\ UNCHANGED <<order, candidates, i, idx>>
<1> USE DEF PassInv
<1> DEFINE rest == MovedBetween(idx + 1, Len(order))
<1>1. /\ pc = "scan" /\ pc' = "done" /\ start' = start
      /\ secure' = secure \ rest /\ insecure' = insecure \cup rest
      /\ related' = related \ Kept
      /\ UNCHANGED <<order, candidates, i, idx>>
  BY DEF RevertRest, RevertWith, Kept
<1>2. Moved \ rest = Kept /\ rest \cup Kept = Moved /\ rest \cap Kept = {}
  BY RevertLeavesPrefix
<1>3. Moved \subseteq start.candidates
  BY MovedAreCandidates DEF Moved, SequenceInv
<1>4. /\ start.candidates \subseteq start.insecure
      /\ start.secure \cap start.insecure = {}
  BY StartsAssumption DEF SequenceInv
<1>5. secure = start.secure \cup Moved /\ insecure = start.insecure \ Moved
      /\ related = start.related
  BY <1>1 DEF SidesInv, RelatedInv
<1>6. secure' = start.secure \cup Kept
  BY <1>1, <1>2, <1>3, <1>4, <1>5
<1>7. insecure' = start.insecure \ Kept
  BY <1>1, <1>2, <1>3, <1>4, <1>5
<1>8. QED BY <1>1, <1>2, <1>3, <1>5, <1>6, <1>7

(***************************************************************************)
(* Every step keeps the invariant.                                         *)
(***************************************************************************)
LEMMA PassInvNext == PassInv /\ [Next]_vars => PassInv'
<1> SUFFICES ASSUME PassInv, [Next]_vars PROVE PassInv'
  OBVIOUS
<1>1. ASSUME NEW f \in candidates, MoveBest(f) PROVE PassInv'
  BY <1>1, MoveBestKeeps
<1>2. CASE AllMoved
  BY <1>2 DEF AllMoved, PassInv, SequenceInv, SidesInv, RelatedInv, Moved, MovedBetween
<1>3. CASE ScanGain
  BY <1>3, ScanGainKeeps
<1>4. CASE RevertRest
  <2>1. /\ pc' = "done" /\ start' = start
        /\ secure' = start.secure \cup Kept
        /\ insecure' = start.insecure \ Kept
        /\ related' = start.related \ Kept
        /\ UNCHANGED <<order, candidates, i, idx>>
    BY <1>4, RevertRestEffect
  <2>2. Kept' = Kept /\ Moved' = Moved
    BY <2>1 DEF Kept, Moved, MovedBetween
  <2>3. SequenceInv'
    BY <2>1, <2>2 DEF PassInv, SequenceInv
  <2>4. QED BY <2>1, <2>2, <2>3 DEF PassInv, SidesInv, RelatedInv
<1>5. CASE UNCHANGED vars
  BY <1>5 DEF vars, PassInv, SequenceInv, SidesInv, RelatedInv, Moved, Kept, MovedBetween
<1>6. QED BY <1>1, <1>2, <1>3, <1>4, <1>5 DEF Next

LEMMA PassInvariant == Spec => []PassInv
  BY PassInvInit, PassInvNext, PTL DEF Spec

(***************************************************************************)
(* The two partitions split the functions at every moment of the pass: a   *)
(* tentative move, a scan and the taking back leave no function out and    *)
(* none on both sides, and no sensitive function is taken out.             *)
(***************************************************************************)
THEOREM SplitThroughoutPass == Spec => []AlwaysSplit
<1>1. ASSUME PassInv PROVE AlwaysSplit
  <2> DEFINE carried == IF pc = "done" THEN Kept ELSE Moved
  <2>1. carried \subseteq start.candidates
    BY <1>1, MovedAreCandidates DEF PassInv, Moved, Kept, SequenceInv
  <2>2. /\ start.secure \cup start.insecure = Functions
        /\ start.secure \cap start.insecure = {}
        /\ start.candidates \subseteq start.insecure
    BY <1>1, StartsAssumption DEF PassInv, SequenceInv
  <2>3. secure = start.secure \cup carried /\ insecure = start.insecure \ carried
    BY <1>1 DEF PassInv, SidesInv
  <2>4. QED BY <2>1, <2>2, <2>3 DEF AlwaysSplit
<1>2. QED BY <1>1, PassInvariant, PTL

(***************************************************************************)
(* The pass implements MoveChoice: its caller sees one change of sides, of *)
(* candidates only, with just their related entries removed.               *)
(***************************************************************************)
THEOREM PassIsOneChoice == Spec => Choice!Spec
<1>1. Init => Choice!Init
  BY DEF Init, Choice!Init
<1>2. PassInv /\ [Next]_vars => [Choice!Move]_(Choice!vars)
  <2> SUFFICES ASSUME PassInv, [Next]_vars PROVE [Choice!Move]_(Choice!vars)
    OBVIOUS
  <2>1. ASSUME NEW f \in candidates, MoveBest(f) PROVE UNCHANGED Choice!vars
    BY <2>1 DEF MoveBest, moveFunction, Choice!vars
  <2>2. CASE AllMoved
    BY <2>2 DEF AllMoved, Choice!vars
  <2>3. CASE ScanGain
    BY <2>3 DEF ScanGain, ScanStep, Choice!vars
  <2>4. CASE RevertRest
    <3>1. /\ pc = "scan" /\ pc' = "done" /\ start' = start
          /\ Kept \subseteq start.candidates
          /\ secure' = start.secure \cup Kept
          /\ insecure' = start.insecure \ Kept
          /\ related' = start.related \ Kept
      BY <2>4, RevertRestEffect
    <3>2. /\ start.candidates \subseteq start.insecure
          /\ start.secure \cap start.insecure = {}
      BY StartsAssumption DEF PassInv, SequenceInv
    <3>3. secure' \ start'.secure = Kept
      BY <3>1, <3>2
    <3>4. QED BY <3>1, <3>3 DEF Choice!Move
  <2>5. CASE UNCHANGED vars
    BY <2>5 DEF vars, Choice!vars
  <2>6. QED BY <2>1, <2>2, <2>3, <2>4, <2>5 DEF Next
<1>3. QED BY <1>1, <1>2, PassInvariant, PTL DEF Spec, Choice!Spec

-----------------------------------------------------------------------------
(***************************************************************************)
(* Sums over finite sets.                                                  *)
(***************************************************************************)

(***************************************************************************)
(* Induction over the subsets of a finite set, for a set P of subsets: if  *)
(* a subset is in P whenever all smaller ones are, all are.                *)
(***************************************************************************)
LEMMA SubsetInduction ==
  ASSUME NEW S, IsFiniteSet(S), NEW P,
         \A T \in SUBSET S : (\A U \in SUBSET T : U # T => U \in P) => T \in P
  PROVE  \A T \in SUBSET S : T \in P
<1> DEFINE Others == {T \in SUBSET S : T \notin P}
<1> DEFINE R == StrictSubsetOrdering(S)
<1> SUFFICES ASSUME Others # {} PROVE FALSE
  OBVIOUS
<1>1. IsWellFoundedOn(R, SUBSET S)
  <2>1. FiniteSubsetsOf(S) = SUBSET S
    BY FS_FiniteSubsetsOfFinite, Zenon
  <2>2. IsWellFoundedOn(StrictSubsetOrdering(S), FiniteSubsetsOf(S))
    BY FS_StrictSubsetOrderingWellFounded, Zenon
  <2>3. QED BY <2>1, <2>2
<1>2. Others \subseteq SUBSET S
  OBVIOUS
<1>3. PICK T \in Others : \A U \in Others : ~(<<U, T>> \in R)
  <2> HIDE DEF Others, R
  <2> QED BY <1>1, <1>2, WFMin
<1>4. ASSUME NEW U \in SUBSET T, U # T PROVE U \in P
  <2>1. <<U, T>> \in R
    BY <1>3, <1>4 DEF StrictSubsetOrdering
  <2>2. QED BY <1>3, <2>1
<1>5. QED BY <1>3, <1>4

(***************************************************************************)
(* Induction over the natural numbers, for a set P: of two intervals that  *)
(* start at 0 the shorter one is a subset of the other.                    *)
(***************************************************************************)
LEMMA NatInduct ==
  ASSUME NEW P, 0 \in P, \A n \in Nat : n \in P => n + 1 \in P
  PROVE  \A n \in Nat : n \in P
<1> SUFFICES ASSUME NEW m \in Nat PROVE m \in P
  OBVIOUS
<1> DEFINE Q == {T \in SUBSET (0 .. m) : \A n \in Nat : T = 0 .. n => n \in P}
<1>1. IsFiniteSet(0 .. m)
  BY FS_Interval
<1>2. ASSUME NEW T \in SUBSET (0 .. m), \A U \in SUBSET T : U # T => U \in Q
      PROVE  T \in Q
  <2> SUFFICES ASSUME NEW n \in Nat, T = 0 .. n PROVE n \in P
    OBVIOUS
  <2>1. CASE n = 0
    BY <2>1
  <2>2. CASE n # 0
    <3>1. n - 1 \in Nat /\ (n - 1) + 1 = n /\ 0 .. n - 1 \in SUBSET T /\ 0 .. n - 1 # T
      BY <2>2
    <3>2. n - 1 \in P
      BY <3>1, <1>2
    <3>3. QED BY <3>1, <3>2
  <2>3. QED BY <2>1, <2>2
<1>3. \A T \in SUBSET (0 .. m) : T \in Q
  <2> DEFINE I == 0 .. m
  <2>1. /\ IsFiniteSet(I)
        /\ \A T \in SUBSET I : (\A U \in SUBSET T : U # T => U \in Q) => T \in Q
    BY <1>1, <1>2
  <2> HIDE DEF Q, I
  <2>2. \A T \in SUBSET I : T \in Q
    BY <2>1, SubsetInduction
  <2>3. QED BY <2>2 DEF I
<1>4. QED BY <1>3

SumStep(it, w, s) ==
  IF s = {} THEN 0
  ELSE w[CHOOSE x \in s : TRUE] + it[s \ {CHOOSE x \in s : TRUE}]

IsSumOf(it, w, S) == it = [s \in SUBSET S |-> SumStep(it, w, s)]

(***************************************************************************)
(* SumFunctionOnSet picks some solution of its recursion.                  *)
(***************************************************************************)
LEMMA SumUnfold ==
  ASSUME NEW w, NEW S
  PROVE  SumFunctionOnSet(w, S) = (CHOOSE it : IsSumOf(it, w, S))[S]
  BY DEF SumFunctionOnSet, FoldFunctionOnSet, MapThenFoldSet, IsSumOf, SumStep

(***************************************************************************)
(* On the subsets of a finite set the recursion of SumFunctionOnSet has a  *)
(* solution: by induction on the size of the subsets it is wanted for.     *)
(***************************************************************************)
LEMMA SumExists ==
  ASSUME NEW w, NEW S, IsFiniteSet(S)
  PROVE  \E it : IsSumOf(it, w, S)
<1> DEFINE Upto(n) == {s \in SUBSET S : Cardinality(s) <= n}
<1> DEFINE Good(n) == \E it : it = [s \in Upto(n) |-> SumStep(it, w, s)]
<1> DEFINE P == {n \in Nat : Good(n)}
<1>1. \A s \in SUBSET S : IsFiniteSet(s) /\ Cardinality(s) \in Nat /\ Cardinality(s) <= Cardinality(S)
  BY FS_Subset, FS_CardinalityType
<1>2. 0 \in P
  <2> DEFINE it == [s \in Upto(0) |-> 0]
  <2>1. \A s \in Upto(0) : s = {}
    BY <1>1, FS_EmptySet
  <2>2. it = [s \in Upto(0) |-> SumStep(it, w, s)]
    BY <2>1 DEF SumStep
  <2>3. QED BY <2>2
<1>3. ASSUME NEW n \in Nat, n \in P PROVE n + 1 \in P
  <2>1. PICK it : it = [s \in Upto(n) |-> SumStep(it, w, s)]
    BY <1>3
  <2> DEFINE jt == [s \in Upto(n + 1) |-> SumStep(it, w, s)]
  <2>2. Upto(n) \subseteq Upto(n + 1)
    BY <1>1
  <2>3. \A s \in Upto(n) : jt[s] = it[s]
    <3> SUFFICES ASSUME NEW s \in Upto(n) PROVE jt[s] = it[s]
      OBVIOUS
    <3>1. it[s] = SumStep(it, w, s)
      <4> HIDE DEF Upto
      <4> QED BY <2>1
    <3>2. jt[s] = SumStep(it, w, s)
      BY <2>2
    <3>3. QED BY <3>1, <3>2
  <2>4. ASSUME NEW s \in Upto(n + 1) PROVE SumStep(it, w, s) = SumStep(jt, w, s)
    <3>1. CASE s = {}
      BY <3>1 DEF SumStep
    <3>2. CASE s # {}
      <4> DEFINE x == CHOOSE y \in s : TRUE
      <4>1. x \in s
        BY <3>2
      <4> HIDE DEF x
      <4>2. s \ {x} \in Upto(n)
        BY <4>1, <1>1, FS_RemoveElement
      <4>3. jt[s \ {x}] = it[s \ {x}]
        BY <2>3, <4>2
      <4> HIDE DEF jt
      <4>4. QED BY <4>3, <3>2 DEF SumStep, x
    <3>3. QED BY <3>1, <3>2
  <2>5. jt = [s \in Upto(n + 1) |-> SumStep(jt, w, s)]
    BY <2>4
  <2> HIDE DEF Upto, jt
  <2>6. Good(n + 1)
    BY <2>5
  <2>7. QED BY <2>6
<1>4. Cardinality(S) \in P
  <2>1. Cardinality(S) \in Nat
    BY FS_CardinalityType
  <2> HIDE DEF P
  <2> QED BY <2>1, <1>2, <1>3, NatInduct
<1>5. Upto(Cardinality(S)) = SUBSET S
  BY <1>1
<1>6. QED BY <1>4, <1>5 DEF IsSumOf

(***************************************************************************)
(* Two solutions agree on every set both are defined for.                  *)
(***************************************************************************)
LEMMA SumUnique ==
  ASSUME NEW w, NEW S, NEW T, IsFiniteSet(T), T \subseteq S,
         NEW it, IsSumOf(it, w, S), NEW jt, IsSumOf(jt, w, T)
  PROVE  it[T] = jt[T]
<1> DEFINE P == {s \in SUBSET T : it[s] = jt[s]}
<1>1. ASSUME NEW s \in SUBSET T, \A u \in SUBSET s : u # s => u \in P
      PROVE  s \in P
  <2>1. it[s] = SumStep(it, w, s) /\ jt[s] = SumStep(jt, w, s)
    BY DEF IsSumOf
  <2>2. CASE s = {}
    BY <2>1, <2>2 DEF SumStep
  <2>3. CASE s # {}
    <3> DEFINE x == CHOOSE y \in s : TRUE
    <3>1. x \in s
      BY <2>3
    <3> HIDE DEF x
    <3>2. it[s \ {x}] = jt[s \ {x}]
      BY <3>1, <1>1
    <3>3. QED BY <2>1, <2>3, <3>2 DEF SumStep, x
  <2>4. QED BY <2>2, <2>3
<1>2. \A s \in SUBSET T : s \in P
  <2> HIDE DEF P
  <2> QED BY <1>1, SubsetInduction
<1>3. QED BY <1>2

(***************************************************************************)
(* So a solution for a set is the sum of each of its subsets.              *)
(***************************************************************************)
LEMMA SumIs ==
  ASSUME NEW w, NEW S, IsFiniteSet(S), NEW it, IsSumOf(it, w, S), NEW T \in SUBSET S
  PROVE  it[T] = SumFunctionOnSet(w, T)
<1>1. IsFiniteSet(T)
  BY FS_Subset
<1>2. IsSumOf(CHOOSE jt : IsSumOf(jt, w, T), w, T)
  BY <1>1, SumExists
<1>3. QED BY <1>1, <1>2, SumUnique, SumUnfold

(***************************************************************************)
(* The laws of sums: none of it; whatever element is chosen first;         *)
(* integers have an integer sum; any element may be taken out or put in;   *)
(* the sum over two disjoint sets.                                         *)
(***************************************************************************)
LEMMA SumEmpty ==
  ASSUME NEW w
  PROVE  SumFunctionOnSet(w, {}) = 0
<1>1. PICK it : IsSumOf(it, w, {})
  BY SumExists, FS_EmptySet
<1>2. it[{}] = 0
  BY <1>1 DEF IsSumOf, SumStep
<1>3. QED BY <1>1, <1>2, SumIs, FS_EmptySet

LEMMA SumChosen ==
  ASSUME NEW w, NEW S, IsFiniteSet(S), S # {}
  PROVE  \E x \in S : SumFunctionOnSet(w, S) = w[x] + SumFunctionOnSet(w, S \ {x})
<1>1. PICK it : IsSumOf(it, w, S)
  BY SumExists
<1> DEFINE x == CHOOSE y \in S : TRUE
<1>2. x \in S
  OBVIOUS
<1>3. it[S] = w[x] + it[S \ {x}]
  BY <1>1 DEF IsSumOf, SumStep
<1> HIDE DEF x
<1>4. it[S] = SumFunctionOnSet(w, S) /\ it[S \ {x}] = SumFunctionOnSet(w, S \ {x})
  BY <1>1, SumIs
<1>5. QED BY <1>2, <1>3, <1>4

LEMMA SumInt ==
  ASSUME NEW w, NEW S, IsFiniteSet(S), \A x \in S : w[x] \in Int
  PROVE  SumFunctionOnSet(w, S) \in Int
<1> DEFINE P == {T \in SUBSET S : SumFunctionOnSet(w, T) \in Int}
<1>1. ASSUME NEW T \in SUBSET S, \A U \in SUBSET T : U # T => U \in P
      PROVE  T \in P
  <2>1. CASE T = {}
    BY <2>1, SumEmpty
  <2>2. CASE T # {}
    <3>1. PICK x \in T : SumFunctionOnSet(w, T) = w[x] + SumFunctionOnSet(w, T \ {x})
      BY <2>2, SumChosen, FS_Subset
    <3>2. SumFunctionOnSet(w, T \ {x}) \in Int
      BY <1>1
    <3>3. QED BY <3>1, <3>2
  <2>3. QED BY <2>1, <2>2
<1>2. \A T \in SUBSET S : T \in P
  <2> HIDE DEF P
  <2> QED BY <1>1, SubsetInduction
<1>3. QED BY <1>2

LEMMA SumRemove ==
  ASSUME NEW w, NEW S, IsFiniteSet(S), \A x \in S : w[x] \in Int, NEW x \in S
  PROVE  SumFunctionOnSet(w, S) = w[x] + SumFunctionOnSet(w, S \ {x})
<1> DEFINE Sum(T) == SumFunctionOnSet(w, T)
<1> DEFINE P == {T \in SUBSET S : \A y \in T : Sum(T) = w[y] + Sum(T \ {y})}
<1>0. \A T \in SUBSET S : IsFiniteSet(T) /\ Sum(T) \in Int
  BY SumInt, FS_Subset
<1>1. ASSUME NEW T \in SUBSET S, \A U \in SUBSET T : U # T => U \in P
      PROVE  T \in P
  <2> SUFFICES ASSUME NEW y \in T PROVE Sum(T) = w[y] + Sum(T \ {y})
    OBVIOUS
  <2>1. PICK z \in T : Sum(T) = w[z] + Sum(T \ {z})
    BY <1>0, SumChosen
  <2>2. CASE y = z
    BY <2>1, <2>2
  <2>3. CASE y # z
    <3>1. Sum(T \ {z}) = w[y] + Sum((T \ {z}) \ {y})
      BY <1>1, <2>3
    <3>2. Sum(T \ {y}) = w[z] + Sum((T \ {y}) \ {z})
      BY <1>1, <2>3
    <3>3. (T \ {z}) \ {y} = (T \ {y}) \ {z}
      OBVIOUS
    <3>4. w[y] \in Int /\ w[z] \in Int /\ Sum((T \ {z}) \ {y}) \in Int
      BY <1>0
    <3> DEFINE sT == Sum(T)
               sY == Sum(T \ {y})
               sZ == Sum(T \ {z})
               sYZ == Sum((T \ {y}) \ {z})
    <3>5. sT = w[z] + sZ /\ sZ = w[y] + sYZ /\ sY = w[z] + sYZ /\ sYZ \in Int
      BY <2>1, <3>1, <3>2, <3>3, <3>4
    <3> HIDE DEF sT, sY, sZ, sYZ
    <3>6. sT = w[y] + sY
      BY <3>4, <3>5
    <3>7. QED BY <3>6 DEF sT, sY
  <2>4. QED BY <2>2, <2>3
<1>2. \A T \in SUBSET S : T \in P
  <2> HIDE DEF P
  <2> QED BY <1>1, SubsetInduction
<1>3. QED BY <1>2

LEMMA SumAdd ==
  ASSUME NEW w, NEW S, IsFiniteSet(S), \A y \in S : w[y] \in Int,
         NEW x, x \notin S, w[x] \in Int
  PROVE  SumFunctionOnSet(w, S \cup {x}) = w[x] + SumFunctionOnSet(w, S)
<1>1. IsFiniteSet(S \cup {x})
  BY FS_AddElement
<1>2. (S \cup {x}) \ {x} = S
  OBVIOUS
<1>3. QED BY <1>1, <1>2, SumRemove

(***************************************************************************)
(* Induction by one element more.                                          *)
(***************************************************************************)
LEMMA GrowInduction ==
  ASSUME NEW S, IsFiniteSet(S), NEW P, {} \in P,
         \A T \in SUBSET S : \A x \in S \ T : T \in P => T \cup {x} \in P
  PROVE  S \in P
<1>1. ASSUME NEW T \in SUBSET S, \A U \in SUBSET T : U # T => U \in P
      PROVE  T \in P
  <2>1. CASE T # {}
    <3>1. PICK x \in T : TRUE
      BY <2>1
    <3>2. T \ {x} \in P /\ (T \ {x}) \cup {x} = T /\ x \in S \ (T \ {x}) /\ T \ {x} \in SUBSET S
      BY <1>1
    <3>3. QED BY <3>2
  <2>2. QED BY <2>1
<1>2. QED BY <1>1, SubsetInduction

LEMMA SumUnion ==
  ASSUME NEW w, NEW A, IsFiniteSet(A), NEW B, IsFiniteSet(B), A \cap B = {},
         \A x \in A \cup B : w[x] \in Int
  PROVE  SumFunctionOnSet(w, A \cup B) = SumFunctionOnSet(w, A) + SumFunctionOnSet(w, B)
<1> DEFINE Sum(T) == SumFunctionOnSet(w, T)
<1> DEFINE P == {T \in SUBSET B : Sum(A \cup T) = Sum(A) + Sum(T)}
<1>1. \A T \in SUBSET B : IsFiniteSet(T) /\ IsFiniteSet(A \cup T)
  BY FS_Subset, FS_Union
<1>2. \A T \in SUBSET B : Sum(A) \in Int /\ Sum(T) \in Int /\ Sum(A \cup T) \in Int
  BY <1>1, SumInt
<1>3. {} \in P
  BY SumEmpty, <1>2
<1>4. ASSUME NEW T \in SUBSET B, NEW x \in B \ T, T \in P
      PROVE  T \cup {x} \in P
  <2>1. Sum(T \cup {x}) = w[x] + Sum(T)
    BY <1>1, SumAdd
  <2>2. Sum((A \cup T) \cup {x}) = w[x] + Sum(A \cup T)
    BY <1>1, SumAdd
  <2>3. (A \cup T) \cup {x} = A \cup (T \cup {x})
    OBVIOUS
  <2>4. w[x] \in Int /\ Sum(A \cup T) = Sum(A) + Sum(T)
    BY <1>4
  <2>5. Sum(A) \in Int /\ Sum(T) \in Int
    BY <1>2
  <2>6. T \cup {x} \in SUBSET B
    OBVIOUS
  <2>7. Sum(A \cup (T \cup {x})) = Sum(A) + Sum(T \cup {x})
    <3> DEFINE sA == Sum(A)
               sT == Sum(T)
               sAx == Sum(A \cup (T \cup {x}))
               sTx == Sum(T \cup {x})
    <3>1. sTx = w[x] + sT /\ sAx = w[x] + (sA + sT)
      BY <2>1, <2>2, <2>3, <2>4
    <3> HIDE DEF sA, sT, sAx, sTx
    <3>2. sA \in Int /\ sT \in Int
      BY <2>5 DEF sA, sT
    <3>3. sAx = sA + sTx
      BY <2>4, <3>1, <3>2
    <3>4. QED BY <3>3 DEF sA, sAx, sTx
  <2>8. QED BY <2>6, <2>7
<1>5. B \in P
  <2> HIDE DEF P
  <2> QED BY <1>3, <1>4, GrowInduction
<1>6. QED BY <1>5

-----------------------------------------------------------------------------
(***************************************************************************)
(* Gains, totals and costs.                                                *)
(***************************************************************************)

(***************************************************************************)
(* The gain of f and the cost of a cut, for a weighted graph g and the     *)
(* functions on one side.                                                  *)
(***************************************************************************)
EdgeCosts(g, f) ==
  [other \in Functions |-> g.inWeight[<<other, f>>] + g.outWeight[<<f, other>>]]
FunctionCosts(g) == [f \in Functions |-> g.related[f] - g.size[f]]
GainOf(g, I, f) ==
  SumFunctionOnSet(EdgeCosts(g, f), Functions \ I)
    - SumFunctionOnSet(EdgeCosts(g, f), Functions \cap I) + FunctionCosts(g)[f]
CostOf(g, S) ==
  SumFunctionOnSet(g.outWeight, CutEdges(S)) - SumFunctionOnSet(FunctionCosts(g), S)

(***************************************************************************)
(* The cost of a cut and the weights of a function's edges are these of    *)
(* the graph the pass runs on.                                             *)
(***************************************************************************)
LEMMA EdgeWeightsAre == \A f : edgeWeights(f) = EdgeCosts(graph, f)
  BY DEF edgeWeights, EdgeCosts, inWeights, outWeights

LEMMA CutCostIsCostOf ==
  ASSUME NEW S
  PROVE  CutCost(S) = CostOf(graph, S)
  BY DEF CutCost, CostOf, FunctionCosts, functionCost

(***************************************************************************)
(* Node costs, sums of edge costs, gains and costs of cuts are integers.   *)
(***************************************************************************)
LEMMA CostsAreInts ==
  ASSUME NEW g \in Graphs, NEW f \in Functions
  PROVE  /\ EdgeCosts(g, f) \in [Functions -> Nat]
         /\ FunctionCosts(g) \in [Functions -> Int]
         /\ \A S \in SUBSET Functions :
              /\ IsFiniteSet(S)
              /\ SumFunctionOnSet(EdgeCosts(g, f), S) \in Int
              /\ SumFunctionOnSet(FunctionCosts(g), S) \in Int
         /\ \A I : GainOf(g, I, f) \in Int
<1>1. EdgeCosts(g, f) \in [Functions -> Nat] /\ FunctionCosts(g) \in [Functions -> Int]
  BY GraphsAssumption DEF EdgeCosts, FunctionCosts
<1>2. ASSUME NEW S \in SUBSET Functions
      PROVE  /\ IsFiniteSet(S)
             /\ SumFunctionOnSet(EdgeCosts(g, f), S) \in Int
             /\ SumFunctionOnSet(FunctionCosts(g), S) \in Int
  <2>1. IsFiniteSet(S)
    BY FunctionsAssumption, FS_Subset
  <2>2. \A x \in S : EdgeCosts(g, f)[x] \in Int /\ FunctionCosts(g)[x] \in Int
    BY <1>1
  <2>3. QED BY <2>1, <2>2, SumInt
<1>3. \A I : GainOf(g, I, f) \in Int
  <2> TAKE I
  <2>1. Functions \ I \in SUBSET Functions /\ Functions \cap I \in SUBSET Functions
    OBVIOUS
  <2>2. QED BY <1>1, <1>2, <2>1 DEF GainOf
<1>4. QED BY <1>1, <1>2, <1>3

LEMMA CostIsInt ==
  ASSUME NEW g \in Graphs, NEW S \in SUBSET Functions
  PROVE  CostOf(g, S) \in Int
<1> DEFINE C == CutEdges(S)
           N == FunctionCosts(g)
<1>1. C \in SUBSET (Functions \X Functions)
  BY DEF CutEdges
<1>2. IsFiniteSet(C) /\ IsFiniteSet(S)
  BY <1>1, FunctionsAssumption, FS_Product, FS_Subset
<1>3. (\A e \in C : g.outWeight[e] \in Int) /\ \A f \in S : N[f] \in Int
  BY <1>1, GraphsAssumption DEF FunctionCosts
<1> HIDE DEF C, N
<1>4. SumFunctionOnSet(g.outWeight, C) \in Int /\ SumFunctionOnSet(N, S) \in Int
  BY <1>2, <1>3, SumInt
<1>5. QED BY <1>4 DEF CostOf, C, N

(***************************************************************************)
(* What computeMoveGains adds: when f changes sides, the calls between h   *)
(* and f turn from internal to external ones.                              *)
(***************************************************************************)
LEMMA GainShift ==
  ASSUME NEW g \in Graphs, NEW I \in SUBSET Functions, NEW f \in I, NEW h \in Functions
  PROVE  GainOf(g, I \ {f}, h) = GainOf(g, I, h) + 2 * EdgeCosts(g, h)[f]
<1> DEFINE w == EdgeCosts(g, h)
           sum(S) == SumFunctionOnSet(w, S)
           out == sum(Functions \ I)
           in == sum(Functions \cap I)
           out2 == sum(Functions \ (I \ {f}))
           in2 == sum(Functions \cap (I \ {f}))
           n == FunctionCosts(g)[h]
<1>1. w \in [Functions -> Int] /\ n \in Int /\ out \in Int /\ in \in Int
  <2>1. Functions \ I \in SUBSET Functions /\ Functions \cap I \in SUBSET Functions
    OBVIOUS
  <2>2. QED BY <2>1, CostsAreInts
<1>2. out2 = w[f] + out
  <2>1. Functions \ (I \ {f}) = (Functions \ I) \cup {f}
    OBVIOUS
  <2>2. IsFiniteSet(Functions \ I) /\ f \notin Functions \ I
    BY FunctionsAssumption, FS_Subset
  <2>3. \A y \in Functions \ I : w[y] \in Int
    BY <1>1
  <2>4. w[f] \in Int
    BY <1>1
  <2> HIDE DEF w
  <2>5. QED BY <2>1, <2>2, <2>3, <2>4, SumAdd
<1>3. in = w[f] + in2
  <2>1. Functions \cap (I \ {f}) = (Functions \cap I) \ {f}
    OBVIOUS
  <2>2. IsFiniteSet(Functions \cap I) /\ f \in Functions \cap I
    BY FunctionsAssumption, FS_Subset
  <2>3. \A y \in Functions \cap I : w[y] \in Int
    BY <1>1
  <2> HIDE DEF w
  <2>4. QED BY <2>1, <2>2, <2>3, SumRemove
<1>4. w[f] \in Int /\ in2 \in Int
  <2>1. Functions \cap (I \ {f}) \in SUBSET Functions
    OBVIOUS
  <2>2. QED BY <1>1, <2>1, CostsAreInts
<1>5. GainOf(g, I, h) = out - in + n /\ GainOf(g, I \ {f}, h) = out2 - in2 + n
  BY DEF GainOf
<1>6. (w[f] + out) - in2 + n = out - (w[f] + in2) + n + 2 * w[f]
  <2> HIDE DEF w, out, in2, n
  <2> QED BY <1>1, <1>4
<1>7. QED BY <1>2, <1>3, <1>5, <1>6

(***************************************************************************)
(* The edges between f and a set of other functions weigh, when both       *)
(* copies weigh the same, what f's own copies say.                         *)
(***************************************************************************)
EdgesBetween(f, O) == (O \X {f}) \cup ({f} \X O)

LEMMA EdgesBetweenWeigh ==
  ASSUME NEW g \in Graphs, Symmetric(g), NEW f \in Functions,
         NEW O \in SUBSET (Functions \ {f})
  PROVE  SumFunctionOnSet(g.outWeight, EdgesBetween(f, O))
           = SumFunctionOnSet(EdgeCosts(g, f), O)
<1> DEFINE w == g.outWeight
           c == EdgeCosts(g, f)
           P == {T \in SUBSET O : SumFunctionOnSet(w, EdgesBetween(f, T))
                                    = SumFunctionOnSet(c, T)}
<1>1. /\ w \in [Functions \X Functions -> Nat]
      /\ \A o \in Functions : c[o] = w[<<o, f>>] + w[<<f, o>>]
  BY GraphsAssumption DEF Symmetric, EdgeCosts
<1>2. IsFiniteSet(O)
  BY FunctionsAssumption, FS_Subset
<1>3. IsFiniteSet(Functions \X Functions)
  BY FunctionsAssumption, FS_Product
<1>4. {} \in P
  <2>1. EdgesBetween(f, {}) = {}
    BY DEF EdgesBetween
  <2>2. QED BY <2>1, SumEmpty
<1>5. ASSUME NEW T \in SUBSET O, NEW x \in O \ T, T \in P
      PROVE  T \cup {x} \in P
  <2> DEFINE E == EdgesBetween(f, T)
  <2>1. /\ EdgesBetween(f, T \cup {x}) = (E \cup {<<x, f>>}) \cup {<<f, x>>}
        /\ <<x, f>> \notin E /\ <<f, x>> \notin E \cup {<<x, f>>}
        /\ E \in SUBSET (Functions \X Functions)
        /\ E \cup {<<x, f>>} \in SUBSET (Functions \X Functions)
        /\ <<x, f>> \in Functions \X Functions /\ <<f, x>> \in Functions \X Functions
    BY DEF EdgesBetween
  <2> HIDE DEF E
  <2>2. IsFiniteSet(E) /\ IsFiniteSet(E \cup {<<x, f>>})
    BY <1>3, <2>1, FS_Subset
  <2>3. /\ \A e \in E \cup {<<x, f>>} : w[e] \in Int
        /\ w[<<f, x>>] \in Int /\ w[<<x, f>>] \in Int
    BY <1>1, <2>1
  <2>4. SumFunctionOnSet(w, E \cup {<<x, f>>}) = w[<<x, f>>] + SumFunctionOnSet(w, E)
    BY <2>1, <2>2, <2>3, SumAdd
  <2>5. SumFunctionOnSet(w, (E \cup {<<x, f>>}) \cup {<<f, x>>})
          = w[<<f, x>>] + SumFunctionOnSet(w, E \cup {<<x, f>>})
    BY <2>1, <2>2, <2>3, SumAdd
  <2>6. SumFunctionOnSet(c, T \cup {x}) = c[x] + SumFunctionOnSet(c, T)
    <3>1. IsFiniteSet(T) /\ x \notin T
      BY <1>2, FS_Subset
    <3>2. c \in [Functions -> Nat]
      BY CostsAreInts
    <3>3. (\A y \in T : c[y] \in Int) /\ c[x] \in Int
      BY <3>2
    <3> HIDE DEF c
    <3>4. QED BY <3>1, <3>3, SumAdd
  <2>7. /\ c[x] = w[<<x, f>>] + w[<<f, x>>]
        /\ SumFunctionOnSet(w, E) = SumFunctionOnSet(c, T)
        /\ SumFunctionOnSet(w, E) \in Int
    BY <1>1, <1>5, <2>2, <2>3, SumInt DEF E
  <2>8. SumFunctionOnSet(w, (E \cup {<<x, f>>}) \cup {<<f, x>>})
          = SumFunctionOnSet(c, T \cup {x})
    <3> DEFINE a == w[<<x, f>>]
               b == w[<<f, x>>]
               s == SumFunctionOnSet(c, T)
    <3>1. a \in Int /\ b \in Int /\ s \in Int
      BY <2>3, <2>7
    <3>2. b + (a + s) = (a + b) + s
      <4> HIDE DEF a, b, s
      <4> QED BY <3>1
    <3>3. QED BY <2>4, <2>5, <2>6, <2>7, <3>2
  <2>9. QED BY <2>1, <2>8
<1>6. O \in P
  <2> HIDE DEF P
  <2> QED BY <1>2, <1>4, <1>5, GrowInduction
<1>7. QED BY <1>6

(***************************************************************************)
(* One function more on the secure side lowers the cost of the cut by no   *)
(* less than its gain: exactly by the gain and by twice its calls to       *)
(* itself, which are counted as internal ones and are not cut.             *)
(***************************************************************************)
LEMMA MoveLowersCost ==
  ASSUME NEW g \in Graphs, Symmetric(g), NEW S \in SUBSET Functions,
         NEW f \in Functions \ S
  PROVE  /\ CostOf(g, S \cup {f}) \in Int /\ CostOf(g, S) \in Int
         /\ CostOf(g, S \cup {f}) <= CostOf(g, S) - GainOf(g, Functions \ S, f)
<1> DEFINE w == g.outWeight
           c == EdgeCosts(g, f)
           N == Functions \ (S \cup {f})
           rest == CutEdges(S) \ EdgesBetween(f, S)
<1>1. /\ w \in [Functions \X Functions -> Nat]
      /\ c \in [Functions -> Nat]
      /\ FunctionCosts(g) \in [Functions -> Int]
  BY GraphsAssumption, CostsAreInts
<1>2. IsFiniteSet(Functions \X Functions)
  BY FunctionsAssumption, FS_Product
<1>3. /\ CutEdges(S) = rest \cup EdgesBetween(f, S)
      /\ CutEdges(S \cup {f}) = rest \cup EdgesBetween(f, N)
      /\ rest \cap EdgesBetween(f, S) = {} /\ rest \cap EdgesBetween(f, N) = {}
  <2>1. EdgesBetween(f, S) \subseteq CutEdges(S)
    BY DEF EdgesBetween, CutEdges
  <2>2. ASSUME NEW a \in Functions, NEW b \in Functions
        PROVE  <<a, b>> \in CutEdges(S \cup {f})
                 <=> <<a, b>> \in rest \cup EdgesBetween(f, N)
    BY DEF EdgesBetween, CutEdges
  <2>3. /\ CutEdges(S \cup {f}) \subseteq Functions \X Functions
        /\ rest \cup EdgesBetween(f, N) \subseteq Functions \X Functions
    BY DEF EdgesBetween, CutEdges
  <2>4. CutEdges(S \cup {f}) = rest \cup EdgesBetween(f, N)
    <3> DEFINE X == CutEdges(S \cup {f})
               Y == rest \cup EdgesBetween(f, N)
    <3>1. \A a, b \in Functions : <<a, b>> \in X <=> <<a, b>> \in Y
      BY <2>2
    <3>2. X \subseteq Functions \X Functions /\ Y \subseteq Functions \X Functions
      BY <2>3
    <3> HIDE DEF X, Y
    <3>3. \A e \in Functions \X Functions :
            \E a, b \in Functions : e = <<a, b>>
      OBVIOUS
    <3>4. X = Y
      BY <3>1, <3>2, <3>3
    <3>5. QED BY <3>4 DEF X, Y
  <2>5. rest \cap EdgesBetween(f, N) = {}
    BY DEF EdgesBetween, CutEdges
  <2>6. QED BY <2>1, <2>4, <2>5
<1>4. /\ IsFiniteSet(rest) /\ IsFiniteSet(EdgesBetween(f, S))
      /\ IsFiniteSet(EdgesBetween(f, N))
      /\ \A e \in rest \cup EdgesBetween(f, S) : w[e] \in Int
      /\ \A e \in rest \cup EdgesBetween(f, N) : w[e] \in Int
  <2>1. /\ rest \in SUBSET (Functions \X Functions)
        /\ EdgesBetween(f, S) \in SUBSET (Functions \X Functions)
        /\ EdgesBetween(f, N) \in SUBSET (Functions \X Functions)
    BY DEF EdgesBetween, CutEdges
  <2> HIDE DEF rest, N
  <2>2. QED BY <1>1, <1>2, <2>1, FS_Subset
<1>5. /\ SumFunctionOnSet(w, CutEdges(S))
           = SumFunctionOnSet(w, rest) + SumFunctionOnSet(w, EdgesBetween(f, S))
      /\ SumFunctionOnSet(w, CutEdges(S \cup {f}))
           = SumFunctionOnSet(w, rest) + SumFunctionOnSet(w, EdgesBetween(f, N))
      /\ SumFunctionOnSet(w, rest) \in Int
  <2> DEFINE A == EdgesBetween(f, S)
             B == EdgesBetween(f, N)
  <2>1. /\ IsFiniteSet(rest) /\ IsFiniteSet(A) /\ IsFiniteSet(B)
        /\ rest \cap A = {} /\ rest \cap B = {}
        /\ \A e \in rest : w[e] \in Int
        /\ \A e \in rest \cup A : w[e] \in Int
        /\ \A e \in rest \cup B : w[e] \in Int
    BY <1>3, <1>4
  <2> HIDE DEF rest, w, A, B
  <2>2. SumFunctionOnSet(w, rest \cup A) = SumFunctionOnSet(w, rest) + SumFunctionOnSet(w, A)
    BY <2>1, SumUnion
  <2>3. SumFunctionOnSet(w, rest \cup B) = SumFunctionOnSet(w, rest) + SumFunctionOnSet(w, B)
    BY <2>1, SumUnion
  <2>4. SumFunctionOnSet(w, rest) \in Int
    BY <2>1, SumInt
  <2>5. CutEdges(S) = rest \cup A /\ CutEdges(S \cup {f}) = rest \cup B
    BY <1>3 DEF A, B
  <2>6. QED BY <2>2, <2>3, <2>4, <2>5 DEF A, B
<1>6. /\ SumFunctionOnSet(w, EdgesBetween(f, S)) = SumFunctionOnSet(c, S)
      /\ SumFunctionOnSet(w, EdgesBetween(f, N)) = SumFunctionOnSet(c, N)
  <2>1. S \in SUBSET (Functions \ {f}) /\ N \in SUBSET (Functions \ {f})
    OBVIOUS
  <2> HIDE DEF N
  <2>2. QED BY <2>1, EdgesBetweenWeigh
<1>7. SumFunctionOnSet(c, Functions \ S) = c[f] + SumFunctionOnSet(c, N)
  <2>1. IsFiniteSet(Functions \ S) /\ N = (Functions \ S) \ {f}
    BY FunctionsAssumption, FS_Subset
  <2>2. \A y \in Functions \ S : c[y] \in Int
    BY <1>1
  <2> HIDE DEF c, N
  <2>3. QED BY <2>1, <2>2, SumRemove
<1>8. SumFunctionOnSet(FunctionCosts(g), S \cup {f})
        = FunctionCosts(g)[f] + SumFunctionOnSet(FunctionCosts(g), S)
  <2>1. IsFiniteSet(S) /\ f \notin S
    BY FunctionsAssumption, FS_Subset
  <2>2. (\A y \in S : FunctionCosts(g)[y] \in Int) /\ FunctionCosts(g)[f] \in Int
    BY <1>1
  <2>3. QED BY <2>1, <2>2, SumAdd
<1>9. GainOf(g, Functions \ S, f)
        = SumFunctionOnSet(c, S) - SumFunctionOnSet(c, Functions \ S) + FunctionCosts(g)[f]
  <2>1. Functions \ (Functions \ S) = S /\ Functions \cap (Functions \ S) = Functions \ S
    OBVIOUS
  <2>2. QED BY <2>1 DEF GainOf
<1> DEFINE r == SumFunctionOnSet(w, rest)
           a == SumFunctionOnSet(c, S)
           b == SumFunctionOnSet(c, N)
           n == SumFunctionOnSet(FunctionCosts(g), S)
           cf == c[f]
           nf == FunctionCosts(g)[f]
<1>10. /\ CostOf(g, S) = (r + a) - n
       /\ CostOf(g, S \cup {f}) = (r + b) - (nf + n)
       /\ GainOf(g, Functions \ S, f) = a - (cf + b) + nf
  <2> HIDE DEF rest, N
  <2> QED BY <1>5, <1>6, <1>7, <1>8, <1>9 DEF CostOf
<1>11. a \in Int /\ b \in Int /\ n \in Int /\ r \in Int /\ cf \in Nat /\ nf \in Int
  <2>1. N \in SUBSET Functions
    OBVIOUS
  <2> HIDE DEF N, rest
  <2>2. QED BY <1>1, <1>5, <2>1, CostsAreInts
<1>12. QED
  <2> HIDE DEF r, a, b, n, cf, nf
  <2> QED BY <1>10, <1>11

(***************************************************************************)
(* Sums depend on what is summed only.                                     *)
(***************************************************************************)
LEMMA SumSame ==
  ASSUME NEW v, NEW w, NEW S, IsFiniteSet(S), \A x \in S : v[x] \in Int /\ w[x] = v[x]
  PROVE  SumFunctionOnSet(w, S) = SumFunctionOnSet(v, S)
<1> DEFINE P == {T \in SUBSET S : SumFunctionOnSet(w, T) = SumFunctionOnSet(v, T)}
<1>1. {} \in P
  BY SumEmpty
<1>2. ASSUME NEW T \in SUBSET S, NEW x \in S \ T, T \in P
      PROVE  T \cup {x} \in P
  <2>1. IsFiniteSet(T)
    BY FS_Subset
  <2>2. /\ SumFunctionOnSet(w, T \cup {x}) = w[x] + SumFunctionOnSet(w, T)
        /\ SumFunctionOnSet(v, T \cup {x}) = v[x] + SumFunctionOnSet(v, T)
    BY <2>1, SumAdd
  <2>3. QED BY <1>2, <2>2
<1>3. S \in P
  <2> HIDE DEF P
  <2> QED BY <1>1, <1>2, GrowInduction
<1>4. QED BY <1>3

(***************************************************************************)
(* The exact sum of the first numbers of a sequence.                       *)
(***************************************************************************)
PrefixSum(q, n) == SumFunctionOnSet(q, 1 .. n)

LEMMA PrefixSumLaws ==
  ASSUME NEW q \in Seq(Int)
  PROVE  /\ PrefixSum(q, 0) = 0
         /\ \A n \in 0 .. Len(q) : PrefixSum(q, n) \in Int
         /\ \A n \in 1 .. Len(q) : PrefixSum(q, n) = PrefixSum(q, n - 1) + q[n]
<1>1. PrefixSum(q, 0) = 0
  <2>1. 1 .. 0 = {}
    OBVIOUS
  <2>2. QED BY <2>1, SumEmpty DEF PrefixSum
<1>2. ASSUME NEW n \in 0 .. Len(q) PROVE PrefixSum(q, n) \in Int
  <2> DEFINE I == 1 .. n
  <2>1. IsFiniteSet(I) /\ \A k \in I : q[k] \in Int
    BY FS_Interval
  <2> HIDE DEF I
  <2>2. SumFunctionOnSet(q, I) \in Int
    BY <2>1, SumInt
  <2>3. QED BY <2>2 DEF PrefixSum, I
<1>3. ASSUME NEW n \in 1 .. Len(q)
      PROVE  PrefixSum(q, n) = PrefixSum(q, n - 1) + q[n]
  <2> DEFINE I == 1 .. n
             J == 1 .. n - 1
  <2> DEFINE m == n
  <2>1. IsFiniteSet(I) /\ (\A k \in I : q[k] \in Int) /\ m \in I
    <3>1. Len(q) \in Nat /\ n \in Int /\ 1 \in Int
      OBVIOUS
    <3>2. IsFiniteSet(I)
      BY <3>1, FS_Interval
    <3>3. QED BY <3>1, <3>2
  <2>2. SumFunctionOnSet(q, I) = q[n] + SumFunctionOnSet(q, J)
    <3>1. I \ {m} = J
      OBVIOUS
    <3> HIDE DEF I, J, m
    <3>2. SumFunctionOnSet(q, I) = q[m] + SumFunctionOnSet(q, I \ {m})
      BY <2>1, SumRemove
    <3>3. QED BY <3>1, <3>2 DEF m
  <2>3. PrefixSum(q, n) = q[n] + PrefixSum(q, n - 1)
    BY <2>2 DEF PrefixSum, I, J
  <2>4. n - 1 \in 0 .. Len(q) /\ q[n] \in Int
    <3>1. Len(q) \in Nat /\ n \in Int
      OBVIOUS
    <3>2. QED BY <3>1
  <2>5. PrefixSum(q, n - 1) \in Int
    BY <1>2, <2>4
  <2>6. QED BY <2>3, <2>4, <2>5
<1>4. QED BY <1>1, <1>2, <1>3

-----------------------------------------------------------------------------
(***************************************************************************)
(* Saturating sums.                                                        *)
(***************************************************************************)

(***************************************************************************)
(* The sum of two integers is one, and it is the plain sum unless one of   *)
(* the two is infinite and the other has not the opposite sign.            *)
(***************************************************************************)
LEMMA SafeSumInt ==
  ASSUME NEW x \in Int, NEW y \in Int
  PROVE  safe_sum(x, y) \in Int
  BY InfinityAssumption DEF safe_sum, NEG_INFINITY

LEMMA SafeSumExact ==
  ASSUME NEW x \in Int, NEW y \in Int,
         -POS_INFINITY < x, x < POS_INFINITY, y # -POS_INFINITY,
         y = POS_INFINITY => x < 0
  PROVE  safe_sum(x, y) = x + y
  BY InfinityAssumption DEF safe_sum, NEG_INFINITY

RunStep(it, q, n) == IF n = 0 THEN 0 ELSE safe_sum(it[n - 1], q[n])

IsRunOf(it, q, m) == it = [n \in 0 .. m |-> RunStep(it, q, n)]

(***************************************************************************)
(* The recursion of runningSums has a solution, found number by number.    *)
(***************************************************************************)
LEMMA RunExists ==
  ASSUME NEW q
  PROVE  \A m \in Nat : \E it : IsRunOf(it, q, m)
<1> DEFINE P == {m \in Nat : \E it : IsRunOf(it, q, m)}
<1>1. 0 \in P
  <2> DEFINE it == [n \in 0 .. 0 |-> 0]
  <2>1. it = [n \in 0 .. 0 |-> RunStep(it, q, n)]
    BY DEF RunStep
  <2> HIDE DEF it
  <2>2. IsRunOf(it, q, 0)
    BY <2>1 DEF IsRunOf
  <2>3. QED BY <2>2
<1>2. ASSUME NEW m \in Nat, m \in P PROVE m + 1 \in P
  <2>1. PICK it : it = [n \in 0 .. m |-> RunStep(it, q, n)]
    BY <1>2 DEF IsRunOf
  <2> DEFINE jt == [n \in 0 .. m + 1 |-> RunStep(it, q, n)]
  <2>2. \A n \in 0 .. m : jt[n] = it[n]
    <3> SUFFICES ASSUME NEW n \in 0 .. m PROVE jt[n] = it[n]
      OBVIOUS
    <3>1. it[n] = RunStep(it, q, n)
      BY <2>1
    <3>2. n \in 0 .. m + 1
      OBVIOUS
    <3>3. jt[n] = RunStep(it, q, n)
      BY <3>2
    <3>4. QED BY <3>1, <3>3
  <2>3. ASSUME NEW n \in 0 .. m + 1 PROVE RunStep(it, q, n) = RunStep(jt, q, n)
    <3>1. CASE n = 0
      BY <3>1 DEF RunStep
    <3>2. CASE n # 0
      <4>1. n - 1 \in 0 .. m
        BY <3>2
      <4>2. jt[n - 1] = it[n - 1]
        BY <2>2, <4>1
      <4> HIDE DEF jt
      <4>3. QED BY <3>2, <4>2 DEF RunStep
    <3>3. QED BY <3>1, <3>2
  <2>4. jt = [n \in 0 .. m + 1 |-> RunStep(jt, q, n)]
    BY <2>3
  <2> HIDE DEF jt
  <2>5. IsRunOf(jt, q, m + 1)
    BY <2>4 DEF IsRunOf
  <2>6. QED BY <2>5
<1>3. \A m \in Nat : m \in P
  <2> HIDE DEF P
  <2> QED BY <1>1, <1>2, NatInduct
<1>4. QED BY <1>3

(***************************************************************************)
(* It starts at 0, takes one number after the other, and stays an integer. *)
(***************************************************************************)
LEMMA RunningSumsLaws ==
  ASSUME NEW q \in Seq(Int)
  PROVE  /\ runningSums(q)[0] = 0
         /\ \A n \in 1 .. Len(q) : runningSums(q)[n] = safe_sum(runningSums(q)[n - 1], q[n])
         /\ \A n \in 0 .. Len(q) : runningSums(q)[n] \in Int
<1> DEFINE run == CHOOSE it : IsRunOf(it, q, Len(q))
           L == Len(q)
<1>0. L \in Nat
  OBVIOUS
<1>1. runningSums(q) = run
  BY DEF runningSums, IsRunOf, RunStep
<1>2. IsRunOf(run, q, L)
  BY <1>0, RunExists
<1> HIDE DEF run
<1>3. \A n \in 0 .. L : run[n] = RunStep(run, q, n)
  BY <1>2 DEF IsRunOf
<1>4. run[0] = 0
  BY <1>0, <1>3 DEF RunStep
<1>5. \A n \in 1 .. L : run[n] = safe_sum(run[n - 1], q[n])
  <2> SUFFICES ASSUME NEW n \in 1 .. L PROVE run[n] = safe_sum(run[n - 1], q[n])
    OBVIOUS
  <2>1. n \in 0 .. L /\ n # 0
    BY <1>0
  <2>2. QED BY <1>3, <2>1 DEF RunStep
<1>6. \A n \in Nat : n <= L => run[n] \in Int
  <2> DEFINE P == {n \in Nat : n <= L => run[n] \in Int}
  <2>1. 0 \in P
    BY <1>4
  <2>2. ASSUME NEW n \in Nat, n \in P PROVE n + 1 \in P
    <3> SUFFICES ASSUME n + 1 <= L PROVE run[n + 1] \in Int
      OBVIOUS
    <3>1. n + 1 \in 1 .. L /\ (n + 1) - 1 = n /\ run[n] \in Int
      BY <1>0, <2>2
    <3>2. q[n + 1] \in Int
      BY <3>1
    <3>3. QED BY <1>5, <3>1, <3>2, SafeSumInt
  <2>3. \A n \in Nat : n \in P
    <3> HIDE DEF P
    <3> QED BY <2>1, <2>2, NatInduct
  <2>4. QED BY <2>3
<1>7. \A n \in 0 .. L : run[n] \in Int
  BY <1>0, <1>6
<1>8. QED BY <1>1, <1>4, <1>5, <1>7

(***************************************************************************)
(* The first of them do not depend on what comes after.                    *)
(***************************************************************************)
LEMMA RunningSumsAppend ==
  ASSUME NEW q \in Seq(Int), NEW x \in Int
  PROVE  \A n \in 0 .. Len(q) : runningSums(Append(q, x))[n] = runningSums(q)[n]
<1> DEFINE r == Append(q, x)
           L == Len(q)
           P == {n \in Nat : n <= L => runningSums(r)[n] = runningSums(q)[n]}
<1>1. r \in Seq(Int) /\ Len(r) = L + 1 /\ L \in Nat /\ \A k \in 1 .. L : r[k] = q[k]
  OBVIOUS
<1> HIDE DEF r
<1>2. 0 \in P
  BY <1>1, RunningSumsLaws
<1>3. ASSUME NEW n \in Nat, n \in P PROVE n + 1 \in P
  <2> SUFFICES ASSUME n + 1 <= L PROVE runningSums(r)[n + 1] = runningSums(q)[n + 1]
    OBVIOUS
  <2>1. /\ n + 1 \in 1 .. L /\ n + 1 \in 1 .. Len(r) /\ (n + 1) - 1 = n
        /\ runningSums(r)[n] = runningSums(q)[n]
    BY <1>1, <1>3
  <2>2. /\ runningSums(r)[n + 1] = safe_sum(runningSums(r)[n], r[n + 1])
        /\ runningSums(q)[n + 1] = safe_sum(runningSums(q)[n], q[n + 1])
    BY <1>1, <2>1, RunningSumsLaws
  <2>3. QED BY <1>1, <2>1, <2>2
<1>4. \A n \in Nat : n \in P
  <2> HIDE DEF P
  <2> QED BY <1>2, <1>3, NatInduct
<1>5. QED BY <1>1, <1>4 DEF r

(***************************************************************************)
(* Sums of natural numbers are natural and grow with the set.              *)
(***************************************************************************)
LEMMA SumNat ==
  ASSUME NEW w, NEW S, IsFiniteSet(S), \A x \in S : w[x] \in Nat
  PROVE  SumFunctionOnSet(w, S) \in Nat
<1> DEFINE P == {T \in SUBSET S : SumFunctionOnSet(w, T) \in Nat}
<1>1. {} \in P
  BY SumEmpty
<1>2. ASSUME NEW T \in SUBSET S, NEW x \in S \ T, T \in P
      PROVE  T \cup {x} \in P
  <2>1. IsFiniteSet(T)
    BY FS_Subset
  <2>2. SumFunctionOnSet(w, T \cup {x}) = w[x] + SumFunctionOnSet(w, T)
    BY <2>1, SumAdd
  <2>3. QED BY <1>2, <2>2
<1>3. S \in P
  <2> HIDE DEF P
  <2> QED BY <1>1, <1>2, GrowInduction
<1>4. QED BY <1>3

LEMMA SumGrows ==
  ASSUME NEW w, NEW S, IsFiniteSet(S), \A x \in S : w[x] \in Nat, NEW T \in SUBSET S
  PROVE  SumFunctionOnSet(w, T) <= SumFunctionOnSet(w, S)
<1> DEFINE R == S \ T
<1>1. IsFiniteSet(T) /\ IsFiniteSet(R) /\ T \cap R = {} /\ T \cup R = S
  BY FS_Subset
<1>2. (\A x \in T : w[x] \in Nat) /\ (\A x \in R : w[x] \in Nat)
      /\ \A x \in T \cup R : w[x] \in Int
  OBVIOUS
<1> HIDE DEF R
<1>3. SumFunctionOnSet(w, T \cup R) = SumFunctionOnSet(w, T) + SumFunctionOnSet(w, R)
  BY <1>1, <1>2, SumUnion
<1>4. SumFunctionOnSet(w, T) \in Nat /\ SumFunctionOnSet(w, R) \in Nat
  BY <1>1, <1>2, SumNat
<1> DEFINE t == SumFunctionOnSet(w, T)
           r == SumFunctionOnSet(w, R)
           all == SumFunctionOnSet(w, S)
<1>5. all = t + r
  BY <1>1, <1>3
<1>6. t <= all
  <2> HIDE DEF t, r, all
  <2>1. t \in Nat /\ r \in Nat
    BY <1>4 DEF t, r
  <2>2. QED BY <1>5, <2>1
<1>7. QED BY <1>6

(***************************************************************************)
(* The sum of two functions, and of a function that is 0 everywhere.       *)
(***************************************************************************)
LEMMA SumOfBoth ==
  ASSUME NEW u, NEW v, NEW w, NEW S, IsFiniteSet(S),
         \A x \in S : u[x] \in Int /\ v[x] \in Int /\ w[x] = u[x] + v[x]
  PROVE  SumFunctionOnSet(w, S) = SumFunctionOnSet(u, S) + SumFunctionOnSet(v, S)
<1> DEFINE P == {T \in SUBSET S : SumFunctionOnSet(w, T)
                   = SumFunctionOnSet(u, T) + SumFunctionOnSet(v, T)}
<1>1. {} \in P
  BY SumEmpty
<1>2. ASSUME NEW T \in SUBSET S, NEW x \in S \ T, T \in P
      PROVE  T \cup {x} \in P
  <2>1. IsFiniteSet(T)
    BY FS_Subset
  <2>2. \A y \in S : u[y] \in Int /\ v[y] \in Int /\ w[y] \in Int
    OBVIOUS
  <2>3. /\ SumFunctionOnSet(w, T \cup {x}) = w[x] + SumFunctionOnSet(w, T)
        /\ SumFunctionOnSet(u, T \cup {x}) = u[x] + SumFunctionOnSet(u, T)
        /\ SumFunctionOnSet(v, T \cup {x}) = v[x] + SumFunctionOnSet(v, T)
    BY <2>1, <2>2, SumAdd
  <2>4. SumFunctionOnSet(u, T) \in Int /\ SumFunctionOnSet(v, T) \in Int
    BY <2>1, <2>2, SumInt
  <2>5. QED BY <1>2, <2>2, <2>3, <2>4
<1>3. S \in P
  <2> HIDE DEF P
  <2> QED BY <1>1, <1>2, GrowInduction
<1>4. QED BY <1>3

LEMMA SumZero ==
  ASSUME NEW w, NEW S, IsFiniteSet(S), \A x \in S : w[x] = 0
  PROVE  SumFunctionOnSet(w, S) = 0
<1> DEFINE P == {T \in SUBSET S : SumFunctionOnSet(w, T) = 0}
<1>1. {} \in P
  BY SumEmpty
<1>2. ASSUME NEW T \in SUBSET S, NEW x \in S \ T, T \in P
      PROVE  T \cup {x} \in P
  <2>1. IsFiniteSet(T)
    BY FS_Subset
  <2>2. \A y \in T : w[y] \in Int
    OBVIOUS
  <2>3. SumFunctionOnSet(w, T \cup {x}) = w[x] + SumFunctionOnSet(w, T)
    BY <2>1, <2>2, SumAdd
  <2>4. QED BY <1>2, <2>3
<1>3. S \in P
  <2> HIDE DEF P
  <2> QED BY <1>1, <1>2, GrowInduction
<1>4. QED BY <1>3

(***************************************************************************)
(* Natural numbers that stay below infinity are added up exactly.          *)
(***************************************************************************)
LEMMA RunningSumsExact ==
  ASSUME NEW q \in Seq(Nat), PrefixSum(q, Len(q)) < POS_INFINITY
  PROVE  \A n \in 0 .. Len(q) : runningSums(q)[n] = PrefixSum(q, n)
<1> DEFINE L == Len(q)
           P == {n \in Nat : n <= L => runningSums(q)[n] = PrefixSum(q, n)}
<1>1. q \in Seq(Int) /\ L \in Nat
  OBVIOUS
<1>2. \A n \in 0 .. L : PrefixSum(q, n) \in Nat /\ PrefixSum(q, n) <= PrefixSum(q, L)
  <2> SUFFICES ASSUME NEW n \in 0 .. L
               PROVE  PrefixSum(q, n) \in Nat /\ PrefixSum(q, n) <= PrefixSum(q, L)
    OBVIOUS
  <2> DEFINE I == 1 .. n
             J == 1 .. L
  <2>1. IsFiniteSet(I) /\ IsFiniteSet(J) /\ I \in SUBSET J
        /\ (\A k \in I : q[k] \in Nat) /\ \A k \in J : q[k] \in Nat
    <3>1. n \in Int /\ 1 \in Int /\ L \in Int
      BY <1>1
    <3>2. IsFiniteSet(I) /\ IsFiniteSet(J)
      BY <3>1, FS_Interval
    <3>3. QED BY <1>1, <3>1, <3>2
  <2> HIDE DEF I, J
  <2>2. SumFunctionOnSet(q, I) \in Nat /\ SumFunctionOnSet(q, I) <= SumFunctionOnSet(q, J)
    BY <2>1, SumNat, SumGrows
  <2>3. QED BY <2>2 DEF PrefixSum, I, J
<1>3. 0 \in P
  BY <1>1, RunningSumsLaws, PrefixSumLaws
<1>4. ASSUME NEW n \in Nat, n \in P PROVE n + 1 \in P
  <2> SUFFICES ASSUME n + 1 <= L PROVE runningSums(q)[n + 1] = PrefixSum(q, n + 1)
    OBVIOUS
  <2>1. /\ n + 1 \in 1 .. L /\ (n + 1) - 1 = n /\ n \in 0 .. L /\ n + 1 \in 0 .. L
        /\ runningSums(q)[n] = PrefixSum(q, n)
    BY <1>1, <1>4
  <2> DEFINE a == PrefixSum(q, n)
             b == q[n + 1]
             c == PrefixSum(q, n + 1)
  <2>2. /\ runningSums(q)[n + 1] = safe_sum(a, b)
        /\ c = a + b
    BY <1>1, <2>1, RunningSumsLaws, PrefixSumLaws
  <2>3. a \in Nat /\ b \in Nat /\ c < POS_INFINITY
    <3>1. a \in Nat /\ c \in Nat /\ c <= PrefixSum(q, L) /\ PrefixSum(q, L) \in Nat
      BY <1>1, <1>2, <2>1
    <3>2. b \in Nat
      BY <2>1
    <3>3. QED BY <3>1, <3>2, InfinityAssumption
  <2> HIDE DEF a, b, c
  <2>4. safe_sum(a, b) = a + b
    BY <2>2, <2>3, SafeSumExact, InfinityAssumption
  <2>5. QED BY <2>2, <2>4 DEF c
<1>5. \A n \in Nat : n \in P
  <2> HIDE DEF P
  <2> QED BY <1>3, <1>4, NatInduct
<1>6. QED BY <1>1, <1>5

(***************************************************************************)
(* The exact sum along two lists is the sum of theirs.                     *)
(***************************************************************************)
LEMMA PrefixSumConcat ==
  ASSUME NEW a \in Seq(Int), NEW b \in Seq(Int)
  PROVE  PrefixSum(a \o b, Len(a \o b)) = PrefixSum(a, Len(a)) + PrefixSum(b, Len(b))
<1> DEFINE c == a \o b
           A == Len(a)
           B == Len(b)
           P == {n \in Nat : n <= B => PrefixSum(c, A + n) = PrefixSum(a, A) + PrefixSum(b, n)}
<1>1. /\ c \in Seq(Int) /\ A \in Nat /\ B \in Nat /\ Len(c) = A + B
      /\ \A k \in 1 .. A : c[k] = a[k]
      /\ \A k \in 1 .. B : c[A + k] = b[k]
  OBVIOUS
<1> HIDE DEF c
<1>2. PrefixSum(c, A) = PrefixSum(a, A)
  <2> DEFINE I == 1 .. A
  <2>1. IsFiniteSet(I)
    BY <1>1, FS_Interval
  <2>2. \A k \in I : a[k] \in Int /\ c[k] = a[k]
    BY <1>1
  <2> HIDE DEF I
  <2>3. SumFunctionOnSet(c, I) = SumFunctionOnSet(a, I)
    BY <2>1, <2>2, SumSame
  <2>4. QED BY <2>3 DEF PrefixSum, I
<1>3. PrefixSum(a, A) \in Int /\ \A n \in 0 .. B : PrefixSum(b, n) \in Int
  <2>1. A \in 0 .. Len(a)
    BY <1>1
  <2>2. QED BY <2>1, PrefixSumLaws
<1>4. 0 \in P
  <2> DEFINE s == PrefixSum(a, A)
  <2>1. PrefixSum(b, 0) = 0 /\ A + 0 = A /\ s \in Int
    BY <1>1, <1>3, PrefixSumLaws
  <2>2. PrefixSum(c, A + 0) = s + PrefixSum(b, 0)
    BY <1>2, <2>1
  <2>3. QED BY <2>2
<1>5. ASSUME NEW n \in Nat, n \in P PROVE n + 1 \in P
  <2> SUFFICES ASSUME n + 1 <= B
               PROVE PrefixSum(c, A + (n + 1)) = PrefixSum(a, A) + PrefixSum(b, n + 1)
    OBVIOUS
  <2>1. /\ n + 1 \in 1 .. B /\ (n + 1) - 1 = n /\ n \in 0 .. B
        /\ A + (n + 1) \in 1 .. Len(c) /\ (A + (n + 1)) - 1 = A + n
        /\ PrefixSum(c, A + n) = PrefixSum(a, A) + PrefixSum(b, n)
    BY <1>1, <1>5
  <2>2. PrefixSum(c, A + (n + 1)) = PrefixSum(c, A + n) + c[A + (n + 1)]
    BY <1>1, <2>1, PrefixSumLaws
  <2>3. PrefixSum(b, n + 1) = PrefixSum(b, n) + b[n + 1]
    BY <2>1, PrefixSumLaws
  <2>4. c[A + (n + 1)] = b[n + 1] /\ b[n + 1] \in Int
    BY <1>1, <2>1
  <2> DEFINE x == PrefixSum(a, A)
             y == PrefixSum(b, n)
             z == b[n + 1]
  <2>5. x \in Int /\ y \in Int /\ z \in Int
    BY <1>3, <2>1, <2>4
  <2>6. (x + y) + z = x + (y + z)
    <3> HIDE DEF x, y, z
    <3> QED BY <2>5
  <2>7. QED BY <2>1, <2>2, <2>3, <2>4, <2>6
<1>6. \A n \in Nat : n \in P
  <2> HIDE DEF P
  <2> QED BY <1>4, <1>5, NatInduct
<1>7. B \in P
  BY <1>1, <1>6
<1>8. QED BY <1>1, <1>7 DEF c

LEMMA SameInterval ==
  ASSUME NEW m \in Nat, NEW n \in Nat, 1 .. m = 1 .. n
  PROVE  m = n
<1>1. m >= 1 => m \in 1 .. n
  OBVIOUS
<1>2. n >= 1 => n \in 1 .. m
  OBVIOUS
<1>3. QED BY <1>1, <1>2

(***************************************************************************)
(* Along a list without repeats that has all functions of weight, the      *)
(* weights of those counted add up to their sum as a set.                  *)
(***************************************************************************)
LEMMA ListSum ==
  ASSUME NEW list \in Seq(Functions), IsInjective(list),
         NEW w \in [Functions -> Nat],
         \A h \in Functions : h \notin Range(list) => w[h] = 0,
         NEW S \in SUBSET Functions
  PROVE  /\ weightsAlong(list, w, S) \in Seq(Nat)
         /\ Len(weightsAlong(list, w, S)) = Len(list)
         /\ PrefixSum(weightsAlong(list, w, S), Len(list)) = SumFunctionOnSet(w, S)
<1> DEFINE L == Len(list)
           v == weightsAlong(list, w, S)
           Seen(n) == {list[k] : k \in 1 .. n}
           P == {n \in Nat : n <= L =>
                   PrefixSum(v, n) = SumFunctionOnSet(w, S \cap Seen(n))}
<1>1. /\ L \in Nat /\ DOMAIN list = 1 .. L
      /\ \A k \in 1 .. L : list[k] \in Functions
  OBVIOUS
<1>2. v = [k \in 1 .. L |-> IF list[k] \in S THEN w[list[k]] ELSE 0]
  BY <1>1 DEF weightsAlong
<1> HIDE DEF v
<1>3. v \in Seq(Nat) /\ Len(v) = L /\ v \in Seq(Int)
  <2>1. \A k \in 1 .. L : (IF list[k] \in S THEN w[list[k]] ELSE 0) \in Nat
    BY <1>1
  <2>2. v \in [1 .. L -> Nat]
    BY <1>2, <2>1
  <2>3. v \in Seq(Nat)
    BY <1>1, <2>2, SeqDef
  <2>4. Len(v) = L
    <3>1. Len(v) \in Nat /\ DOMAIN v = 1 .. Len(v) /\ DOMAIN v = 1 .. L
      BY <2>2, <2>3
    <3> DEFINE M == Len(v)
               K == L
    <3>2. M \in Nat /\ K \in Nat /\ 1 .. M = 1 .. K
      BY <1>1, <3>1
    <3> HIDE DEF M, K
    <3>3. M = K
      BY <3>2, SameInterval
    <3>4. QED BY <3>3 DEF M, K
  <2>5. QED BY <2>3, <2>4
<1>4. ASSUME NEW n \in Nat
      PROVE  /\ IsFiniteSet(S \cap Seen(n)) /\ S \cap Seen(n) \in SUBSET Functions
             /\ \A h \in S \cap Seen(n) : w[h] \in Int
  <2>1. S \cap Seen(n) \in SUBSET Functions
    OBVIOUS
  <2>2. IsFiniteSet(S \cap Seen(n))
    BY <2>1, FunctionsAssumption, FS_Subset
  <2>3. QED BY <1>1, <2>1, <2>2
<1>5. 0 \in P
  <2>1. S \cap Seen(0) = {}
    OBVIOUS
  <2>2. QED BY <1>3, <2>1, SumEmpty, PrefixSumLaws
<1>6. ASSUME NEW n \in Nat, n \in P PROVE n + 1 \in P
  <2> SUFFICES ASSUME n + 1 <= L
               PROVE PrefixSum(v, n + 1) = SumFunctionOnSet(w, S \cap Seen(n + 1))
    OBVIOUS
  <2> DEFINE h == list[n + 1]
             T == S \cap Seen(n)
  <2>1. /\ n + 1 \in 1 .. L /\ n + 1 \in 1 .. Len(v) /\ (n + 1) - 1 = n
        /\ PrefixSum(v, n) = SumFunctionOnSet(w, T)
    BY <1>1, <1>3, <1>6
  <2>2. PrefixSum(v, n + 1) = PrefixSum(v, n) + v[n + 1]
    BY <1>3, <2>1, PrefixSumLaws
  <2>3. h \notin Seen(n) /\ h \in Functions
    <3>1. ASSUME NEW k \in 1 .. n PROVE list[k] # h
      <4>1. k \in 1 .. L /\ k # n + 1
        BY <1>1, <2>1
      <4>2. QED BY <1>1, <2>1, <4>1 DEF IsInjective
    <3>2. QED BY <1>1, <2>1, <3>1
  <2>4. Seen(n + 1) = Seen(n) \cup {h}
    <3>1. \A k \in 1 .. n + 1 : k \in 1 .. n \/ k = n + 1
      OBVIOUS
    <3>2. 1 .. n \subseteq 1 .. n + 1 /\ n + 1 \in 1 .. n + 1
      OBVIOUS
    <3>3. QED BY <3>1, <3>2
  <2>5. v[n + 1] = IF h \in S THEN w[h] ELSE 0
    BY <1>2, <2>1
  <2>6. /\ IsFiniteSet(T) /\ SumFunctionOnSet(w, T) \in Int
        /\ \A x \in T : w[x] \in Int
    BY <1>4, SumInt
  <2>7. CASE h \in S
    <3>1. S \cap Seen(n + 1) = T \cup {h} /\ h \notin T
      BY <2>3, <2>4, <2>7
    <3>2. w[h] \in Int
      BY <1>1, <2>3
    <3> HIDE DEF h, T
    <3>3. SumFunctionOnSet(w, T \cup {h}) = w[h] + SumFunctionOnSet(w, T)
      BY <2>6, <3>1, <3>2, SumAdd
    <3> DEFINE p == PrefixSum(v, n + 1)
               t == SumFunctionOnSet(w, T)
               x == w[h]
    <3>4. p = t + x
      BY <2>1, <2>2, <2>5, <2>7
    <3>5. SumFunctionOnSet(w, T \cup {h}) = x + t
      BY <3>3
    <3>6. p = x + t
      <4> HIDE DEF p, t, x
      <4>1. t \in Int /\ x \in Int
        BY <2>6, <3>2 DEF t, x
      <4>2. QED BY <3>4, <4>1
    <3>7. QED BY <3>1, <3>5, <3>6
  <2>8. CASE h \notin S
    <3>1. S \cap Seen(n + 1) = T
      BY <2>4, <2>8
    <3> HIDE DEF h, T
    <3>2. v[n + 1] = 0
      BY <2>5, <2>8
    <3>3. PrefixSum(v, n + 1) = SumFunctionOnSet(w, T)
      BY <2>1, <2>2, <2>6, <3>2
    <3>4. QED BY <3>1, <3>3
  <2>9. QED BY <2>7, <2>8
<1>7. PrefixSum(v, L) = SumFunctionOnSet(w, S \cap Seen(L))
  <2>1. \A n \in Nat : n \in P
    <3> HIDE DEF P
    <3> QED BY <1>5, <1>6, NatInduct
  <2>2. QED BY <1>1, <2>1
<1>8. SumFunctionOnSet(w, S) = SumFunctionOnSet(w, S \cap Seen(L))
  <2> DEFINE A == S \cap Seen(L)
             B == S \ Seen(L)
  <2>1. IsFiniteSet(A) /\ IsFiniteSet(B) /\ A \cap B = {} /\ A \cup B = S
    BY FunctionsAssumption, FS_Subset
  <2>2. \A h \in B : w[h] = 0
    <3> SUFFICES ASSUME NEW h \in B PROVE w[h] = 0
      OBVIOUS
    <3>1. h \in Functions /\ h \notin Range(list)
      BY <1>1 DEF Range
    <3>2. QED BY <3>1
  <2>3. \A h \in A \cup B : w[h] \in Int
    BY <1>1
  <2> HIDE DEF A, B
  <2>4. SumFunctionOnSet(w, A \cup B) = SumFunctionOnSet(w, A) + SumFunctionOnSet(w, B)
    BY <2>1, <2>3, SumUnion
  <2>5. SumFunctionOnSet(w, B) = 0 /\ SumFunctionOnSet(w, A) \in Int
    BY <2>1, <2>2, <2>3, SumZero, SumInt
  <2>6. SumFunctionOnSet(w, A \cup B) = SumFunctionOnSet(w, A)
    BY <2>4, <2>5
  <2>7. QED BY <2>1, <2>6 DEF A
<1>9. QED BY <1>3, <1>7, <1>8 DEF v

(***************************************************************************)
(* A cost is an integer, and for a light function it is the exact sum of   *)
(* the weights of the edges to the functions counted.                      *)
(***************************************************************************)
LEMMA CostIs ==
  ASSUME graph \in Graphs, NEW f \in Functions, NEW S \in SUBSET Functions
  PROVE  /\ costWith(f, S) \in Int
         /\ Light(f) => costWith(f, S) = SumFunctionOnSet(EdgeCosts(graph, f), S)
<1> DEFINE u == inWeights(f)
           v == outWeights(f)
           c == EdgeCosts(graph, f)
           ins == weightsAlong(graph.callers[f], u, S)
           outs == weightsAlong(graph.callees[f], v, S)
           q == ins \o outs
<1>1. /\ u \in [Functions -> Nat] /\ v \in [Functions -> Nat]
      /\ c \in [Functions -> Nat]
      /\ \A h \in Functions : c[h] = u[h] + v[h]
  BY GraphsAssumption, CostsAreInts DEF inWeights, outWeights, EdgeCosts
<1>2. /\ graph.callers[f] \in Seq(Functions) /\ IsInjective(graph.callers[f])
      /\ graph.callees[f] \in Seq(Functions) /\ IsInjective(graph.callees[f])
      /\ \A h \in Functions : h \notin Range(graph.callers[f]) => u[h] = 0
      /\ \A h \in Functions : h \notin Range(graph.callees[f]) => v[h] = 0
  BY GraphsAssumption DEF inWeights, outWeights
<1>3. IsFiniteSet(S)
  BY FunctionsAssumption, FS_Subset
<1> HIDE DEF u, v, c
<1>4. /\ ins \in Seq(Nat) /\ PrefixSum(ins, Len(ins)) = SumFunctionOnSet(u, S)
      /\ outs \in Seq(Nat) /\ PrefixSum(outs, Len(outs)) = SumFunctionOnSet(v, S)
  <2> DEFINE a == graph.callers[f]
             b == graph.callees[f]
  <2>1. /\ ins = weightsAlong(a, u, S) /\ outs = weightsAlong(b, v, S)
        /\ a \in Seq(Functions) /\ IsInjective(a)
        /\ b \in Seq(Functions) /\ IsInjective(b)
        /\ \A h \in Functions : h \notin Range(a) => u[h] = 0
        /\ \A h \in Functions : h \notin Range(b) => v[h] = 0
    BY <1>2
  <2> HIDE DEF a, b, ins, outs
  <2>2. /\ ins \in Seq(Nat) /\ Len(ins) = Len(a)
        /\ PrefixSum(ins, Len(a)) = SumFunctionOnSet(u, S)
    BY <1>1, <2>1, ListSum
  <2>3. /\ outs \in Seq(Nat) /\ Len(outs) = Len(b)
        /\ PrefixSum(outs, Len(b)) = SumFunctionOnSet(v, S)
    BY <1>1, <2>1, ListSum
  <2>4. QED BY <2>2, <2>3
<1> HIDE DEF ins, outs
<1>5. /\ q \in Seq(Nat) /\ q \in Seq(Int) /\ Len(q) \in Nat /\ Len(q) \in 0 .. Len(q)
      /\ ins \in Seq(Int) /\ outs \in Seq(Int)
  BY <1>4
<1>6. PrefixSum(q, Len(q)) = SumFunctionOnSet(c, S)
  <2>1. PrefixSum(q, Len(q)) = SumFunctionOnSet(u, S) + SumFunctionOnSet(v, S)
    BY <1>4, <1>5, PrefixSumConcat
  <2>2. \A h \in S : u[h] \in Int /\ v[h] \in Int /\ c[h] = u[h] + v[h]
    BY <1>1
  <2>3. QED BY <1>3, <2>1, <2>2, SumOfBoth
<1> HIDE DEF q
<1>7. costWith(f, S) = runningSums(q)[Len(q)]
  BY DEF costWith, q, ins, outs, u, v
<1>8. ASSUME Light(f) PROVE SumFunctionOnSet(c, S) < POS_INFINITY
  <2> DEFINE all == SumFunctionOnSet(c, Functions)
             some == SumFunctionOnSet(c, S)
             n == functionCost(f)
  <2>1. all + AbsInt(n) < POS_INFINITY
    BY <1>8, EdgeWeightsAre DEF Light, Heft, c
  <2>2. all \in Nat /\ some \in Nat /\ some <= all
    BY <1>1, <1>3, FunctionsAssumption, SumNat, SumGrows
  <2>3. n \in Int
    BY GraphsAssumption DEF functionCost
  <2> HIDE DEF all, some, n
  <2>4. some < POS_INFINITY
    BY <2>1, <2>2, <2>3, InfinityAssumption DEF AbsInt
  <2>5. QED BY <2>4 DEF some
<1>9. costWith(f, S) \in Int
  BY <1>5, <1>7, RunningSumsLaws
<1>10. ASSUME Light(f) PROVE costWith(f, S) = SumFunctionOnSet(c, S)
  <2>1. PrefixSum(q, Len(q)) < POS_INFINITY
    BY <1>6, <1>8, <1>10
  <2>2. runningSums(q)[Len(q)] = PrefixSum(q, Len(q))
    BY <1>5, <2>1, RunningSumsExact
  <2>3. QED BY <1>6, <1>7, <2>2
<1>11. QED BY <1>9, <1>10 DEF c

(***************************************************************************)
(* The heft of a function bounds its gain, on either side and whatever the *)
(* split.                                                                  *)
(***************************************************************************)
LEMMA GainWithinHeft ==
  ASSUME graph \in Graphs, NEW f \in Functions, NEW I \in SUBSET Functions
  PROVE  /\ Heft(f) \in Nat /\ GainOf(graph, I, f) \in Int
         /\ -Heft(f) <= GainOf(graph, I, f) /\ GainOf(graph, I, f) <= Heft(f)
         /\ \A S \in SUBSET Functions :
              /\ SumFunctionOnSet(EdgeCosts(graph, f), S) \in Nat
              /\ SumFunctionOnSet(EdgeCosts(graph, f), S) <= Heft(f)
         /\ functionCost(f) \in Int
         /\ -Heft(f) <= functionCost(f) /\ functionCost(f) <= Heft(f)
<1> DEFINE c == EdgeCosts(graph, f)
           E == Functions \ I
           N == Functions \cap I
           e == SumFunctionOnSet(c, E)
           i0 == SumFunctionOnSet(c, N)
           all == SumFunctionOnSet(c, Functions)
           n == functionCost(f)
<1>1. c \in [Functions -> Nat] /\ IsFiniteSet(Functions)
  BY CostsAreInts, FunctionsAssumption
<1>2. /\ IsFiniteSet(E) /\ IsFiniteSet(N) /\ E \cap N = {} /\ E \cup N = Functions
  BY FunctionsAssumption, FS_Subset
<1>3. (\A h \in E \cup N : c[h] \in Int) /\ \A h \in Functions : c[h] \in Nat
  BY <1>1
<1>4. n \in Int
  BY GraphsAssumption DEF functionCost
<1>5. GainOf(graph, I, f) = e - i0 + n
  BY DEF GainOf, FunctionCosts, functionCost
<1>6. Heft(f) = all + AbsInt(n)
  BY EdgeWeightsAre DEF Heft
<1>7. \A S \in SUBSET Functions : SumFunctionOnSet(c, S) \in Nat /\ SumFunctionOnSet(c, S) <= all
  <2> SUFFICES ASSUME NEW S \in SUBSET Functions
               PROVE  SumFunctionOnSet(c, S) \in Nat /\ SumFunctionOnSet(c, S) <= all
    OBVIOUS
  <2>1. IsFiniteSet(S) /\ \A h \in S : c[h] \in Nat
    BY <1>3, FunctionsAssumption, FS_Subset
  <2> HIDE DEF c
  <2>2. QED BY <1>1, <1>3, <2>1, SumNat, SumGrows
<1>8. all = e + i0
  <2> HIDE DEF c, E, N
  <2>1. SumFunctionOnSet(c, E \cup N) = SumFunctionOnSet(c, E) + SumFunctionOnSet(c, N)
    BY <1>2, <1>3, SumUnion
  <2>2. QED BY <1>2, <2>1
<1>9. e \in Nat /\ i0 \in Nat /\ all \in Nat
  <2>1. E \in SUBSET Functions /\ N \in SUBSET Functions /\ Functions \in SUBSET Functions
    OBVIOUS
  <2> HIDE DEF c, E, N
  <2>2. QED BY <1>7, <2>1
<1> DEFINE g == GainOf(graph, I, f)
           t == Heft(f)
<1>10. /\ t \in Nat /\ g \in Int /\ -t <= g /\ g <= t /\ all <= t /\ -t <= n /\ n <= t
  <2>1. g = e - i0 + n /\ t = all + AbsInt(n) /\ all = e + i0
    BY <1>5, <1>6, <1>8
  <2> HIDE DEF g, t, e, i0, all, n
  <2>2. QED BY <1>4, <1>9, <2>1 DEF AbsInt
<1>11. \A S \in SUBSET Functions : SumFunctionOnSet(c, S) \in Nat /\ SumFunctionOnSet(c, S) <= t
  <2> SUFFICES ASSUME NEW S \in SUBSET Functions PROVE SumFunctionOnSet(c, S) <= t
    BY <1>7
  <2> DEFINE s == SumFunctionOnSet(c, S)
  <2>1. s \in Nat /\ s <= all
    BY <1>7
  <2> HIDE DEF t, s, all
  <2>2. s <= t
    BY <1>9, <1>10, <2>1
  <2>3. QED BY <2>2 DEF s
<1>12. QED BY <1>4, <1>10, <1>11

(***************************************************************************)
(* The gain computed from scratch is an integer, and exact for a light     *)
(* function: no sum on the way reaches infinity.                           *)
(***************************************************************************)
LEMMA InitialGainIs ==
  ASSUME graph \in Graphs, NEW f \in Functions, insecure \in SUBSET Functions
  PROVE  /\ initialGain(f) \in Int
         /\ Light(f) => initialGain(f) = GainOf(graph, insecure, f)
<1> DEFINE c == EdgeCosts(graph, f)
           E == Functions \ insecure
           e == externalCost(f)
           i0 == internalCost(f)
           n == functionCost(f)
           t == Heft(f)
<1>1. /\ e \in Int /\ i0 \in Int
      /\ Light(f) => e = SumFunctionOnSet(c, E) /\ i0 = SumFunctionOnSet(c, insecure)
  <2>1. E \in SUBSET Functions
    OBVIOUS
  <2> HIDE DEF c
  <2>2. QED BY <2>1, CostIs DEF externalCost, internalCost, c
<1>2. /\ n \in Int /\ t \in Nat /\ -t <= n /\ n <= t
      /\ SumFunctionOnSet(c, E) \in Nat /\ SumFunctionOnSet(c, E) <= t
      /\ SumFunctionOnSet(c, insecure) \in Nat /\ SumFunctionOnSet(c, insecure) <= t
  <2>1. E \in SUBSET Functions
    OBVIOUS
  <2>2. QED BY <2>1, GainWithinHeft
<1>3. initialGain(f) = safe_sum(safe_sum(e, -i0), n)
  BY DEF initialGain
<1>4. initialGain(f) \in Int
  <2> HIDE DEF e, i0, n, c, E
  <2>1. -i0 \in Int
    BY <1>1
  <2>2. safe_sum(e, -i0) \in Int
    BY <1>1, <2>1, SafeSumInt
  <2>3. QED BY <1>2, <1>3, <2>2, SafeSumInt
<1>5. ASSUME Light(f) PROVE initialGain(f) = GainOf(graph, insecure, f)
  <2> DEFINE g == GainOf(graph, insecure, f)
  <2>1. g = e - i0 + n
    <3>1. Functions \cap insecure = insecure
      OBVIOUS
    <3>2. FunctionCosts(graph)[f] = n
      BY DEF FunctionCosts, functionCost
    <3>3. QED BY <1>1, <1>5, <3>1, <3>2 DEF GainOf
  <2>2. t < POS_INFINITY
    BY <1>5 DEF Light
  <2>3. e \in Nat /\ e <= t /\ i0 \in Nat /\ i0 <= t
    BY <1>1, <1>2, <1>5
  <2> HIDE DEF e, i0, n, t, g
  <2>4. safe_sum(e, -i0) = e - i0
    <3>1. -i0 \in Int /\ -POS_INFINITY < e /\ e < POS_INFINITY
          /\ -i0 # -POS_INFINITY /\ -i0 # POS_INFINITY
      BY <1>2, <2>2, <2>3, InfinityAssumption
    <3> DEFINE y == -i0
    <3> HIDE DEF y
    <3>2. safe_sum(e, y) = e + y
      BY <1>1, <3>1, SafeSumExact DEF y
    <3>3. QED BY <1>1, <3>2 DEF y
  <2>5. safe_sum(e - i0, n) = (e - i0) + n
    <3> DEFINE x == e - i0
    <3>1. x \in Int /\ -POS_INFINITY < x /\ x < POS_INFINITY
          /\ n # -POS_INFINITY /\ n # POS_INFINITY
      BY <1>2, <2>2, <2>3, InfinityAssumption
    <3> HIDE DEF x
    <3>2. safe_sum(x, n) = x + n
      BY <1>2, <3>1, SafeSumExact
    <3>3. QED BY <3>2 DEF x
  <2>6. QED BY <1>3, <2>1, <2>4, <2>5 DEF g
<1>6. QED BY <1>4, <1>5

(***************************************************************************)
(* The update of a light function's gain is exact: infinity can only be    *)
(* added to a negative gain, since the gain after the move is finite.      *)
(***************************************************************************)
LEMMA UpdateIs ==
  ASSUME graph \in Graphs, NEW I \in SUBSET Functions, NEW f \in I, NEW h \in Functions
  PROVE  /\ edgeCost(h, f) \in Int
         /\ Light(h) => safe_sum(GainOf(graph, I, h), 2 * edgeCost(h, f))
                          = GainOf(graph, I \ {f}, h)
<1> DEFINE c == EdgeCosts(graph, h)
           u == inWeights(h)[f]
           v == outWeights(h)[f]
           t == Heft(h)
           a == GainOf(graph, I, h)
           b == GainOf(graph, I \ {f}, h)
<1>1. u \in Nat /\ v \in Nat /\ c[f] = u + v
  BY GraphsAssumption DEF inWeights, outWeights, EdgeCosts
<1>2. edgeCost(h, f) = safe_sum(u, v)
  BY DEF edgeCost
<1>3. edgeCost(h, f) \in Int
  <2> HIDE DEF u, v
  <2> QED BY <1>1, <1>2, SafeSumInt
<1>4. ASSUME Light(h) PROVE safe_sum(a, 2 * edgeCost(h, f)) = b
  <2>1. b = a + 2 * c[f]
    BY GainShift
  <2>2. /\ t \in Nat /\ t < POS_INFINITY /\ a \in Int /\ b \in Int
        /\ -t <= a /\ a <= t /\ -t <= b /\ b <= t
    <3>1. I \ {f} \in SUBSET Functions
      OBVIOUS
    <3>2. QED BY <1>4, <3>1, GainWithinHeft DEF Light
  <2>3. c[f] <= t
    <3>1. {f} \in SUBSET Functions /\ IsFiniteSet({}) /\ f \notin {} /\ c[f] \in Int
      BY <1>1, FS_EmptySet
    <3>2. SumFunctionOnSet(c, {} \cup {f}) = c[f] + SumFunctionOnSet(c, {})
      <4>1. \A y \in {} : c[y] \in Int
        OBVIOUS
      <4> HIDE DEF c
      <4>2. QED BY <3>1, <4>1, SumAdd
    <3>3. SumFunctionOnSet(c, {f}) = c[f]
      <4>1. {} \cup {f} = {f}
        OBVIOUS
      <4> HIDE DEF c
      <4>2. QED BY <3>1, <3>2, <4>1, SumEmpty
    <3>4. QED BY <3>1, <3>3, GainWithinHeft
  <2> HIDE DEF a, b, t, u, v, c
  <2>4. safe_sum(u, v) = u + v
    BY <1>1, <2>2, <2>3, SafeSumExact, InfinityAssumption
  <2> DEFINE y == 2 * edgeCost(h, f)
  <2>5. y = 2 * c[f] /\ y \in Int /\ y >= 0
    BY <1>1, <1>2, <2>4
  <2> HIDE DEF y
  <2>6. /\ -POS_INFINITY < a /\ a < POS_INFINITY /\ y # -POS_INFINITY
        /\ y = POS_INFINITY => a < 0
    BY <2>1, <2>2, <2>5, InfinityAssumption
  <2>7. safe_sum(a, y) = a + y
    BY <2>2, <2>5, <2>6, SafeSumExact
  <2>8. QED BY <2>1, <2>5, <2>7 DEF y
<1>5. QED BY <1>3, <1>4

(***************************************************************************)
(* Together with others a light function has room below infinity.          *)
(***************************************************************************)
LEMMA HeftsAddUp ==
  ASSUME graph \in Graphs, start \in Starts, NEW M \in SUBSET start.candidates,
         NEW f \in start.candidates \ M
  PROVE  /\ SumFunctionOnSet(Hefts, M) \in Nat
         /\ SumFunctionOnSet(Hefts, M \cup {f}) = SumFunctionOnSet(Hefts, M) + Heft(f)
         /\ AllLight => SumFunctionOnSet(Hefts, M) + Heft(f) < POS_INFINITY /\ Light(f)
<1> DEFINE C == start.candidates
           w == Hefts
<1>1. C \in SUBSET Functions /\ IsFiniteSet(C) /\ IsFiniteSet(M) /\ IsFiniteSet(M \cup {f})
      /\ M \cup {f} \in SUBSET C
  BY StartsAssumption, FunctionsAssumption, FS_Subset
<1>2. \A h \in C : w[h] = Heft(h) /\ w[h] \in Nat
  BY <1>1, GainWithinHeft DEF Hefts
<1>3. /\ \A h \in M : w[h] \in Nat /\ w[h] \in Int
      /\ w[f] = Heft(f) /\ Heft(f) \in Nat /\ w[f] \in Int
  BY <1>2
<1> HIDE DEF w, C
<1>4. SumFunctionOnSet(w, M) \in Nat
  BY <1>1, <1>3, SumNat
<1>5. SumFunctionOnSet(w, M \cup {f}) = w[f] + SumFunctionOnSet(w, M)
  BY <1>1, <1>3, SumAdd
<1>6. SumFunctionOnSet(w, M \cup {f}) <= SumFunctionOnSet(w, C)
  BY <1>1, <1>2, SumGrows
<1>7. SumFunctionOnSet(w, C) \in Nat
  BY <1>1, <1>2, SumNat
<1> DEFINE m == SumFunctionOnSet(w, M)
           mf == SumFunctionOnSet(w, M \cup {f})
           all == SumFunctionOnSet(w, C)
           h == Heft(f)
<1>8. mf = h + m /\ mf <= all /\ h \in Nat /\ m \in Nat /\ all \in Nat
  BY <1>3, <1>4, <1>5, <1>6, <1>7
<1>9. /\ mf = m + h
      /\ all < POS_INFINITY => m + h < POS_INFINITY /\ h < POS_INFINITY
  <2> HIDE DEF mf, m, all, h
  <2> QED BY <1>8, InfinityAssumption
<1>10. QED BY <1>4, <1>9 DEF AllLight, Light, w, C

-----------------------------------------------------------------------------
(***************************************************************************)
(* What is known of the gains: those of light candidates are exact when    *)
(* the next one is chosen, and nothing is scanned before all are moved.    *)
(***************************************************************************)
GainsInv ==
  /\ graph \in Graphs
  /\ gains \in Seq(Int) /\ Len(gains) = Len(order)
  /\ updatedGains \in [candidates -> Int]
  /\ pc = "move" => \A f \in candidates :
       Light(f) => updatedGains[f] = GainOf(graph, insecure, f)
  /\ pc = "move" => i = 1 /\ intmdGain = 0 /\ maxGain = 0 /\ idx = 0
  /\ pc = "done" => i = Len(order) + 1

(***************************************************************************)
(* The scan knows the total so far and the best prefix it has passed, the  *)
(* longest one of those as good.                                           *)
(***************************************************************************)
ScanInv ==
  /\ intmdGain = PrefixGain(i - 1)
  /\ maxGain = PrefixGain(idx)
  /\ \A n \in 0 .. i - 1 :
       /\ PrefixGain(n) <= maxGain
       /\ n > idx => PrefixGain(n) < maxGain

(***************************************************************************)
(* When both copies of the edges weigh the same and all sums stay below    *)
(* infinity, the first n moves lower the cost of the cut by at least the   *)
(* total of their gains, which the hefts of the moved functions bound.     *)
(***************************************************************************)
CostInv ==
  Symmetric(graph) /\ AllLight =>
    \A n \in 0 .. Len(order) :
      /\ AbsInt(PrefixGain(n)) <= SumFunctionOnSet(Hefts, MovedBetween(1, n))
      /\ CostOf(graph, start.secure \cup MovedBetween(1, n))
           <= CostOf(graph, start.secure) - PrefixGain(n)

GainInv == PassInv /\ GainsInv /\ ScanInv /\ CostInv

(***************************************************************************)
(* In all states of the pass the moved functions are candidates, and the   *)
(* functions not moved are insecure.                                       *)
(***************************************************************************)
LEMMA SidesOf ==
  ASSUME PassInv
  PROVE  /\ start \in Starts
         /\ secure \in SUBSET Functions /\ insecure \in SUBSET Functions
         /\ candidates \subseteq start.candidates /\ start.candidates \subseteq Functions
         /\ start.secure \in SUBSET Functions
         /\ \A n \in 0 .. Len(order) : MovedBetween(1, n) \in SUBSET start.candidates
         /\ pc = "move" => /\ candidates \subseteq insecure
                           /\ insecure = Functions \ secure
                           /\ secure = start.secure \cup Moved
                           /\ candidates = start.candidates \ Moved
<1>1. start \in Starts /\ candidates = start.candidates \ Moved
  BY DEF PassInv, SequenceInv
<1>2. /\ start.secure \cup start.insecure = Functions
      /\ start.secure \cap start.insecure = {}
      /\ start.candidates \subseteq start.insecure
  BY <1>1, StartsAssumption
<1>3. \A n \in 0 .. Len(order) : MovedBetween(1, n) \in SUBSET start.candidates
  BY MovedAreCandidates DEF PassInv
<1>4. Moved \subseteq start.candidates /\ Kept \subseteq start.candidates
  <2>1. Len(order) \in 0 .. Len(order) /\ idx \in 0 .. Len(order)
    BY DEF PassInv, SequenceInv
  <2>2. QED BY <1>3, <2>1 DEF Moved, Kept
<1>5. /\ secure = start.secure \cup (IF pc = "done" THEN Kept ELSE Moved)
      /\ insecure = start.insecure \ (IF pc = "done" THEN Kept ELSE Moved)
  BY DEF PassInv, SidesInv
<1>6. QED BY <1>1, <1>2, <1>3, <1>4, <1>5

(***************************************************************************)
(* Hefts, totals and costs do not change while graph and sequence do not.  *)
(***************************************************************************)
LEMMA SameGraph ==
  ASSUME UNCHANGED <<graph, start>>
  PROVE  /\ Hefts' = Hefts /\ AllLight' = AllLight
         /\ \A f : Light(f)' = Light(f) /\ Heft(f)' = Heft(f)
         /\ Symmetric(graph)' = Symmetric(graph)
<1>1. \A f : Heft(f)' = Heft(f)
  BY DEF Heft, edgeWeights, inWeights, outWeights, functionCost
<1>2. Hefts' = Hefts
  BY <1>1 DEF Hefts
<1>3. QED BY <1>1, <1>2 DEF AllLight, Light, Symmetric

(***************************************************************************)
(* Before the first move every gain is computed from scratch.              *)
(***************************************************************************)
LEMMA GainInvInit == Init => GainInv
<1> SUFFICES ASSUME Init PROVE GainInv
  OBVIOUS
<1>1. PassInv
  BY PassInvInit
<1>2. /\ graph \in Graphs /\ start \in Starts /\ pc = "move"
      /\ order = << >> /\ gains = << >> /\ candidates = start.candidates
      /\ i = 1 /\ intmdGain = 0 /\ maxGain = 0 /\ idx = 0
      /\ secure = start.secure
  BY DEF Init
<1>3. candidates \subseteq Functions /\ insecure \in SUBSET Functions
  BY <1>1, <1>2, SidesOf
<1>4. updatedGains = [f \in candidates |-> initialGain(f)]
  BY <1>2 DEF updatedGains
<1>5. \A f \in candidates : /\ initialGain(f) \in Int
                            /\ Light(f) => initialGain(f) = GainOf(graph, insecure, f)
  BY <1>2, <1>3, InitialGainIs
<1>6. GainsInv
  BY <1>2, <1>4, <1>5 DEF GainsInv
<1>7. PrefixGain(0) = 0
  <2>1. gains \in Seq(Int)
    BY <1>2
  <2>2. QED BY <2>1, RunningSumsLaws DEF PrefixGain
<1>8. ScanInv
  BY <1>2, <1>7 DEF ScanInv
<1>9. CostInv
  <2> SUFFICES ASSUME NEW n \in 0 .. Len(order)
               PROVE  /\ AbsInt(PrefixGain(n)) <= SumFunctionOnSet(Hefts, MovedBetween(1, n))
                      /\ CostOf(graph, start.secure \cup MovedBetween(1, n))
                           <= CostOf(graph, start.secure) - PrefixGain(n)
    BY DEF CostInv
  <2>0. n = 0
    BY <1>2
  <2>1. MovedBetween(1, 0) = {} /\ start.secure \cup MovedBetween(1, 0) = start.secure
    BY DEF MovedBetween
  <2>2. CostOf(graph, start.secure) \in Int
    BY <1>1, <1>2, SidesOf, CostIsInt
  <2> DEFINE cost == CostOf(graph, start.secure)
  <2>3. CostOf(graph, start.secure \cup MovedBetween(1, 0)) = cost
    BY <2>1
  <2>4. cost <= cost - 0
    BY <2>2
  <2>5. SumFunctionOnSet(Hefts, MovedBetween(1, 0)) = 0
    BY <2>1, SumEmpty
  <2>6. AbsInt(0) <= 0
    BY DEF AbsInt
  <2>7. QED BY <1>7, <2>0, <2>3, <2>4, <2>5, <2>6
<1>10. QED BY <1>1, <1>6, <1>8, <1>9 DEF GainInv

(***************************************************************************)
(* A move appends one gain to the sequence; the totals known do not        *)
(* change, and one more is known.                                          *)
(***************************************************************************)
LEMMA MoveAppends ==
  ASSUME GainInv, NEW f, MoveBest(f)
  PROVE  LET L == Len(order)
         IN  /\ L \in Nat /\ Len(order') = L + 1 /\ order' # << >>
             /\ order'[Len(order')] = f
             /\ \A n \in 0 .. L : MovedBetween(1, n)' = MovedBetween(1, n)
             /\ \A n \in Nat : n = L + 1 => MovedBetween(1, n)' = Moved \cup {f}
             /\ gains' \in Seq(Int) /\ Len(gains') = L + 1
             /\ \A n \in 0 .. L : PrefixGain(n)' = PrefixGain(n) /\ PrefixGain(n) \in Int
             /\ \A n \in Nat :
                  n = L + 1 => PrefixGain(n)' = safe_sum(PrefixGain(L), updatedGains[f])
<1> DEFINE L == Len(order)
           x == updatedGains[f]
<1>1. /\ order' = Append(order, f) /\ gains' = Append(gains, x)
      /\ f \in candidates
  BY DEF MoveBest, moveFunction
<1>2. /\ order \in Seq(start.candidates) /\ gains \in Seq(Int) /\ Len(gains) = L
      /\ x \in Int /\ f \in start.candidates
  BY <1>1 DEF GainInv, GainsInv, PassInv, SequenceInv
<1> HIDE DEF x
<1>3. /\ L \in Nat /\ Len(order') = L + 1 /\ order' # << >>
      /\ order'[Len(order')] = f
      /\ \A k \in 1 .. L : order'[k] = order[k]
      /\ gains' \in Seq(Int) /\ Len(gains') = L + 1 /\ gains'[L + 1] = x
  BY <1>1, <1>2
<1>4. \A n \in 0 .. L : MovedBetween(1, n)' = MovedBetween(1, n)
  <2> SUFFICES ASSUME NEW n \in 0 .. L PROVE MovedBetween(1, n)' = MovedBetween(1, n)
    OBVIOUS
  <2>1. \A k \in 1 .. n : order'[k] = order[k]
    BY <1>3
  <2>2. QED BY <2>1 DEF MovedBetween
<1>5. ASSUME NEW n \in Nat, n = L + 1
      PROVE  MovedBetween(1, n)' = Moved \cup {f}
  <2>1. \A k \in 1 .. L + 1 : k \in 1 .. L \/ k = L + 1
    BY <1>3
  <2>2. 1 .. L \subseteq 1 .. L + 1 /\ L + 1 \in 1 .. L + 1
    BY <1>3
  <2>3. MovedBetween(1, n)' = {order'[k] : k \in 1 .. L + 1}
    BY <1>5 DEF MovedBetween
  <2>4. QED BY <1>3, <2>1, <2>2, <2>3 DEF Moved, MovedBetween
<1>6. \A n \in 0 .. L : PrefixGain(n)' = PrefixGain(n) /\ PrefixGain(n) \in Int
  <2>1. \A n \in 0 .. L : runningSums(Append(gains, x))[n] = runningSums(gains)[n]
    BY <1>2, RunningSumsAppend
  <2>2. \A n \in 0 .. L : runningSums(gains)[n] \in Int
    BY <1>2, RunningSumsLaws
  <2>3. \A n \in 0 .. L : PrefixGain(n)' = runningSums(Append(gains, x))[n]
    BY <1>1 DEF PrefixGain
  <2>4. QED BY <2>1, <2>2, <2>3 DEF PrefixGain
<1>7. ASSUME NEW n \in Nat, n = L + 1
      PROVE  PrefixGain(n)' = safe_sum(PrefixGain(L), x)
  <2>1. L + 1 \in 1 .. Len(gains') /\ (L + 1) - 1 = L /\ L \in 0 .. L
    BY <1>3
  <2>2. runningSums(gains')[L + 1] = safe_sum(runningSums(gains')[L], gains'[L + 1])
    BY <1>3, <2>1, RunningSumsLaws
  <2>3. runningSums(gains')[L] = PrefixGain(L)
    BY <1>6, <2>1 DEF PrefixGain
  <2>4. PrefixGain(n)' = runningSums(gains')[L + 1]
    BY <1>7 DEF PrefixGain
  <2>5. QED BY <1>3, <2>2, <2>3, <2>4
<1>8. QED BY <1>3, <1>4, <1>5, <1>6, <1>7 DEF x

(***************************************************************************)
(* A move: the gains of the candidates left shift by twice the edges to    *)
(* the moved function, and the cut gets cheaper by what the function       *)
(* promised.                                                               *)
(***************************************************************************)
LEMMA MoveBestKeepsGains ==
  ASSUME GainInv, NEW f, MoveBest(f)
  PROVE  GainInv'
<1>1. PassInv'
  BY MoveBestKeeps DEF GainInv
<1>2. /\ pc = "move" /\ pc' = "move" /\ start' = start /\ graph' = graph
      /\ f \in candidates /\ candidates' = candidates \ {f}
      /\ moveGains' = [h \in candidates' |-> updatedGains[h]]
      /\ i' = i /\ idx' = idx /\ intmdGain' = intmdGain /\ maxGain' = maxGain
      /\ insecure' = insecure \ {f} /\ secure' = secure \cup {f}
  BY DEF MoveBest, moveFunction
<1>3. /\ graph \in Graphs /\ updatedGains \in [candidates -> Int]
      /\ i = 1 /\ intmdGain = 0 /\ maxGain = 0 /\ idx = 0
      /\ \A h \in candidates : Light(h) => updatedGains[h] = GainOf(graph, insecure, h)
  BY <1>2 DEF GainInv, GainsInv
<1>4. /\ start \in Starts /\ candidates \subseteq Functions /\ f \in insecure
      /\ insecure \in SUBSET Functions /\ secure \in SUBSET Functions
      /\ insecure = Functions \ secure /\ secure = start.secure \cup Moved
      /\ start.secure \in SUBSET Functions
      /\ Moved \in SUBSET start.candidates /\ f \in start.candidates \ Moved
  <2>1. Moved \in SUBSET start.candidates
    BY SidesOf DEF GainInv, PassInv, SequenceInv, Moved
  <2>2. QED BY <1>2, <2>1, SidesOf DEF GainInv
<1> DEFINE L == Len(order)
<1>5. /\ L \in Nat /\ Len(order') = L + 1 /\ order' # << >>
      /\ order'[Len(order')] = f
      /\ \A n \in 0 .. L : MovedBetween(1, n)' = MovedBetween(1, n)
      /\ \A n \in Nat : n = L + 1 => MovedBetween(1, n)' = Moved \cup {f}
      /\ gains' \in Seq(Int) /\ Len(gains') = L + 1
      /\ \A n \in 0 .. L : PrefixGain(n)' = PrefixGain(n) /\ PrefixGain(n) \in Int
      /\ \A n \in Nat :
           n = L + 1 => PrefixGain(n)' = safe_sum(PrefixGain(L), updatedGains[f])
  BY MoveAppends
<1>6. /\ \A h : Light(h)' = Light(h) /\ Heft(h)' = Heft(h)
      /\ Hefts' = Hefts /\ AllLight' = AllLight /\ Symmetric(graph)' = Symmetric(graph)
  BY <1>2, SameGraph
<1>7. ASSUME NEW h \in candidates'
      PROVE  /\ updatedGains'[h] \in Int
             /\ Light(h) => updatedGains'[h] = GainOf(graph, insecure \ {f}, h)
  <2>1. updatedGains'[h] = safe_sum(moveGains'[h], 2 * edgeCost(h, order[Len(order)])')
    BY <1>5 DEF updatedGains
  <2>2. edgeCost(h, order[Len(order)])' = edgeCost(h, f)
    BY <1>2, <1>5 DEF edgeCost, inWeights, outWeights
  <2>3. moveGains'[h] = updatedGains[h] /\ h \in candidates /\ h \in Functions
    BY <1>2, <1>4
  <2>4. updatedGains[h] \in Int
    BY <1>3, <2>3
  <2>5. /\ edgeCost(h, f) \in Int
        /\ Light(h) => safe_sum(GainOf(graph, insecure, h), 2 * edgeCost(h, f))
                         = GainOf(graph, insecure \ {f}, h)
    <3>1. /\ graph \in Graphs /\ insecure \in SUBSET Functions
          /\ f \in insecure /\ h \in Functions
      BY <1>3, <1>4, <2>3
    <3>2. QED BY <3>1, UpdateIs
  <2>6. updatedGains'[h] = safe_sum(updatedGains[h], 2 * edgeCost(h, f))
    BY <2>1, <2>2, <2>3
  <2>7. updatedGains'[h] \in Int
    <3> DEFINE y == 2 * edgeCost(h, f)
    <3>1. y \in Int
      BY <2>5
    <3> HIDE DEF y
    <3>2. safe_sum(updatedGains[h], y) \in Int
      BY <2>4, <3>1, SafeSumInt
    <3>3. QED BY <2>6, <3>2 DEF y
  <2>8. QED BY <1>3, <2>3, <2>5, <2>6, <2>7
<1>8. GainsInv'
  <2>1. updatedGains' \in [candidates' -> Int]
    <3>1. updatedGains' = [h \in candidates' |-> updatedGains'[h]]
      BY DEF updatedGains
    <3>2. QED BY <1>7, <3>1
  <2>2. \A h \in candidates' : Light(h)' => updatedGains'[h] = GainOf(graph', insecure', h)
    BY <1>2, <1>6, <1>7
  <2>3. QED BY <1>2, <1>3, <1>5, <2>1, <2>2 DEF GainsInv
<1>9. ScanInv'
  <2>1. PrefixGain(0)' = PrefixGain(0) /\ PrefixGain(0) = 0
    <3>1. 0 \in 0 .. L /\ gains \in Seq(Int)
      BY <1>5 DEF GainInv, GainsInv
    <3>2. PrefixGain(0) = 0
      BY <3>1, RunningSumsLaws DEF PrefixGain
    <3>3. QED BY <1>5, <3>1, <3>2
  <2>2. QED BY <1>2, <1>3, <2>1 DEF ScanInv
<1>10. CostInv'
  <2> SUFFICES ASSUME Symmetric(graph), AllLight, NEW n \in 0 .. L + 1
               PROVE  /\ AbsInt(PrefixGain(n)') <= SumFunctionOnSet(Hefts, MovedBetween(1, n)')
                      /\ CostOf(graph, start.secure \cup MovedBetween(1, n)')
                           <= CostOf(graph, start.secure) - PrefixGain(n)'
    BY <1>2, <1>5, <1>6 DEF CostInv
  <2>1. \A m \in 0 .. L :
          /\ AbsInt(PrefixGain(m)) <= SumFunctionOnSet(Hefts, MovedBetween(1, m))
          /\ CostOf(graph, start.secure \cup MovedBetween(1, m))
               <= CostOf(graph, start.secure) - PrefixGain(m)
    BY DEF GainInv, CostInv
  <2>2. CASE n \in 0 .. L
    BY <1>5, <2>1, <2>2
  <2>3. CASE n = L + 1
    <3>0. n \in Nat
      BY <1>5, <2>3
    <3> DEFINE before == CostOf(graph, secure)
               after == CostOf(graph, secure \cup {f})
               first == CostOf(graph, start.secure)
               g == updatedGains[f]
               p == PrefixGain(L)
               sum == SumFunctionOnSet(Hefts, Moved)
               h == Heft(f)
    <3>1. before <= first - p /\ AbsInt(p) <= sum
      <4>1. L \in 0 .. L /\ MovedBetween(1, L) = Moved
        BY <1>5 DEF Moved
      <4>2. QED BY <1>4, <2>1, <4>1
    <3>2. /\ sum \in Nat /\ sum + h < POS_INFINITY /\ Light(f)
          /\ SumFunctionOnSet(Hefts, Moved \cup {f}) = sum + h
      BY <1>3, <1>4, HeftsAddUp
    <3>3. /\ g = GainOf(graph, insecure, f)
          /\ h \in Nat /\ g \in Int /\ -h <= g /\ g <= h
      <4>1. f \in Functions
        BY <1>2, <1>4
      <4>2. QED BY <1>2, <1>3, <1>4, <3>2, <4>1, GainWithinHeft
    <3>4. after \in Int /\ before \in Int /\ after <= before - g
      <4>1. f \in Functions \ secure
        BY <1>2, <1>4
      <4>2. QED BY <1>3, <1>4, <3>3, <4>1, MoveLowersCost
    <3>5. first \in Int
      BY <1>3, <1>4, CostIsInt
    <3>6. p \in Int
      BY <1>5
    <3>7. PrefixGain(n)' = safe_sum(p, g)
      BY <1>5, <2>3, <3>0
    <3>8. start.secure \cup MovedBetween(1, n)' = secure \cup {f}
      <4>1. MovedBetween(1, n)' = Moved \cup {f}
        BY <1>5, <2>3, <3>0
      <4>2. QED BY <1>4, <4>1
    <3>9. safe_sum(p, g) = p + g /\ AbsInt(p + g) <= sum + h /\ after <= first - (p + g)
      <4> HIDE DEF after, before, first, p, g, sum, h
      <4>1. /\ -POS_INFINITY < p /\ p < POS_INFINITY
            /\ g # -POS_INFINITY /\ g # POS_INFINITY
        BY <3>1, <3>2, <3>3, <3>6, InfinityAssumption DEF AbsInt
      <4>2. safe_sum(p, g) = p + g
        BY <3>3, <3>6, <4>1, SafeSumExact
      <4>3. AbsInt(p + g) <= sum + h
        BY <3>1, <3>2, <3>3, <3>6 DEF AbsInt
      <4>4. after <= first - (p + g)
        BY <3>1, <3>3, <3>4, <3>5, <3>6
      <4>5. QED BY <4>2, <4>3, <4>4
    <3>10. /\ AbsInt(PrefixGain(n)') <= sum + h
           /\ CostOf(graph, start.secure \cup MovedBetween(1, n)') <= first - PrefixGain(n)'
      BY <3>7, <3>8, <3>9
    <3>11. SumFunctionOnSet(Hefts, MovedBetween(1, n)') = sum + h
      BY <1>5, <2>3, <3>0, <3>2
    <3>12. QED BY <3>10, <3>11
  <2>4. n \in 0 .. L \/ n = L + 1
    BY <1>5
  <2>5. QED BY <2>2, <2>3, <2>4
<1>11. QED BY <1>1, <1>8, <1>9, <1>10 DEF GainInv

(***************************************************************************)
(* Once all are moved the totals of the prefixes no longer change, and the *)
(* scan visits them in order.                                              *)
(***************************************************************************)
LEMMA AfterMovesKeepGains ==
  ASSUME GainInv, UNCHANGED <<graph, start, order, gains>>
  PROVE  /\ CostInv' /\ graph' \in Graphs
         /\ gains' \in Seq(Int) /\ Len(gains') = Len(order')
         /\ \A n : PrefixGain(n)' = PrefixGain(n)
<1>1. \A n : PrefixGain(n)' = PrefixGain(n)
  BY DEF PrefixGain
<1>2. CostInv'
  <2>1. Hefts' = Hefts /\ AllLight' = AllLight /\ Symmetric(graph)' = Symmetric(graph)
    BY SameGraph
  <2>2. QED BY <1>1, <2>1 DEF GainInv, CostInv, MovedBetween
<1>3. QED BY <1>1, <1>2 DEF GainInv, GainsInv

(***************************************************************************)
(* A turn of the scan knows one total more, and keeps the longest best     *)
(* prefix.                                                                 *)
(***************************************************************************)
LEMMA ScanGainKeepsGains ==
  ASSUME GainInv, ScanGain
  PROVE  GainInv'
<1>1. PassInv'
  BY ScanGainKeeps DEF GainInv
<1>2. /\ pc = "scan" /\ pc' = "scan" /\ i <= Len(order) /\ i' = i + 1
      /\ intmdGain' = safe_sum(intmdGain, gains[i])
      /\ IF maxGain <= intmdGain' THEN maxGain' = intmdGain' /\ idx' = i
         ELSE maxGain' = maxGain /\ idx' = idx
      /\ UNCHANGED <<graph, start, candidates, moveGains, order, gains>>
  BY DEF ScanGain, ScanStep
<1>3. /\ CostInv' /\ graph' \in Graphs
      /\ gains' \in Seq(Int) /\ Len(gains') = Len(order')
      /\ \A n : PrefixGain(n)' = PrefixGain(n)
  BY <1>2, AfterMovesKeepGains
<1>4. GainsInv'
  <2>1. updatedGains' = updatedGains
    BY <1>2 DEF updatedGains, initialGain, internalCost, externalCost, costWith,
                edgeCost, inWeights, outWeights, functionCost, ScanGain, ScanStep
  <2>2. QED BY <1>2, <1>3, <2>1 DEF GainInv, GainsInv
<1>5. /\ i \in 1 .. Len(order) /\ idx \in 0 .. i - 1 /\ Len(order) \in Nat
      /\ gains \in Seq(Int) /\ Len(gains) = Len(order)
  BY <1>2 DEF GainInv, GainsInv, PassInv, SequenceInv
<1>6. /\ intmdGain = PrefixGain(i - 1) /\ maxGain = PrefixGain(idx)
      /\ \A n \in 0 .. i - 1 :
           PrefixGain(n) <= maxGain /\ (n > idx => PrefixGain(n) < maxGain)
  BY DEF GainInv, ScanInv
<1>7. \A n \in 0 .. Len(order) : PrefixGain(n) \in Int
  BY <1>5, RunningSumsLaws DEF PrefixGain
<1>8. intmdGain' = PrefixGain(i)
  <2>1. PrefixGain(i) = safe_sum(PrefixGain(i - 1), gains[i])
    BY <1>5, RunningSumsLaws DEF PrefixGain
  <2>2. QED BY <1>2, <1>6, <2>1
<1>9. \A n \in 0 .. i : n \in 0 .. i - 1 \/ n = i
  BY <1>5
<1>10. /\ maxGain' = PrefixGain(idx')
       /\ \A n \in 0 .. i :
            PrefixGain(n) <= maxGain' /\ (n > idx' => PrefixGain(n) < maxGain')
  <2>1. CASE maxGain <= PrefixGain(i)
    <3>1. maxGain' = PrefixGain(i) /\ idx' = i
      BY <1>2, <1>8, <2>1
    <3>2. \A n \in 0 .. i : PrefixGain(n) <= PrefixGain(i)
      <4> SUFFICES ASSUME NEW n \in 0 .. i PROVE PrefixGain(n) <= PrefixGain(i)
        OBVIOUS
      <4>1. /\ PrefixGain(n) \in Int /\ PrefixGain(i) \in Int /\ maxGain \in Int
            /\ n \in 0 .. i - 1 \/ n = i
        BY <1>5, <1>6, <1>7, <1>9
      <4>2. CASE n \in 0 .. i - 1
        BY <1>6, <2>1, <4>1, <4>2
      <4>3. CASE n = i
        BY <4>1, <4>3
      <4>4. QED BY <4>1, <4>2, <4>3
    <3>3. \A n \in 0 .. i : ~(n > i)
      BY <1>5
    <3>4. QED BY <3>1, <3>2, <3>3
  <2>2. CASE ~(maxGain <= PrefixGain(i))
    <3>1. maxGain' = maxGain /\ idx' = idx
      BY <1>2, <1>8, <2>2
    <3>2. PrefixGain(i) < maxGain
      BY <1>5, <1>6, <1>7, <2>2
    <3>3. PrefixGain(i) <= maxGain
      BY <1>5, <1>6, <1>7, <2>2
    <3>4. QED BY <1>6, <1>9, <3>1, <3>2, <3>3
  <2>3. QED BY <2>1, <2>2
<1>11. ScanInv'
  <2>1. i' - 1 = i
    BY <1>2, <1>5
  <2>2. QED BY <1>3, <1>8, <1>10, <2>1 DEF ScanInv
<1>12. QED BY <1>1, <1>3, <1>4, <1>11 DEF GainInv

(***************************************************************************)
(* The same after a step: the sides are sets of functions, and the gains   *)
(* computed from scratch are integers.                                     *)
(***************************************************************************)
LEMMA PassInvSides == (PassInv => insecure \in SUBSET Functions)'
<1>1. PassInv => insecure \in SUBSET Functions
  BY SidesOf
<1>2. QED BY <1>1, PTL

LEMMA InitialGainIntNext ==
  (graph \in Graphs /\ insecure \in SUBSET Functions
     => \A f \in Functions : initialGain(f) \in Int)'
<1>1. graph \in Graphs /\ insecure \in SUBSET Functions
        => \A f \in Functions : initialGain(f) \in Int
  BY InitialGainIs
<1>2. QED BY <1>1, PTL

(***************************************************************************)
(* Every step keeps what is known of the gains; steps other than a move    *)
(* and a turn of the scan touch neither gains nor totals.                  *)
(***************************************************************************)
LEMMA GainInvNext == GainInv /\ [Next]_vars => GainInv'
<1> SUFFICES ASSUME GainInv, [Next]_vars PROVE GainInv'
  OBVIOUS
<1>1. PassInv'
  BY PassInvNext DEF GainInv
<1>2. ASSUME NEW f \in candidates, MoveBest(f) PROVE GainInv'
  BY <1>2, MoveBestKeepsGains
<1>3. CASE ScanGain
  BY <1>3, ScanGainKeepsGains
<1>4. ASSUME UNCHANGED <<graph, start, order, gains, candidates, moveGains,
                         i, intmdGain, maxGain, idx>>,
             pc' = "move" => pc = "move" /\ insecure' = insecure,
             pc' = "done" => i = Len(order) + 1
      PROVE  GainInv'
  <2>1. /\ CostInv' /\ graph' \in Graphs
        /\ gains' \in Seq(Int) /\ Len(gains') = Len(order')
        /\ \A n : PrefixGain(n)' = PrefixGain(n)
    BY <1>4, AfterMovesKeepGains
  <2>2. ScanInv'
    BY <1>4, <2>1 DEF GainInv, ScanInv
  <2>3. updatedGains' \in [candidates' -> Int]
    <3>1. CASE order = << >>
      <4>1. \A f \in candidates : initialGain(f)' \in Int
        <5>1. graph' \in Graphs /\ insecure' \in SUBSET Functions
          BY <1>1, <2>1, PassInvSides
        <5>2. candidates \subseteq Functions
          BY SidesOf DEF GainInv
        <5>3. QED BY <5>1, <5>2, InitialGainIntNext
      <4>2. updatedGains' = [f \in candidates |-> initialGain(f)']
        BY <1>4, <3>1 DEF updatedGains
      <4>3. QED BY <1>4, <4>1, <4>2
    <3>2. CASE order # << >>
      <4>1. updatedGains' = updatedGains
        BY <1>4, <3>2 DEF updatedGains, edgeCost, inWeights, outWeights
      <4>2. QED BY <1>4, <4>1 DEF GainInv, GainsInv
    <3>3. QED BY <3>1, <3>2
  <2>4. pc' = "move" =>
          \A f \in candidates' :
            Light(f)' => updatedGains'[f] = GainOf(graph', insecure', f)
    <3> SUFFICES ASSUME pc' = "move", NEW f \in candidates', Light(f)'
                 PROVE  updatedGains'[f] = GainOf(graph', insecure', f)
      OBVIOUS
    <3>1. pc = "move" /\ insecure' = insecure
      BY <1>4
    <3>2. updatedGains' = updatedGains
      BY <1>4, <3>1 DEF updatedGains, initialGain, internalCost, externalCost, costWith,
                        edgeCost, inWeights, outWeights, functionCost
    <3>3. Light(f)
      BY <1>4, SameGraph
    <3>4. QED BY <1>4, <3>1, <3>2, <3>3 DEF GainInv, GainsInv
  <2>5. GainsInv'
    BY <1>4, <2>1, <2>3, <2>4 DEF GainInv, GainsInv
  <2>6. QED BY <1>1, <2>1, <2>2, <2>5 DEF GainInv
<1>5. CASE AllMoved
  BY <1>4, <1>5 DEF AllMoved
<1>6. CASE RevertRest
  <2>1. i = Len(order) + 1
    BY <1>6 DEF RevertRest, RevertWith, GainInv, PassInv, SequenceInv
  <2>2. QED BY <1>4, <1>6, <2>1 DEF RevertRest, RevertWith
<1>7. CASE UNCHANGED vars
  <2>1. pc = "done" => i = Len(order) + 1
    BY DEF GainInv, GainsInv
  <2>2. QED BY <1>4, <1>7, <2>1 DEF vars
<1>8. QED BY <1>2, <1>3, <1>5, <1>6, <1>7 DEF Next

LEMMA GainInvariant == Spec => []GainInv
  BY GainInvInit, GainInvNext, PTL DEF Spec

(***************************************************************************)
(* The incremental update of the gains never drifts for a function whose   *)
(* edges weigh less than infinity: whatever the graph and however many     *)
(* moves were made, the next function is chosen on the gain that a         *)
(* recomputation from scratch would give.                                  *)
(***************************************************************************)
THEOREM GainsStayExact == Spec => []GainsExact
<1>1. ASSUME GainInv PROVE GainsExact
  <2> SUFFICES ASSUME pc = "move", NEW f \in candidates, Light(f)
               PROVE  updatedGains[f] = initialGain(f)
    BY DEF GainsExact
  <2>1. updatedGains[f] = GainOf(graph, insecure, f)
    BY <1>1 DEF GainInv, GainsInv
  <2>2. graph \in Graphs /\ f \in Functions /\ insecure \in SUBSET Functions
    BY <1>1, SidesOf DEF GainInv, GainsInv
  <2>3. QED BY <2>1, <2>2, InitialGainIs
<1>2. QED BY <1>1, GainInvariant, PTL

(***************************************************************************)
(* The pass keeps exactly the longest of the prefixes of the move sequence *)
(* with the greatest total gain, infinite totals included.                 *)
(***************************************************************************)
THEOREM BestPrefixKept == Spec => []KeepsBestPrefix
<1>1. ASSUME GainInv PROVE KeepsBestPrefix
  <2> SUFFICES ASSUME pc = "done" PROVE KeepsBestPrefix
    BY DEF KeepsBestPrefix
  <2>1. /\ i = Len(order) + 1 /\ idx \in 0 .. Len(order) /\ Len(order) \in Nat
        /\ i - 1 = Len(order)
    BY <1>1 DEF GainInv, GainsInv, PassInv, SequenceInv
  <2>2. /\ secure = start.secure \cup MovedBetween(1, idx)
        /\ related = start.related \ MovedBetween(1, idx)
    BY <1>1 DEF GainInv, PassInv, SidesInv, RelatedInv, Kept
  <2>3. \A n \in 0 .. Len(order) :
          /\ PrefixGain(n) <= PrefixGain(idx)
          /\ n > idx => PrefixGain(n) < PrefixGain(idx)
    BY <1>1, <2>1 DEF GainInv, ScanInv
  <2>4. QED BY <2>1, <2>2, <2>3 DEF KeepsBestPrefix
<1>2. QED BY <1>1, GainInvariant, PTL

(***************************************************************************)
(* The purpose of the pass: with equal weights on both copies of every     *)
(* edge, and where nothing it adds up reaches infinity, the split it       *)
(* leaves costs no more than the one it was given.                         *)
(***************************************************************************)
THEOREM PassNeverWorse == Spec => []NeverWorse
<1>1. ASSUME GainInv PROVE NeverWorse
  <2> SUFFICES ASSUME pc = "done", Symmetric(graph), AllLight
               PROVE  CutCost(secure) <= CutCost(start.secure)
    BY DEF NeverWorse
  <2>1. /\ i - 1 = Len(order) /\ idx \in 0 .. Len(order) /\ Len(order) \in Nat
        /\ graph \in Graphs /\ gains \in Seq(Int) /\ Len(gains) = Len(order)
    BY <1>1 DEF GainInv, GainsInv, PassInv, SequenceInv
  <2>2. secure = start.secure \cup MovedBetween(1, idx)
    BY <1>1 DEF GainInv, PassInv, SidesInv, Kept
  <2>3. PrefixGain(0) <= PrefixGain(idx)
    BY <1>1, <2>1 DEF GainInv, ScanInv
  <2>4. PrefixGain(0) = 0 /\ PrefixGain(idx) \in Int
    BY <2>1, RunningSumsLaws DEF PrefixGain
  <2>5. CutCost(secure) <= CutCost(start.secure) - PrefixGain(idx)
    BY <1>1, <2>1, <2>2, CutCostIsCostOf DEF GainInv, CostInv
  <2>6. CutCost(secure) \in Int /\ CutCost(start.secure) \in Int
    <3>1. secure \in SUBSET Functions /\ start.secure \in SUBSET Functions
      BY <1>1, SidesOf DEF GainInv
    <3>2. QED BY <2>1, <3>1, CostIsInt, CutCostIsCostOf
  <2>7. QED BY <2>3, <2>4, <2>5, <2>6
<1>2. QED BY <1>1, GainInvariant, PTL
=============================================================================
