----------------------------- MODULE FiniteSums -----------------------------
(***************************************************************************)
(* Sums over finite sets and folds over sequences, as the models take them  *)
(* from FiniteSetsExt and SequencesExt: what they are of, how sums add,     *)
(* scale and compare, how a fold goes on step by step.  Either is a         *)
(* recursive function over subsets; that it exists, and every fact about    *)
(* it, is an induction over sets of natural numbers (WFMin), not over       *)
(* predicates.                                                              *)
(***************************************************************************)
EXTENDS Integers, FiniteSets, FiniteSetsExt, FiniteSetTheorems, TLAPS

(* Induction, for a set of numbers. *)
LEMMA SetOfNaturals ==
  ASSUME NEW T, 0 \in T, \A n \in Nat : n \in T => n + 1 \in T
  PROVE  Nat \subseteq T
<1> SUFFICES ASSUME Nat \ T # {} PROVE FALSE
  OBVIOUS
<1> DEFINE Less == {pair \in Nat \X Nat : pair[1] < pair[2]}
<1>1. PICK m \in Nat \ T : \A k \in Nat \ T : <<k, m>> \notin Less
  <2>1. IsWellFoundedOn(Less, Nat)
    BY NatLessThanWellFounded DEF OpToRel
  <2> HIDE DEF Less
  <2> QED  BY <2>1, WFMin
<1>2. m # 0 /\ m - 1 \in Nat
  OBVIOUS
<1>3. <<m - 1, m>> \in Less
  BY <1>2
<1>4. m - 1 \in T
  BY <1>1, <1>2, <1>3
<1> QED
  BY <1>1, <1>2, <1>4

(* The partial sums of F, in the order in which MapThenSumSet takes the     *)
(* elements.                                                                *)
Picked(s) == CHOOSE x \in s : TRUE

PartialSums(g, F, S) ==
  g = [s \in SUBSET S |-> IF s = {} THEN 0 ELSE F[Picked(s)] + g[s \ {Picked(s)}]]

LEMMA Smaller ==
  ASSUME NEW S, IsFiniteSet(S), NEW s \in SUBSET S, s # {}
  PROVE  /\ Picked(s) \in s /\ Picked(s) \in S
         /\ s \ {Picked(s)} \in SUBSET S
         /\ IsFiniteSet(s) /\ IsFiniteSet(s \ {Picked(s)})
         /\ Cardinality(s) \in Nat /\ Cardinality(s) # 0
         /\ Cardinality(s \ {Picked(s)}) = Cardinality(s) - 1
<1>1. IsFiniteSet(s)
  BY FS_Subset
<1>2. Picked(s) \in s
  BY DEF Picked
<1>3. Cardinality(s) \in Nat /\ Cardinality(s) # 0
  BY <1>1, FS_CardinalityType, FS_EmptySet
<1>4. Cardinality(s \ {Picked(s)}) = Cardinality(s) - 1 /\ IsFiniteSet(s \ {Picked(s)})
  BY <1>1, <1>2, FS_RemoveElement
<1> QED
  BY <1>1, <1>2, <1>3, <1>4

(* Partial sums exist: those of the sets of at most n elements do, for each *)
(* n.                                                                       *)
LEMMA PartialSumsExist ==
  ASSUME NEW S, IsFiniteSet(S), NEW F \in [S -> Int]
  PROVE  \E g \in [SUBSET S -> Int] : PartialSums(g, F, S)
<1> DEFINE Upto(n) == {s \in SUBSET S : Cardinality(s) <= n}
           Good(n) == \E g \in [Upto(n) -> Int] :
                        \A s \in Upto(n) :
                          g[s] = IF s = {} THEN 0 ELSE F[Picked(s)] + g[s \ {Picked(s)}]
           T == {n \in Nat : Good(n)}
<1>1. 0 \in T
  <2> DEFINE g == [s \in Upto(0) |-> 0]
  <2>1. \A s \in Upto(0) : s = {}
    <3> SUFFICES ASSUME NEW s \in SUBSET S, s # {}, Cardinality(s) <= 0
                 PROVE  FALSE
      OBVIOUS
    <3>1. Cardinality(s) \in Nat /\ Cardinality(s) # 0
      BY Smaller
    <3> QED  BY <3>1
  <2>2. g \in [Upto(0) -> Int] /\ \A s \in Upto(0) : g[s] = 0
    OBVIOUS
  <2> QED  BY <2>1, <2>2
<1>2. ASSUME NEW n \in Nat, n \in T
      PROVE  n + 1 \in T
  <2>1. PICK h \in [Upto(n) -> Int] :
          \A s \in Upto(n) : h[s] = IF s = {} THEN 0 ELSE F[Picked(s)] + h[s \ {Picked(s)}]
    BY <1>2
  <2> DEFINE g == [s \in Upto(n + 1) |-> IF s = {} THEN 0 ELSE F[Picked(s)] + h[s \ {Picked(s)}]]
  <2>2. ASSUME NEW s \in Upto(n + 1), s # {}
        PROVE  s \ {Picked(s)} \in Upto(n) /\ s \ {Picked(s)} \in Upto(n + 1) /\ Picked(s) \in S
    <3>1. s \in SUBSET S /\ Cardinality(s) <= n + 1
      OBVIOUS
    <3>2. /\ Picked(s) \in S /\ s \ {Picked(s)} \in SUBSET S
          /\ Cardinality(s) \in Nat
          /\ Cardinality(s \ {Picked(s)}) = Cardinality(s) - 1
      BY <2>2, <3>1, Smaller
    <3> QED  BY <3>1, <3>2
  <2>3. g \in [Upto(n + 1) -> Int]
    BY <2>2
  <2>4. ASSUME NEW s \in Upto(n) PROVE s \in Upto(n + 1) /\ g[s] = h[s]
    <3>1. s \in Upto(n + 1)
      <4>1. IsFiniteSet(s)
        BY FS_Subset
      <4> QED  BY <4>1, FS_CardinalityType
    <3> QED  BY <2>1, <3>1
  <2>5. ASSUME NEW s \in Upto(n + 1)
        PROVE  g[s] = IF s = {} THEN 0 ELSE F[Picked(s)] + g[s \ {Picked(s)}]
    BY <2>2, <2>4
  <2> HIDE DEF Upto, g
  <2>6. Good(n + 1)
    BY <2>3, <2>5
  <2> QED  BY <2>6
<1>3. Nat \subseteq T
  <2> HIDE DEF T
  <2> QED  BY <1>1, <1>2, SetOfNaturals
<1>4. Cardinality(S) \in T
  BY <1>3, FS_CardinalityType
<1>5. Upto(Cardinality(S)) = SUBSET S
  <2> SUFFICES ASSUME NEW s \in SUBSET S PROVE Cardinality(s) <= Cardinality(S)
    OBVIOUS
  <2> QED  BY FS_Subset
<1>6. PICK g \in [SUBSET S -> Int] :
        \A s \in SUBSET S : g[s] = IF s = {} THEN 0 ELSE F[Picked(s)] + g[s \ {Picked(s)}]
  BY <1>4, <1>5
<1>7. PartialSums(g, F, S)
  BY <1>6 DEF PartialSums
<1> QED
  BY <1>7

(* Induction along the order in which the elements are taken. *)
LEMMA SubsetInduction ==
  ASSUME NEW S, IsFiniteSet(S), NEW Q, {} \in Q,
         \A s \in SUBSET S : s # {} /\ s \ {Picked(s)} \in Q => s \in Q
  PROVE  SUBSET S \subseteq Q
<1> DEFINE T == {n \in Nat : \A s \in SUBSET S : Cardinality(s) = n => s \in Q}
<1>1. 0 \in T
  <2> SUFFICES ASSUME NEW s \in SUBSET S, Cardinality(s) = 0 PROVE s \in Q
    OBVIOUS
  <2>1. s = {} \/ Cardinality(s) # 0
    BY Smaller
  <2> QED  BY <2>1
<1>2. ASSUME NEW n \in Nat, n \in T PROVE n + 1 \in T
  <2> SUFFICES ASSUME NEW s \in SUBSET S, Cardinality(s) = n + 1 PROVE s \in Q
    OBVIOUS
  <2>1. s # {}
    BY FS_EmptySet
  <2>2. s \ {Picked(s)} \in SUBSET S /\ Cardinality(s \ {Picked(s)}) = n
    <3>1. s \ {Picked(s)} \in SUBSET S /\ Cardinality(s \ {Picked(s)}) = Cardinality(s) - 1
      BY <2>1, Smaller
    <3> QED  BY <3>1
  <2> QED  BY <1>2, <2>1, <2>2
<1>3. Nat \subseteq T
  <2> HIDE DEF T
  <2> QED  BY <1>1, <1>2, SetOfNaturals
<1>4. ASSUME NEW s \in SUBSET S PROVE Cardinality(s) \in Nat
  BY FS_Subset, FS_CardinalityType
<1> QED
  BY <1>3, <1>4

LEMMA LeastOfNaturals ==
  ASSUME NEW T \in SUBSET Nat, T # {}
  PROVE  Min(T) \in T /\ \A n \in T : Min(T) <= n
<1> DEFINE Less == {pair \in Nat \X Nat : pair[1] < pair[2]}
<1>1. PICK m \in T : \A k \in T : <<k, m>> \notin Less
  <2>1. IsWellFoundedOn(Less, Nat)
    BY NatLessThanWellFounded DEF OpToRel
  <2> HIDE DEF Less
  <2> QED  BY <2>1, WFMin
<1>2. ASSUME NEW k \in T PROVE m <= k
  <2>1. k \in Nat /\ m \in Nat /\ <<k, m>> \notin Less
    BY <1>1
  <2> QED  BY <2>1
<1> QED
  BY <1>2 DEF Min

-----------------------------------------------------------------------------
Total(F, S) == MapThenSumSet(LAMBDA c : F[c], S)

(* The library's sum is what it is meant to be: the last of partial sums.   *)
LEMMA TotalIsPartialSum ==
  ASSUME NEW S, IsFiniteSet(S), NEW F \in [S -> Int]
  PROVE  \E g \in [SUBSET S -> Int] : PartialSums(g, F, S) /\ Total(F, S) = g[S]
<1> DEFINE iter == CHOOSE g : PartialSums(g, F, S)
<1>1. PartialSums(iter, F, S)
  BY PartialSumsExist
<1>2. Total(F, S) = iter[S]
  BY DEF Total, MapThenSumSet, MapThenFoldSet, PartialSums, Picked
<1> HIDE DEF iter
<1>3. /\ DOMAIN iter = SUBSET S
      /\ \A s \in SUBSET S : iter[s] = IF s = {} THEN 0 ELSE F[Picked(s)] + iter[s \ {Picked(s)}]
      /\ iter = [s \in SUBSET S |-> iter[s]]
  BY <1>1 DEF PartialSums
<1>4. \A s \in SUBSET S : iter[s] \in Int
  <2> DEFINE Q == {s \in SUBSET S : iter[s] \in Int}
  <2>1. {} \in Q
    <3>1. {} \in SUBSET S
      OBVIOUS
    <3>2. iter[{}] = 0
      BY <1>3, <3>1
    <3> QED  BY <3>1, <3>2
  <2>2. ASSUME NEW s \in SUBSET S, s # {}, s \ {Picked(s)} \in Q PROVE s \in Q
    <3>1. Picked(s) \in S
      BY <2>2, Smaller
    <3>2. iter[s] = F[Picked(s)] + iter[s \ {Picked(s)}]
      BY <1>3, <2>2
    <3> QED  BY <2>2, <3>1, <3>2
  <2>3. SUBSET S \subseteq Q
    <3> HIDE DEF Q
    <3> QED  BY <2>1, <2>2, SubsetInduction
  <2> QED  BY <2>3
<1>5. iter \in [SUBSET S -> Int]
  BY <1>3, <1>4
<1> QED
  BY <1>1, <1>2, <1>5

(* Every way to take the partial sums ends in the total. *)
LEMMA PartialSumsEndInTotal ==
  ASSUME NEW S, IsFiniteSet(S), NEW F \in [S -> Int], NEW h, PartialSums(h, F, S)
  PROVE  h[S] = Total(F, S)
<1>1. PICK g \in [SUBSET S -> Int] : PartialSums(g, F, S) /\ Total(F, S) = g[S]
  BY TotalIsPartialSum
<1> DEFINE Q == {s \in SUBSET S : h[s] = g[s]}
<1>2. \A s \in SUBSET S :
        /\ h[s] = IF s = {} THEN 0 ELSE F[Picked(s)] + h[s \ {Picked(s)}]
        /\ g[s] = IF s = {} THEN 0 ELSE F[Picked(s)] + g[s \ {Picked(s)}]
  <2> SUFFICES ASSUME NEW s \in SUBSET S
               PROVE  /\ h[s] = IF s = {} THEN 0 ELSE F[Picked(s)] + h[s \ {Picked(s)}]
                      /\ g[s] = IF s = {} THEN 0 ELSE F[Picked(s)] + g[s \ {Picked(s)}]
    OBVIOUS
  <2> QED  BY <1>1 DEF PartialSums
<1>3. {} \in Q
  <2>1. {} \in SUBSET S
    OBVIOUS
  <2>2. h[{}] = 0 /\ g[{}] = 0
    BY <1>2, <2>1
  <2> QED  BY <2>1, <2>2
<1>4. ASSUME NEW s \in SUBSET S, s # {}, s \ {Picked(s)} \in Q PROVE s \in Q
  BY <1>2, <1>4
<1>5. SUBSET S \subseteq Q
  <2> HIDE DEF Q
  <2> QED  BY <1>3, <1>4, SubsetInduction
<1>6. S \in SUBSET S
  OBVIOUS
<1> QED
  BY <1>1, <1>5, <1>6

LEMMA TotalType ==
  ASSUME NEW S, IsFiniteSet(S), NEW F \in [S -> Int]
  PROVE  Total(F, S) \in Int
<1>1. PICK g \in [SUBSET S -> Int] : Total(F, S) = g[S]
  BY TotalIsPartialSum
<1>2. S \in SUBSET S
  OBVIOUS
<1> QED
  BY <1>1, <1>2

(* Sums add. *)
LEMMA TotalAdds ==
  ASSUME NEW S, IsFiniteSet(S), NEW A \in [S -> Int], NEW B \in [S -> Int],
         NEW F \in [S -> Int], \A c \in S : F[c] = A[c] + B[c]
  PROVE  Total(F, S) = Total(A, S) + Total(B, S)
<1>1. PICK f \in [SUBSET S -> Int] : PartialSums(f, F, S) /\ Total(F, S) = f[S]
  BY TotalIsPartialSum
<1>2. PICK a \in [SUBSET S -> Int] : PartialSums(a, A, S) /\ Total(A, S) = a[S]
  BY TotalIsPartialSum
<1>3. PICK b \in [SUBSET S -> Int] : PartialSums(b, B, S) /\ Total(B, S) = b[S]
  BY TotalIsPartialSum
<1> DEFINE Q == {s \in SUBSET S : f[s] = a[s] + b[s]}
<1>4. \A s \in SUBSET S :
        /\ f[s] = IF s = {} THEN 0 ELSE F[Picked(s)] + f[s \ {Picked(s)}]
        /\ a[s] = IF s = {} THEN 0 ELSE A[Picked(s)] + a[s \ {Picked(s)}]
        /\ b[s] = IF s = {} THEN 0 ELSE B[Picked(s)] + b[s \ {Picked(s)}]
  BY <1>1, <1>2, <1>3 DEF PartialSums
<1>5. {} \in Q
  <2>1. {} \in SUBSET S
    OBVIOUS
  <2>2. f[{}] = 0 /\ a[{}] = 0 /\ b[{}] = 0
    BY <1>4, <2>1
  <2> QED  BY <2>1, <2>2
<1>6. ASSUME NEW s \in SUBSET S, s # {}, s \ {Picked(s)} \in Q PROVE s \in Q
  <2>1. Picked(s) \in S /\ s \ {Picked(s)} \in SUBSET S
    BY <1>6, Smaller
  <2> QED  BY <1>4, <1>6, <2>1
<1>7. SUBSET S \subseteq Q
  <2> HIDE DEF Q
  <2> QED  BY <1>5, <1>6, SubsetInduction
<1>8. S \in SUBSET S
  OBVIOUS
<1> QED
  BY <1>1, <1>2, <1>3, <1>7, <1>8

(* Sums scale. *)
LEMMA TotalScales ==
  ASSUME NEW S, IsFiniteSet(S), NEW A \in [S -> Int], NEW k \in Int,
         NEW F \in [S -> Int], \A c \in S : F[c] = k * A[c]
  PROVE  Total(F, S) = k * Total(A, S)
<1>1. PICK f \in [SUBSET S -> Int] : PartialSums(f, F, S) /\ Total(F, S) = f[S]
  BY TotalIsPartialSum
<1>2. PICK a \in [SUBSET S -> Int] : PartialSums(a, A, S) /\ Total(A, S) = a[S]
  BY TotalIsPartialSum
<1> DEFINE Q == {s \in SUBSET S : f[s] = k * a[s]}
<1>3. \A s \in SUBSET S :
        /\ f[s] = IF s = {} THEN 0 ELSE F[Picked(s)] + f[s \ {Picked(s)}]
        /\ a[s] = IF s = {} THEN 0 ELSE A[Picked(s)] + a[s \ {Picked(s)}]
  BY <1>1, <1>2 DEF PartialSums
<1>4. {} \in Q
  <2>1. {} \in SUBSET S
    OBVIOUS
  <2>2. f[{}] = 0 /\ a[{}] = 0
    BY <1>3, <2>1
  <2> QED  BY <2>1, <2>2
<1>5. ASSUME NEW s \in SUBSET S, s # {}, s \ {Picked(s)} \in Q PROVE s \in Q
  <2>1. Picked(s) \in S /\ s \ {Picked(s)} \in SUBSET S
    BY <1>5, Smaller
  <2>2. k * (A[Picked(s)] + a[s \ {Picked(s)}]) = k * A[Picked(s)] + k * a[s \ {Picked(s)}]
    <3>1. A[Picked(s)] \in Int /\ a[s \ {Picked(s)}] \in Int
      BY <2>1
    <3>2. \A x, y \in Int : k * (x + y) = k * x + k * y
      OBVIOUS
    <3> QED  BY <3>1, <3>2
  <2> QED  BY <1>3, <1>5, <2>1, <2>2
<1>6. SUBSET S \subseteq Q
  <2> HIDE DEF Q
  <2> QED  BY <1>4, <1>5, SubsetInduction
<1>7. S \in SUBSET S
  OBVIOUS
<1> QED
  BY <1>1, <1>2, <1>6, <1>7

(* Sums of naturals are naturals. *)
LEMMA TotalNatural ==
  ASSUME NEW S, IsFiniteSet(S), NEW F \in [S -> Nat]
  PROVE  Total(F, S) \in Nat
<1>1. PICK f \in [SUBSET S -> Int] : PartialSums(f, F, S) /\ Total(F, S) = f[S]
  BY TotalIsPartialSum
<1> DEFINE Q == {s \in SUBSET S : f[s] \in Nat}
<1>2. \A s \in SUBSET S : f[s] = IF s = {} THEN 0 ELSE F[Picked(s)] + f[s \ {Picked(s)}]
  BY <1>1 DEF PartialSums
<1>3. {} \in Q
  <2>1. {} \in SUBSET S
    OBVIOUS
  <2>2. f[{}] = 0
    BY <1>2, <2>1
  <2> QED  BY <2>1, <2>2
<1>4. ASSUME NEW s \in SUBSET S, s # {}, s \ {Picked(s)} \in Q PROVE s \in Q
  <2>1. Picked(s) \in S
    BY <1>4, Smaller
  <2>2. f[s] = F[Picked(s)] + f[s \ {Picked(s)}]
    BY <1>2, <1>4
  <2> QED  BY <1>4, <2>1, <2>2
<1>5. SUBSET S \subseteq Q
  <2> HIDE DEF Q
  <2> QED  BY <1>3, <1>4, SubsetInduction
<1>6. S \in SUBSET S
  OBVIOUS
<1> QED
  BY <1>1, <1>5, <1>6

(* The order does not matter: any element may be taken first. *)
InAnyOrder(g, F, S) == \A s \in SUBSET S : \A x \in s : g[s] = F[x] + g[s \ {x}]

LEMMA PartialSumsInAnyOrder ==
  ASSUME NEW S, IsFiniteSet(S), NEW F \in [S -> Int],
         NEW g \in [SUBSET S -> Int], PartialSums(g, F, S)
  PROVE  InAnyOrder(g, F, S)
<1> DEFINE Q == {s \in SUBSET S : \A x \in s : g[s] = F[x] + g[s \ {x}]}
           T == {n \in Nat : \A s \in SUBSET S : Cardinality(s) = n => s \in Q}
<1>1. \A s \in SUBSET S : s # {} => g[s] = F[Picked(s)] + g[s \ {Picked(s)}]
  BY DEF PartialSums
<1>2. 0 \in T
  <2> SUFFICES ASSUME NEW s \in SUBSET S, Cardinality(s) = 0 PROVE s \in Q
    OBVIOUS
  <2>1. s = {} \/ Cardinality(s) # 0
    BY Smaller
  <2> QED  BY <2>1
<1>3. ASSUME NEW n \in Nat, n \in T PROVE n + 1 \in T
  <2> SUFFICES ASSUME NEW s \in SUBSET S, Cardinality(s) = n + 1, NEW x \in s
               PROVE  g[s] = F[x] + g[s \ {x}]
    OBVIOUS
  <2> DEFINE y == Picked(s)
  <2>1. /\ y \in s /\ y \in S /\ s \ {y} \in SUBSET S /\ s \ {x} \in SUBSET S /\ s # {}
        /\ Cardinality(s \ {y}) = n /\ Cardinality(s \ {x}) = n
    <3>1. y \in s /\ y \in S /\ IsFiniteSet(s)
      BY Smaller
    <3>2. Cardinality(s \ {x}) = n /\ Cardinality(s \ {y}) = n
      <4>1. Cardinality(s \ {x}) = Cardinality(s) - 1 /\ Cardinality(s \ {y}) = Cardinality(s) - 1
        BY <3>1, FS_RemoveElement
      <4> QED  BY <4>1
    <3> QED  BY <3>1, <3>2
  <2>2. g[s] = F[y] + g[s \ {y}]
    BY <1>1, <2>1
  <2> HIDE DEF y
  <2>3. CASE x = y
    BY <2>2, <2>3
  <2>4. CASE x # y
    <3>1. s \ {y} \in Q /\ s \ {x} \in Q
      BY <1>3, <2>1
    <3>2. PICK rest \in SUBSET S : rest = (s \ {y}) \ {x} /\ rest = (s \ {x}) \ {y}
      <4>1. (s \ {y}) \ {x} = (s \ {x}) \ {y} /\ (s \ {y}) \ {x} \in SUBSET S
        OBVIOUS
      <4> QED  BY <4>1
    <3>3. g[s \ {y}] = F[x] + g[rest]
      BY <2>4, <3>1, <3>2
    <3>4. g[s \ {x}] = F[y] + g[rest]
      BY <2>1, <2>4, <3>1, <3>2
    <3>5. F[x] \in Int /\ F[y] \in Int /\ g[rest] \in Int
      BY <2>1
    <3> QED  BY <2>2, <3>3, <3>4, <3>5
  <2> QED  BY <2>3, <2>4
<1>4. Nat \subseteq T
  <2> HIDE DEF T
  <2> QED  BY <1>2, <1>3, SetOfNaturals
<1>5. \A s \in SUBSET S : Cardinality(s) \in Nat
  BY FS_Subset, FS_CardinalityType
<1> QED
  BY <1>4, <1>5 DEF InAnyOrder

(* An element more is a term more. *)
LEMMA TotalWithOneMore ==
  ASSUME NEW S, IsFiniteSet(S), NEW x \in S, NEW F \in [S -> Int],
         NEW A \in [S \ {x} -> Int], \A c \in S \ {x} : F[c] = A[c]
  PROVE  Total(F, S) = F[x] + Total(A, S \ {x})
<1>1. PICK g \in [SUBSET S -> Int] : PartialSums(g, F, S) /\ Total(F, S) = g[S]
  BY TotalIsPartialSum
<1>2. InAnyOrder(g, F, S)
  BY <1>1, PartialSumsInAnyOrder
<1>3. g[S] = F[x] + g[S \ {x}]
  <2>1. S \in SUBSET S
    OBVIOUS
  <2> QED  BY <1>2, <2>1 DEF InAnyOrder
<1> DEFINE rest == S \ {x}
           h == [s \in SUBSET rest |-> g[s]]
<1>4. IsFiniteSet(rest)
  BY FS_RemoveElement
<1>5. PartialSums(h, A, rest)
  <2>1. ASSUME NEW s \in SUBSET rest
        PROVE  g[s] = IF s = {} THEN 0 ELSE A[Picked(s)] + h[s \ {Picked(s)}]
    <3>1. CASE s = {}
      BY <1>1, <3>1 DEF PartialSums
    <3>2. CASE s # {}
      <4>1. Picked(s) \in rest /\ s \ {Picked(s)} \in SUBSET rest
        <5> HIDE DEF rest
        <5> QED  BY <1>4, <3>2, Smaller
      <4>2. s \in SUBSET S /\ g[s] = F[Picked(s)] + g[s \ {Picked(s)}]
        BY <1>1, <3>2 DEF PartialSums
      <4> QED  BY <3>2, <4>1, <4>2
    <3> QED  BY <3>1, <3>2
  <2> QED  BY <2>1 DEF PartialSums
<1>6. h[rest] = Total(A, rest)
  <2>1. A \in [rest -> Int]
    OBVIOUS
  <2> HIDE DEF h, rest
  <2> QED  BY <1>4, <1>5, <2>1, PartialSumsEndInTotal
<1>7. h[rest] = g[rest]
  OBVIOUS
<1> QED
  BY <1>1, <1>3, <1>6, <1>7

(* The sum of terms that are 0 but for one, or all. *)
LEMMA TotalOfOne ==
  ASSUME NEW S, IsFiniteSet(S), NEW F \in [S -> Int], NEW x \in S,
         \A c \in S \ {x} : F[c] = 0
  PROVE  Total(F, S) = F[x]
<1>1. PICK g \in [SUBSET S -> Int] : PartialSums(g, F, S) /\ Total(F, S) = g[S]
  BY TotalIsPartialSum
<1> DEFINE Q == {s \in SUBSET S : x \notin s => g[s] = 0}
<1>2. {} \in Q
  <2>1. {} \in SUBSET S
    OBVIOUS
  <2> QED  BY <1>1, <2>1 DEF PartialSums
<1>3. ASSUME NEW s \in SUBSET S, s # {}, s \ {Picked(s)} \in Q PROVE s \in Q
  <2> SUFFICES ASSUME x \notin s PROVE g[s] = 0
    OBVIOUS
  <2>1. Picked(s) \in s /\ Picked(s) \in S /\ s \ {Picked(s)} \in SUBSET S
    BY <1>3, Smaller
  <2>2. g[s] = F[Picked(s)] + g[s \ {Picked(s)}]
    BY <1>1, <1>3 DEF PartialSums
  <2>3. F[Picked(s)] = 0 /\ g[s \ {Picked(s)}] = 0
    BY <1>3, <2>1
  <2> QED  BY <2>2, <2>3
<1>4. SUBSET S \subseteq Q
  <2> HIDE DEF Q
  <2> QED  BY <1>2, <1>3, SubsetInduction
<1>5. S \in SUBSET S /\ S \ {x} \in SUBSET S /\ x \notin S \ {x}
  OBVIOUS
<1>6. g[S] = F[x] + g[S \ {x}]
  <2>1. InAnyOrder(g, F, S)
    BY <1>1, PartialSumsInAnyOrder
  <2> QED  BY <1>5, <2>1 DEF InAnyOrder
<1>7. g[S \ {x}] = 0
  BY <1>4, <1>5
<1> QED
  BY <1>1, <1>6, <1>7

LEMMA TotalOfNone ==
  ASSUME NEW F \in [{} -> Int]
  PROVE  Total(F, {}) = 0
<1>1. PICK g : PartialSums(g, F, {}) /\ Total(F, {}) = g[{}]
  BY FS_EmptySet, TotalIsPartialSum
<1>2. {} \in SUBSET {}
  OBVIOUS
<1> QED
  BY <1>1, <1>2 DEF PartialSums

-----------------------------------------------------------------------------
(* The largest of some of the first n numbers. *)
LEMMA GreatestOfSome ==
  ASSUME NEW n \in Nat, NEW s \in SUBSET (1 .. n), s # {}
  PROVE  Max(s) \in s /\ \A i \in s : Max(s) >= i
<1> DEFINE T == {m \in Nat : \A i \in s : i <= m}
<1>1. n \in T
  OBVIOUS
<1>2. PICK m \in T : \A k \in T : m <= k
  <2>1. T \in SUBSET Nat /\ T # {}
    BY <1>1
  <2> HIDE DEF T
  <2> QED  BY <2>1, LeastOfNaturals
<1>3. m \in s
  <2> SUFFICES ASSUME m \notin s PROVE FALSE
    OBVIOUS
  <2>1. PICK i \in s : TRUE
    OBVIOUS
  <2>2. m \in Nat /\ \A j \in s : j \in Nat /\ j < m
    BY <1>2
  <2>3. m - 1 \in T
    BY <2>1, <2>2
  <2> QED  BY <1>2, <2>2, <2>3
<1> QED
  BY <1>2, <1>3 DEF Max

(* A fold over the first n numbers is a table with an entry for each set of *)
(* them, of which those of the first k matter.                              *)
FoldTable(g, base, Step, n) ==
  g = [s \in SUBSET (1 .. n) |-> IF s = {} THEN base ELSE Step[Max(s)][g[s \ {Max(s)}]]]

LEMMA FoldTableExists ==
  ASSUME NEW V, NEW base \in V, NEW n \in Nat, NEW Step \in [1 .. n -> [V -> V]]
  PROVE  \E g \in [SUBSET (1 .. n) -> V] : FoldTable(g, base, Step, n)
<1> DEFINE Upto(k) == {s \in SUBSET (1 .. n) : s \subseteq 1 .. k}
           Good(k) == \E g \in [Upto(k) -> V] : \A s \in Upto(k) :
                        g[s] = IF s = {} THEN base ELSE Step[Max(s)][g[s \ {Max(s)}]]
           T == {k \in Nat : Good(k)}
<1>1. 0 \in T
  <2> DEFINE g == [s \in Upto(0) |-> base]
  <2>1. \A s \in Upto(0) : s = {}
    OBVIOUS
  <2>2. g \in [Upto(0) -> V] /\ \A s \in Upto(0) : g[s] = base
    OBVIOUS
  <2> QED  BY <2>1, <2>2
<1>2. ASSUME NEW k \in Nat, k \in T PROVE k + 1 \in T
  <2>1. PICK h \in [Upto(k) -> V] : \A s \in Upto(k) :
          h[s] = IF s = {} THEN base ELSE Step[Max(s)][h[s \ {Max(s)}]]
    BY <1>2
  <2> DEFINE g == [s \in Upto(k + 1) |-> IF s = {} THEN base ELSE Step[Max(s)][h[s \ {Max(s)}]]]
  <2>2. ASSUME NEW s \in Upto(k + 1), s # {}
        PROVE  /\ s \ {Max(s)} \in Upto(k) /\ s \ {Max(s)} \in Upto(k + 1) /\ Max(s) \in 1 .. n
    <3>1. Max(s) \in s /\ \A i \in s : Max(s) >= i
      BY <2>2, GreatestOfSome
    <3>2. \A i \in s : i \in 1 .. n /\ i \in 1 .. (k + 1)
      OBVIOUS
    <3>3. \A i \in s \ {Max(s)} : i \in 1 .. k
      <4> SUFFICES ASSUME NEW i \in s, i # Max(s) PROVE i \in 1 .. k
        OBVIOUS
      <4>1. Max(s) \in 1 .. (k + 1) /\ i \in 1 .. (k + 1) /\ Max(s) >= i
        BY <3>1, <3>2
      <4> QED  BY <4>1
    <3> HIDE DEF Upto
    <3>4. s \ {Max(s)} \in SUBSET (1 .. n)
      BY DEF Upto
    <3>5. \A i \in s \ {Max(s)} : i \in 1 .. (k + 1)
      BY <3>2
    <3> QED  BY <3>1, <3>2, <3>3, <3>4, <3>5 DEF Upto
  <2>3. g \in [Upto(k + 1) -> V]
    <3> SUFFICES ASSUME NEW s \in Upto(k + 1), s # {} PROVE Step[Max(s)][h[s \ {Max(s)}]] \in V
      OBVIOUS
    <3>1. h[s \ {Max(s)}] \in V /\ Max(s) \in 1 .. n
      BY <2>1, <2>2
    <3> HIDE DEF Upto
    <3> QED  BY <3>1
  <2>4. ASSUME NEW s \in Upto(k) PROVE s \in Upto(k + 1) /\ g[s] = h[s]
    <3>1. s \in Upto(k + 1)
      OBVIOUS
    <3> QED  BY <2>1, <3>1
  <2>5. ASSUME NEW s \in Upto(k + 1)
        PROVE  g[s] = IF s = {} THEN base ELSE Step[Max(s)][g[s \ {Max(s)}]]
    BY <2>2, <2>4
  <2>6. Good(k + 1)
    <3>1. \A s \in Upto(k + 1) : g[s] = IF s = {} THEN base ELSE Step[Max(s)][g[s \ {Max(s)}]]
      BY <2>5
    <3> HIDE DEF Upto, g
    <3> QED  BY <2>3, <3>1
  <2> HIDE DEF Good
  <2> QED  BY <2>6
<1>3. Nat \subseteq T
  <2> HIDE DEF T
  <2> QED  BY <1>1, <1>2, SetOfNaturals
<1>4. Upto(n) = SUBSET (1 .. n)
  OBVIOUS
<1>5. PICK g \in [SUBSET (1 .. n) -> V] : \A s \in SUBSET (1 .. n) :
        g[s] = IF s = {} THEN base ELSE Step[Max(s)][g[s \ {Max(s)}]]
  <2>1. Good(n)
    BY <1>3
  <2> HIDE DEF Upto
  <2> QED  BY <1>4, <2>1
<1> QED
  BY <1>5 DEF FoldTable

(* The entries that matter. *)
LEMMA FirstNumbers ==
  ASSUME NEW n \in Nat, NEW k \in 1 .. n
  PROVE  /\ 1 .. k \in SUBSET (1 .. n) /\ 1 .. (k - 1) \in SUBSET (1 .. n)
         /\ 1 .. k # {} /\ Max(1 .. k) = k /\ (1 .. k) \ {k} = 1 .. (k - 1)
<1>1. 1 .. k \in SUBSET (1 .. n) /\ 1 .. (k - 1) \in SUBSET (1 .. n) /\ k \in 1 .. k
  OBVIOUS
<1>2. Max(1 .. k) \in 1 .. k /\ Max(1 .. k) >= k
  BY <1>1, GreatestOfSome
<1>3. Max(1 .. k) = k
  BY <1>2
<1>4. (1 .. k) \ {k} = 1 .. (k - 1)
  OBVIOUS
<1> QED
  BY <1>1, <1>3, <1>4

(* What is defined step by step along the first n numbers exists. *)
StepByStep(g, base, Step, n) == g = [k \in 0 .. n |-> IF k = 0 THEN base ELSE Step[k][g[k - 1]]]

LEMMA StepsExist ==
  ASSUME NEW V, NEW base \in V, NEW n \in Nat, NEW Step \in [1 .. n -> [V -> V]]
  PROVE  \E g \in [0 .. n -> V] : StepByStep(g, base, Step, n)
<1>0. PICK table \in [SUBSET (1 .. n) -> V] : FoldTable(table, base, Step, n)
  BY FoldTableExists
<1>1. table[{}] = base /\ \A k \in 1 .. n : table[1 .. k] = Step[k][table[1 .. (k - 1)]]
  <2>1. \A s \in SUBSET (1 .. n) : table[s] = IF s = {} THEN base ELSE Step[Max(s)][table[s \ {Max(s)}]]
    BY <1>0 DEF FoldTable
  <2>2. {} \in SUBSET (1 .. n)
    OBVIOUS
  <2> QED  BY <2>1, <2>2, FirstNumbers
<1> DEFINE g == [k \in 0 .. n |-> table[1 .. k]]
<1>2. g \in [0 .. n -> V]
  <2> SUFFICES ASSUME NEW k \in 0 .. n PROVE 1 .. k \in SUBSET (1 .. n)
    OBVIOUS
  <2> QED  OBVIOUS
<1>3. ASSUME NEW k \in 0 .. n
      PROVE  g[k] = IF k = 0 THEN base ELSE Step[k][g[k - 1]]
  <2>1. CASE k = 0
    <3>1. 1 .. 0 = {}
      OBVIOUS
    <3> QED  BY <1>1, <2>1, <3>1
  <2>2. CASE k # 0
    <3>1. k \in 1 .. n /\ k - 1 \in 0 .. n
      BY <2>2
    <3>2. table[1 .. k] = Step[k][table[1 .. (k - 1)]]
      BY <1>1, <3>1
    <3> QED  BY <2>2, <3>1, <3>2
  <2> QED  BY <2>1, <2>2
<1>4. StepByStep(g, base, Step, n)
  BY <1>3 DEF StepByStep
<1> HIDE DEF g
<1> QED
  BY <1>2, <1>4
=============================================================================
