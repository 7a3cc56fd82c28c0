------------------------------ MODULE DataTheorems ------------------------------
(***************************************************************************)
(* What the proofs need of the data the models are built from: sums over   *)
(* finite sets, as the models take them of bytes and of counters, and      *)
(* sequences without repetition, as queues and walks are.  Nothing here is *)
(* about one component.                                                    *)
(*                                                                         *)
(* The induction theorems of the library take a property as an operator.   *)
(* Here it is a set of numbers, and the smallest number outside of it is   *)
(* the one that refutes it.                                                *)
(***************************************************************************)
EXTENDS Integers, Sequences, FiniteSets, SequencesExt, Functions, FiniteSetTheorems,
  WellFoundedInduction, TLAPS

\* Induction over the natural numbers, for a property given as a set.
LEMMA SetInduction ==
  ASSUME NEW S, 0 \in S, \A n \in Nat : n \in S => n + 1 \in S
  PROVE  \A n \in Nat : n \in S
<1> DEFINE Less == {d \in Nat \X Nat : d[1] < d[2]}
           Rest == Nat \ S
<1>1. IsWellFoundedOn(Less, Nat)
  BY NatLessThanWellFounded DEF OpToRel
<1> HIDE DEF Less
<1>2. ASSUME Rest # {} PROVE FALSE
  <2>1. PICK m \in Rest : \A k \in Rest : <<k, m>> \notin Less
    BY <1>1, <1>2, WFMin, Rest \subseteq Nat
  <2>2. m \in Nat /\ m # 0
    BY <2>1
  <2>3. m - 1 \in Nat /\ <<m - 1, m>> \in Less
    BY <2>2 DEF Less
  <2>4. m - 1 \in S
    BY <2>1, <2>3
  <2> QED
    BY <2>1, <2>2, <2>3, <2>4
<1> QED
  BY <1>2

\* A sum over a set is a recursion over its subsets, an element at a time.
Pick(s) == CHOOSE x \in s : TRUE
Sums(w, U, g) ==
  g = [s \in SUBSET U |-> IF s = {} THEN 0 ELSE w[Pick(s)] + g[s \ {Pick(s)}]]

\* The community modules' sum is a solution of that recursion, if it has one.
LEMMA SumIsChosen ==
  ASSUME NEW w, NEW U
  PROVE  SumFunctionOnSet(w, U) = (CHOOSE g : Sums(w, U, g))[U]
BY DEF SumFunctionOnSet, FoldFunctionOnSet, MapThenFoldSet, Sums, Pick

\* The recursion takes one element of a set at a time.
LEMMA PickTakes ==
  ASSUME NEW U, IsFiniteSet(U), NEW s \in SUBSET U
  PROVE  /\ IsFiniteSet(s) /\ Cardinality(s) \in Nat /\ Cardinality(s) <= Cardinality(U)
         /\ Cardinality(s) = 0 <=> s = {}
         /\ s # {} => /\ Pick(s) \in s /\ s \ {Pick(s)} \in SUBSET U
                      /\ Cardinality(s \ {Pick(s)}) = Cardinality(s) - 1
<1>1. IsFiniteSet(s) /\ Cardinality(s) \in Nat /\ Cardinality(s) <= Cardinality(U)
  BY FS_Subset, FS_CardinalityType
<1>2. Cardinality(s) = 0 <=> s = {}
  BY <1>1, FS_EmptySet
<1>3. s # {} => Pick(s) \in s
  BY DEF Pick
<1>4. s # {} => Cardinality(s \ {Pick(s)}) = Cardinality(s) - 1
  BY <1>1, <1>3, FS_RemoveElement
<1> QED
  BY <1>1, <1>2, <1>3, <1>4

\* The recursion, for the sets of at most n elements.
SetsUpto(U, n) == {s \in SUBSET U : Cardinality(s) <= n}
SumsUpto(w, U, n, g) ==
  /\ g \in [SetsUpto(U, n) -> Int]
  /\ \A s \in SetsUpto(U, n) : g[s] = IF s = {} THEN 0 ELSE w[Pick(s)] + g[s \ {Pick(s)}]

\* The recursion of a sum has a solution, and integer values.
LEMMA SumsExist ==
  ASSUME NEW U, IsFiniteSet(U), NEW w, \A x \in U : w[x] \in Int
  PROVE  \E g \in [SUBSET U -> Int] : Sums(w, U, g)
<1> DEFINE Solvable == {n \in Nat : \E g : SumsUpto(w, U, n, g)}
<1>1. 0 \in Solvable
  <2> DEFINE g == [s \in SetsUpto(U, 0) |-> 0]
  <2>1. ASSUME NEW s \in SetsUpto(U, 0) PROVE s = {}
    <3>1. s \in SUBSET U /\ Cardinality(s) <= 0
      BY DEF SetsUpto
    <3>2. Cardinality(s) \in Nat /\ (Cardinality(s) = 0 <=> s = {})
      BY <3>1, PickTakes
    <3> QED
      BY <3>1, <3>2
  <2>2. SumsUpto(w, U, 0, g)
    BY <2>1 DEF SumsUpto
  <2> HIDE DEF g
  <2> QED
    BY <2>2
<1>2. ASSUME NEW n \in Nat, n \in Solvable PROVE n + 1 \in Solvable
  <2>1. PICK g : SumsUpto(w, U, n, g)
    BY <1>2
  <2> DEFINE h == [s \in SetsUpto(U, n + 1) |-> IF s = {} THEN 0 ELSE w[Pick(s)] + g[s \ {Pick(s)}]]
  <2>2. ASSUME NEW s \in SetsUpto(U, n + 1), s # {}
        PROVE  s \ {Pick(s)} \in SetsUpto(U, n) /\ w[Pick(s)] \in Int
    BY <2>2, PickTakes DEF SetsUpto
  <2>3. h \in [SetsUpto(U, n + 1) -> Int]
    BY <2>1, <2>2 DEF SumsUpto
  <2>4. ASSUME NEW s \in SetsUpto(U, n) PROVE h[s] = g[s]
    <3>1. s \in SUBSET U /\ Cardinality(s) <= n
      BY DEF SetsUpto
    <3>2. Cardinality(s) \in Nat
      BY <3>1, PickTakes
    <3>3. s \in SetsUpto(U, n + 1)
      BY <3>1, <3>2 DEF SetsUpto
    <3> QED
      BY <2>1, <3>3 DEF SumsUpto
  <2>5. ASSUME NEW s \in SetsUpto(U, n + 1)
        PROVE  h[s] = IF s = {} THEN 0 ELSE w[Pick(s)] + h[s \ {Pick(s)}]
    BY <2>2, <2>4
  <2> HIDE DEF h
  <2>6. SumsUpto(w, U, n + 1, h)
    BY <2>3, <2>5 DEF SumsUpto
  <2> QED
    BY <2>6
<1>3. \A n \in Nat : n \in Solvable
  <2> HIDE DEF Solvable
  <2> QED
    BY <1>1, <1>2, SetInduction
<1>4. Cardinality(U) \in Nat
  BY FS_CardinalityType
<1>5. SetsUpto(U, Cardinality(U)) = SUBSET U
  BY PickTakes DEF SetsUpto
<1>6. PICK g : SumsUpto(w, U, Cardinality(U), g)
  BY <1>3, <1>4
<1>7. g \in [SUBSET U -> Int] /\ Sums(w, U, g)
  BY <1>5, <1>6 DEF SumsUpto, Sums
<1> QED
  BY <1>7

\* Recursions over two sets, of numbers that agree, agree on what both have.
LEMMA SumsAgree ==
  ASSUME NEW U, IsFiniteSet(U), NEW V, IsFiniteSet(V), NEW w, NEW v, NEW g, NEW h,
         Sums(w, U, g), Sums(v, V, h), \A x \in U \cap V : w[x] = v[x]
  PROVE  \A s \in SUBSET (U \cap V) : g[s] = h[s]
<1> DEFINE Agree == {n \in Nat : \A s \in SUBSET (U \cap V) : Cardinality(s) = n => g[s] = h[s]}
<1>0. /\ \A s \in SUBSET U : g[s] = IF s = {} THEN 0 ELSE w[Pick(s)] + g[s \ {Pick(s)}]
      /\ \A s \in SUBSET V : h[s] = IF s = {} THEN 0 ELSE v[Pick(s)] + h[s \ {Pick(s)}]
  BY DEF Sums
<1>1. ASSUME NEW s \in SUBSET (U \cap V)
      PROVE  /\ Cardinality(s) \in Nat
             /\ Cardinality(s) = 0 <=> s = {}
             /\ s # {} => /\ Pick(s) \in s /\ s \ {Pick(s)} \in SUBSET (U \cap V)
                          /\ Cardinality(s \ {Pick(s)}) = Cardinality(s) - 1
  BY PickTakes
<1>2. 0 \in Agree
  BY <1>0, <1>1
<1>3. ASSUME NEW n \in Nat, n \in Agree PROVE n + 1 \in Agree
  <2> SUFFICES ASSUME NEW s \in SUBSET (U \cap V), Cardinality(s) = n + 1 PROVE g[s] = h[s]
    OBVIOUS
  <2>1. s # {} /\ Pick(s) \in s /\ s \ {Pick(s)} \in SUBSET (U \cap V)
        /\ Cardinality(s \ {Pick(s)}) = n
    BY <1>1
  <2>2. g[s \ {Pick(s)}] = h[s \ {Pick(s)}]
    BY <1>3, <2>1
  <2>3. w[Pick(s)] = v[Pick(s)]
    BY <2>1
  <2> QED
    BY <1>0, <2>1, <2>2, <2>3
<1> HIDE DEF Agree
<1>4. \A n \in Nat : n \in Agree
  BY <1>2, <1>3, SetInduction
<1> QED
  BY <1>1, <1>4 DEF Agree

\* The sum over a part of U is what a recursion over U has there.
LEMMA SumIs ==
  ASSUME NEW U, IsFiniteSet(U), NEW w, \A x \in U : w[x] \in Int,
         NEW g, Sums(w, U, g), NEW T \in SUBSET U
  PROVE  SumFunctionOnSet(w, T) = g[T]
<1>1. IsFiniteSet(T) /\ \A x \in T : w[x] \in Int
  BY FS_Subset
<1>2. \E h : Sums(w, T, h)
  BY <1>1, SumsExist
<1> DEFINE h == CHOOSE k : Sums(w, T, k)
<1>3. Sums(w, T, h)
  BY <1>2
<1>4. SumFunctionOnSet(w, T) = h[T]
  BY SumIsChosen
<1> HIDE DEF h
<1>5. \A s \in SUBSET (U \cap T) : g[s] = h[s]
  BY <1>1, <1>3, SumsAgree
<1> QED
  BY <1>4, <1>5


-----------------------------------------------------------------------------
(* What the proofs use: sums over finite sets.                             *)

\* Nothing adds up to nothing.
LEMMA SumEmpty == \A w : SumFunctionOnSet(w, {}) = 0
<1> SUFFICES ASSUME NEW w PROVE SumFunctionOnSet(w, {}) = 0
  OBVIOUS
<1>1. IsFiniteSet({})
  BY FS_EmptySet
<1>2. PICK g \in [SUBSET {} -> Int] : Sums(w, {}, g)
  BY <1>1, SumsExist
<1>3. g[{}] = 0
  BY <1>2 DEF Sums
<1> QED
  BY <1>1, <1>2, <1>3, SumIs

\* A sum of integers is an integer.
LEMMA SumInt ==
  ASSUME NEW S, IsFiniteSet(S), NEW w, \A x \in S : w[x] \in Int
  PROVE  SumFunctionOnSet(w, S) \in Int
<1>1. PICK g \in [SUBSET S -> Int] : Sums(w, S, g)
  BY SumsExist
<1>2. SumFunctionOnSet(w, S) = g[S]
  BY <1>1, SumIs
<1> QED
  BY <1>2

\* Sums depend on the numbers summed only.
LEMMA SumSame ==
  ASSUME NEW S, IsFiniteSet(S), NEW w, NEW v, \A x \in S : w[x] \in Int /\ w[x] = v[x]
  PROVE  SumFunctionOnSet(w, S) = SumFunctionOnSet(v, S)
<1>1. PICK g \in [SUBSET S -> Int] : Sums(w, S, g)
  BY SumsExist
<1>2. PICK h \in [SUBSET S -> Int] : Sums(v, S, h)
  BY SumsExist
<1>3. g[S] = h[S]
  BY <1>1, <1>2, SumsAgree, S \in SUBSET (S \cap S)
<1> QED
  BY <1>1, <1>2, <1>3, SumIs

\* Any element may be taken first.
LEMMA SumTakes ==
  ASSUME NEW S, IsFiniteSet(S), NEW w, \A x \in S : w[x] \in Int, NEW x \in S
  PROVE  SumFunctionOnSet(w, S) = w[x] + SumFunctionOnSet(w, S \ {x})
<1>1. PICK g \in [SUBSET S -> Int] : Sums(w, S, g)
  BY SumsExist
<1>2. \A s \in SUBSET S : g[s] \in Int /\ g[s] = IF s = {} THEN 0 ELSE w[Pick(s)] + g[s \ {Pick(s)}]
  BY <1>1 DEF Sums
<1> DEFINE Fits == {n \in Nat : \A s \in SUBSET S : Cardinality(s) = n =>
                                  \A y \in s : g[s] = w[y] + g[s \ {y}]}
<1>3. 0 \in Fits
  BY PickTakes
<1>4. ASSUME NEW n \in Nat, n \in Fits PROVE n + 1 \in Fits
  <2> SUFFICES ASSUME NEW s \in SUBSET S, Cardinality(s) = n + 1, NEW y \in s
               PROVE  g[s] = w[y] + g[s \ {y}]
    OBVIOUS
  <2> DEFINE c == Pick(s)
  <2>1. c \in s /\ s \ {c} \in SUBSET S /\ Cardinality(s \ {c}) = n
    BY PickTakes
  <2>2. g[s] = w[c] + g[s \ {c}]
    BY <1>2
  <2> HIDE DEF c
  <2>3. CASE y = c
    BY <2>2, <2>3
  <2>4. CASE y # c
    <3>1. g[s \ {c}] = w[y] + g[(s \ {c}) \ {y}]
      BY <1>4, <2>1, <2>4
    <3>2. s \ {y} \in SUBSET S /\ Cardinality(s \ {y}) = n
      <4>1. IsFiniteSet(s)
        BY PickTakes
      <4>2. Cardinality(s \ {y}) = (n + 1) - 1
        BY <4>1, FS_RemoveElement
      <4> QED
        BY <4>2
    <3>3. g[s \ {y}] = w[c] + g[(s \ {y}) \ {c}]
      BY <1>4, <2>1, <2>4, <3>2
    <3>4. (s \ {y}) \ {c} = (s \ {c}) \ {y}
      OBVIOUS
    <3>5. w[c] \in Int /\ w[y] \in Int /\ g[(s \ {c}) \ {y}] \in Int
      BY <1>2, <2>1
    <3>6. g[s] = w[c] + (w[y] + g[(s \ {c}) \ {y}])
      BY <2>2, <3>1
    <3>7. w[y] + g[s \ {y}] = w[y] + (w[c] + g[(s \ {c}) \ {y}])
      BY <3>3, <3>4
    <3> QED
      BY <3>5, <3>6, <3>7
  <2> QED
    BY <2>3, <2>4
<1>5. \A n \in Nat : n \in Fits
  <2> HIDE DEF Fits
  <2> QED
    BY <1>3, <1>4, SetInduction
<1>6. g[S] = w[x] + g[S \ {x}]
  BY <1>5, FS_CardinalityType
<1> QED
  BY <1>1, <1>6, SumIs


\* Adding an element to a set adds its number.
LEMMA SumAdds ==
  ASSUME NEW S, IsFiniteSet(S), NEW x, x \notin S, NEW w,
         \A y \in S \cup {x} : w[y] \in Int
  PROVE  SumFunctionOnSet(w, S \cup {x}) = SumFunctionOnSet(w, S) + w[x]
<1>1. IsFiniteSet(S \cup {x})
  BY FS_AddElement
<1>2. (S \cup {x}) \ {x} = S
  OBVIOUS
<1>3. SumFunctionOnSet(w, S \cup {x}) = w[x] + SumFunctionOnSet(w, S)
  BY <1>1, <1>2, SumTakes
<1>4. SumFunctionOnSet(w, S) \in Int /\ w[x] \in Int
  BY SumInt
<1> QED
  BY <1>3, <1>4

\* Nothing but zeros adds up to nothing.
LEMMA SumZero ==
  ASSUME NEW U, IsFiniteSet(U), NEW w, \A x \in U : w[x] = 0
  PROVE  SumFunctionOnSet(w, U) = 0
<1>0. \A x \in U : w[x] \in Int
  OBVIOUS
<1>1. PICK g \in [SUBSET U -> Int] : Sums(w, U, g)
  BY <1>0, SumsExist
<1> DEFINE Zero == {n \in Nat : \A s \in SUBSET U : Cardinality(s) = n => g[s] = 0}
<1>2. \A s \in SUBSET U : g[s] = IF s = {} THEN 0 ELSE w[Pick(s)] + g[s \ {Pick(s)}]
  BY <1>1 DEF Sums
<1>3. 0 \in Zero
  BY <1>2, PickTakes
<1>4. ASSUME NEW n \in Nat, n \in Zero PROVE n + 1 \in Zero
  <2> SUFFICES ASSUME NEW s \in SUBSET U, Cardinality(s) = n + 1 PROVE g[s] = 0
    OBVIOUS
  <2>1. s # {} /\ Pick(s) \in s /\ s \ {Pick(s)} \in SUBSET U /\ Cardinality(s \ {Pick(s)}) = n
    BY PickTakes
  <2>2. g[s \ {Pick(s)}] = 0 /\ w[Pick(s)] = 0
    BY <1>4, <2>1
  <2> QED
    BY <1>2, <2>1, <2>2
<1> HIDE DEF Zero
<1>5. \A n \in Nat : n \in Zero
  BY <1>3, <1>4, SetInduction
<1>6. g[U] = 0
  BY <1>5, FS_CardinalityType DEF Zero
<1> QED
  BY <1>0, <1>1, <1>6, SumIs

\* Changing one number changes the sum by the difference.
LEMMA SumChanges ==
  ASSUME NEW S, IsFiniteSet(S), NEW x \in S, NEW w, NEW v,
         \A y \in S : w[y] \in Int /\ v[y] \in Int,
         \A y \in S \ {x} : v[y] = w[y]
  PROVE  SumFunctionOnSet(v, S) = SumFunctionOnSet(w, S) + (v[x] - w[x])
<1>1. IsFiniteSet(S \ {x})
  BY FS_RemoveElement
<1>2. SumFunctionOnSet(v, S) = v[x] + SumFunctionOnSet(v, S \ {x})
  BY SumTakes
<1>3. SumFunctionOnSet(w, S) = w[x] + SumFunctionOnSet(w, S \ {x})
  BY SumTakes
<1>4. SumFunctionOnSet(w, S \ {x}) = SumFunctionOnSet(v, S \ {x})
  BY <1>1, SumSame
<1>5. SumFunctionOnSet(w, S \ {x}) \in Int /\ w[x] \in Int /\ v[x] \in Int
  BY <1>1, SumInt
<1> QED
  BY <1>2, <1>3, <1>4, <1>5

\* A property of finite sets that one more element keeps holds of all.
LEMMA FiniteInduction ==
  ASSUME NEW U, IsFiniteSet(U), NEW G, {} \in G,
         \A T \in SUBSET U : \A x \in U \ T : T \in G => T \cup {x} \in G
  PROVE  U \in G
<1> DEFINE Sizes == {n \in Nat : \A T \in SUBSET U : Cardinality(T) = n => T \in G}
<1>1. 0 \in Sizes
  BY PickTakes
<1>2. ASSUME NEW n \in Nat, n \in Sizes PROVE n + 1 \in Sizes
  <2> SUFFICES ASSUME NEW T \in SUBSET U, Cardinality(T) = n + 1 PROVE T \in G
    OBVIOUS
  <2>1. Pick(T) \in T /\ T \ {Pick(T)} \in SUBSET U /\ Cardinality(T \ {Pick(T)}) = n
    BY PickTakes
  <2>2. T \ {Pick(T)} \in G
    BY <1>2, <2>1
  <2>3. (T \ {Pick(T)}) \cup {Pick(T)} = T /\ Pick(T) \in U \ (T \ {Pick(T)})
    BY <2>1
  <2> QED
    BY <2>1, <2>2, <2>3
<1>3. \A n \in Nat : n \in Sizes
  <2> HIDE DEF Sizes
  <2> QED
    BY <1>1, <1>2, SetInduction
<1> QED
  BY <1>3, FS_CardinalityType

\* A sum of numbers that are not negative is not, and no part exceeds it.
LEMMA SumNat ==
  ASSUME NEW U, IsFiniteSet(U), NEW w, \A x \in U : w[x] \in Nat
  PROVE  SumFunctionOnSet(w, U) \in Nat
<1> DEFINE G == {T \in SUBSET U : SumFunctionOnSet(w, T) \in Nat}
<1>1. {} \in G
  BY SumEmpty
<1>2. ASSUME NEW T \in SUBSET U, NEW x \in U \ T, T \in G PROVE T \cup {x} \in G
  <2>1. IsFiniteSet(T) /\ \A y \in T \cup {x} : w[y] \in Int
    BY FS_Subset
  <2>2. SumFunctionOnSet(w, T \cup {x}) = SumFunctionOnSet(w, T) + w[x]
    BY <2>1, SumAdds
  <2> QED
    BY <1>2, <2>2
<1> HIDE DEF G
<1>3. U \in G
  BY <1>1, <1>2, FiniteInduction
<1> QED
  BY <1>3 DEF G

\* Two sets without a common element add up.
LEMMA SumUnion ==
  ASSUME NEW S, IsFiniteSet(S), NEW T, IsFiniteSet(T), S \cap T = {}, NEW w,
         \A x \in S \cup T : w[x] \in Int
  PROVE  SumFunctionOnSet(w, S \cup T) = SumFunctionOnSet(w, S) + SumFunctionOnSet(w, T)
<1> DEFINE G == {R \in SUBSET T :
                   SumFunctionOnSet(w, S \cup R) = SumFunctionOnSet(w, S) + SumFunctionOnSet(w, R)}
<1>1. {} \in G
  <2>1. S \cup {} = S
    OBVIOUS
  <2> QED
    BY <2>1, SumEmpty, SumInt
<1>2. ASSUME NEW R \in SUBSET T, NEW x \in T \ R, R \in G PROVE R \cup {x} \in G
  <2>1. IsFiniteSet(R) /\ IsFiniteSet(S \cup R)
    BY FS_Subset, FS_Union
  <2>2. SumFunctionOnSet(w, R \cup {x}) = SumFunctionOnSet(w, R) + w[x]
    BY <2>1, SumAdds
  <2>3. (S \cup R) \cup {x} = S \cup (R \cup {x})
    OBVIOUS
  <2> DEFINE all == S \cup (R \cup {x})
  <2>4. SumFunctionOnSet(w, all) = SumFunctionOnSet(w, S \cup R) + w[x]
    BY <2>1, <2>3, SumAdds
  <2>5. SumFunctionOnSet(w, R) \in Int /\ SumFunctionOnSet(w, S) \in Int /\ w[x] \in Int
    BY <2>1, SumInt
  <2>6. SumFunctionOnSet(w, S \cup R) = SumFunctionOnSet(w, S) + SumFunctionOnSet(w, R)
    BY <1>2
  <2> HIDE DEF all
  <2>7. SumFunctionOnSet(w, all) = SumFunctionOnSet(w, S) + SumFunctionOnSet(w, R \cup {x})
    BY <2>2, <2>4, <2>5, <2>6
  <2> QED
    BY <2>7 DEF all
<1> HIDE DEF G
<1>3. T \in G
  BY <1>1, <1>2, FiniteInduction
<1> QED
  BY <1>3 DEF G

-----------------------------------------------------------------------------
(* Numbers and sequences.                                                  *)

\* Some numbers up to a bound have a largest.
LEMMA Largest ==
  ASSUME NEW b \in Nat, NEW S \in SUBSET (0..b), S # {}
  PROVE  \E n \in S : \A k \in S : k <= n
<1> DEFINE G == {c \in Nat : \A T \in SUBSET (0..c) : T # {} => \E n \in T : \A k \in T : k <= n}
<1>1. 0 \in G
  <2> SUFFICES ASSUME NEW T \in SUBSET (0..0), T # {} PROVE \E n \in T : \A k \in T : k <= n
    OBVIOUS
  <2> QED
    <3>1. \A k \in 0..0 : k = 0
      OBVIOUS
    <3>2. \A k \in T : k = 0
      BY <3>1
    <3>3. PICK n \in T : TRUE
      OBVIOUS
    <3>4. n = 0 /\ 0 <= 0
      BY <3>2
    <3> QED
      BY <3>2, <3>3, <3>4
<1>2. ASSUME NEW c \in Nat, c \in G PROVE c + 1 \in G
  <2> SUFFICES ASSUME NEW T \in SUBSET (0..(c + 1)), T # {} PROVE \E n \in T : \A k \in T : k <= n
    OBVIOUS
  <2>1. CASE c + 1 \in T
    BY <2>1
  <2>2. CASE c + 1 \notin T
    <3>1. T \in SUBSET (0..c)
      BY <2>2
    <3> QED
      BY <1>2, <3>1
  <2> QED
    BY <2>1, <2>2
<1>3. \A c \in Nat : c \in G
  <2> HIDE DEF G
  <2> QED
    BY <1>1, <1>2, SetInduction
<1> QED
  BY <1>3

\* What remains of a sequence without repetition when its head is taken off.
LEMMA TailOf ==
  ASSUME NEW S, NEW s \in Seq(S), s # <<>>
  PROVE  /\ Tail(s) \in Seq(S) /\ Len(Tail(s)) = Len(s) - 1 /\ Len(Tail(s)) \in Nat
         /\ Head(s) \in S /\ Head(s) \in ToSet(s)
         /\ IsInjective(s) => IsInjective(Tail(s)) /\ ToSet(Tail(s)) = ToSet(s) \ {Head(s)}
<1>1. /\ Len(s) \in Nat \ {0} /\ s \in [1..Len(s) -> S] /\ Head(s) = s[1]
      /\ Tail(s) \in Seq(S) /\ Len(Tail(s)) = Len(s) - 1
      /\ \A i \in 1..(Len(s) - 1) : Tail(s)[i] = s[i + 1]
  OBVIOUS
<1>2. 1 \in DOMAIN s /\ DOMAIN s = 1..Len(s) /\ DOMAIN Tail(s) = 1..(Len(s) - 1)
  BY <1>1
<1>3. Head(s) \in ToSet(s)
  BY <1>1, <1>2 DEF ToSet
<1>4. ASSUME IsInjective(s) PROVE IsInjective(Tail(s)) /\ ToSet(Tail(s)) = ToSet(s) \ {Head(s)}
  <2>1. \A i, j \in DOMAIN s : s[i] = s[j] => i = j
    BY <1>4 DEF IsInjective
  <2>2. ASSUME NEW i \in DOMAIN Tail(s), NEW j \in DOMAIN Tail(s), Tail(s)[i] = Tail(s)[j]
        PROVE  i = j
    <3>1. i + 1 \in DOMAIN s /\ j + 1 \in DOMAIN s /\ s[i + 1] = s[j + 1] /\ i \in Int /\ j \in Int
      BY <1>1, <1>2, <2>2
    <3>2. i + 1 = j + 1
      BY <2>1, <3>1
    <3> QED
      BY <3>1, <3>2
  <2>3. ASSUME NEW i \in DOMAIN Tail(s) PROVE Tail(s)[i] \in ToSet(s) \ {Head(s)}
    <3>1. i + 1 \in DOMAIN s /\ Tail(s)[i] = s[i + 1] /\ i + 1 # 1
      BY <1>1, <1>2
    <3>2. s[i + 1] # s[1]
      BY <1>2, <2>1, <3>1
    <3> QED
      BY <1>1, <3>1, <3>2 DEF ToSet
  <2>4. ASSUME NEW i \in DOMAIN s, s[i] # Head(s) PROVE s[i] \in ToSet(Tail(s))
    <3>1. i - 1 \in DOMAIN Tail(s) /\ Tail(s)[i - 1] = s[i]
      BY <1>1, <1>2, <2>4
    <3> QED
      BY <3>1 DEF ToSet
  <2>5. ToSet(Tail(s)) \subseteq ToSet(s) \ {Head(s)}
    BY <2>3 DEF ToSet
  <2>6. ToSet(s) \ {Head(s)} \subseteq ToSet(Tail(s))
    BY <2>4 DEF ToSet
  <2> QED
    BY <2>2, <2>5, <2>6 DEF IsInjective
<1> QED
  BY <1>1, <1>3, <1>4

\* One more element at the end of a sequence.
LEMMA AppendOf ==
  ASSUME NEW S, NEW s \in Seq(S), NEW x \in S
  PROVE  /\ Append(s, x) \in Seq(S) /\ Len(Append(s, x)) = Len(s) + 1 /\ Append(s, x) # <<>>
         /\ ToSet(Append(s, x)) = ToSet(s) \cup {x}
         /\ IsInjective(s) /\ x \notin ToSet(s) => IsInjective(Append(s, x))
<1>1. /\ Len(s) \in Nat /\ s \in [1..Len(s) -> S] /\ DOMAIN s = 1..Len(s)
      /\ Append(s, x) \in Seq(S) /\ Len(Append(s, x)) = Len(s) + 1
      /\ DOMAIN Append(s, x) = 1..(Len(s) + 1)
      /\ Append(s, x)[Len(s) + 1] = x /\ \A i \in 1..Len(s) : Append(s, x)[i] = s[i]
  OBVIOUS
<1> DEFINE t == Append(s, x)
<1> HIDE DEF t
<1>2. /\ DOMAIN t = 1..(Len(s) + 1) /\ t[Len(s) + 1] = x /\ \A i \in 1..Len(s) : t[i] = s[i]
  BY <1>1 DEF t
<1>3. ToSet(t) = ToSet(s) \cup {x}
  BY <1>1, <1>2 DEF ToSet
<1>4. ASSUME IsInjective(s), x \notin ToSet(s) PROVE IsInjective(t)
  <2>1. \A i, j \in 1..Len(s) : s[i] = s[j] => i = j
    BY <1>1, <1>4 DEF IsInjective
  <2>2. \A i \in 1..Len(s) : s[i] # x
    BY <1>1, <1>4 DEF ToSet
  <2> QED
    BY <1>1, <1>2, <2>1, <2>2 DEF IsInjective
<1>5. Append(s, x) # <<>>
  BY <1>1
<1> QED
  BY <1>1, <1>3, <1>4, <1>5 DEF t

\* The empty sequence has no elements, ...
LEMMA EmptyOf == ToSet(<<>>) = {} /\ IsInjective(<<>>)
BY DEF ToSet, IsInjective

\* ... any other has its own, ...
LEMMA ElementsOf ==
  ASSUME NEW S, NEW s \in Seq(S)
  PROVE  /\ ToSet(s) \subseteq S /\ (s = <<>> <=> Len(s) = 0)
         /\ \A i \in DOMAIN s : s[i] \in S
BY DEF ToSet

\* ... and a function of the first numbers is a sequence.
LEMMA SequenceOf ==
  ASSUME NEW S, NEW n \in Nat, NEW s \in [1..n -> S]
  PROVE  s \in Seq(S) /\ Len(s) = n
OBVIOUS

\* Two sequences one after the other.
LEMMA JoinOf ==
  ASSUME NEW S, NEW s \in Seq(S), NEW T, NEW t \in Seq(T)
  PROVE  /\ DOMAIN (s \o t) = 1..(Len(s) + Len(t)) /\ Len(s) \in Nat /\ Len(t) \in Nat
         /\ \A i \in DOMAIN (s \o t) :
              \/ i \in DOMAIN s /\ (s \o t)[i] = s[i]
              \/ i - Len(s) \in DOMAIN t /\ (s \o t)[i] = t[i - Len(s)]
<1>1. s \in Seq(S \cup T) /\ t \in Seq(S \cup T)
  OBVIOUS
<1> QED
  BY <1>1

\* The first elements of a sequence.
LEMMA FirstOf ==
  ASSUME NEW S, NEW s \in Seq(S), NEW n \in 0..Len(s)
  PROVE  /\ SubSeq(s, 1, n) \in Seq(S)
         /\ \A i \in DOMAIN SubSeq(s, 1, n) : i \in DOMAIN s /\ SubSeq(s, 1, n)[i] = s[i]
<1>1. Len(s) \in Nat /\ DOMAIN s = 1..Len(s) /\ n \in Nat /\ n <= Len(s)
  OBVIOUS
<1>2. \A i \in 1..n : i \in DOMAIN s
  BY <1>1
<1>3. SubSeq(s, 1, n) = [i \in 1..n |-> s[i]]
  BY <1>1
<1>4. \A i \in 1..n : s[i] \in S
  BY <1>2, ElementsOf
<1>5. [i \in 1..n |-> s[i]] \in Seq(S)
  BY <1>1, <1>4, SequenceOf
<1> QED
  BY <1>2, <1>3, <1>5

===============================================================================
