-------------------------------- MODULE Sums --------------------------------
(***************************************************************************)
(* Lemmas about SumFunctionOnSet, with which the trees' modules sum up     *)
(* costs: it is defined by a recursion that takes the elements of a set in *)
(* an order of its own, and is shown not to depend on it.                  *)
(***************************************************************************)
EXTENDS Integers, FiniteSets, Functions, FiniteSetTheorems,
        WellFoundedInduction, TLAPS

-----------------------------------------------------------------------------
(* Induction over the subsets of a finite set                              *)

\* A proper subset is below its superset in the order of the induction.
LEMMA Smaller ==
  ASSUME NEW T, NEW A \in SUBSET T, NEW B \in SUBSET T, A \subseteq B, A # B
  PROVE  <<A, B>> \in StrictSubsetOrdering(T)
  BY Zenon DEF StrictSubsetOrdering

\* A set G that has the empty set, and every subset of S that it has without
\* any one of its elements, has S.
LEMMA SubsetInduction ==
  ASSUME NEW S, IsFiniteSet(S), NEW G, {} \in G,
         \A T \in SUBSET S : T # {} /\ (\A x \in T : T \ {x} \in G) => T \in G
  PROVE  S \in G
  <1> DEFINE Bad == {T \in SUBSET S : T \notin G}
  <1> SUFFICES ASSUME S \notin G PROVE FALSE
    OBVIOUS
  <1>1. Bad # {} /\ Bad \subseteq FiniteSubsetsOf(S)
    BY FS_Subset DEF FiniteSubsetsOf
  <1>2. PICK T \in Bad : \A U \in Bad : <<U, T>> \notin StrictSubsetOrdering(S)
    <2>1. IsWellFoundedOn(StrictSubsetOrdering(S), FiniteSubsetsOf(S))
      BY FS_StrictSubsetOrderingWellFounded
    <2> HIDE DEF Bad
    <2> QED
      BY <1>1, <2>1, WFMin
  <1>3. ASSUME NEW x \in T PROVE T \ {x} \in G
    <2>1. T \ {x} \in SUBSET S /\ T \ {x} \subseteq T /\ T \ {x} # T
      OBVIOUS
    <2>2. <<T \ {x}, T>> \in StrictSubsetOrdering(S)
      BY <2>1, Smaller
    <2> QED
      BY <1>2, <2>1, <2>2
  <1> QED
    BY <1>3

-----------------------------------------------------------------------------
(* The recursion                                                           *)

Pick(s) == CHOOSE x \in s : TRUE

\* h has the sums of f over the subsets of S, as the recursion finds them.
Sums(h, f, S) ==
  h = [s \in SUBSET S |-> IF s = {} THEN 0 ELSE f[Pick(s)] + h[s \ {Pick(s)}]]

\* There is such a function: it is built from the small subsets to the large.
LEMMA SumsExist ==
  ASSUME NEW f, NEW S, IsFiniteSet(S)
  PROVE  \E h : Sums(h, f, S)
  <1> DEFINE Upto(h, n) == \A s \in SUBSET S : Cardinality(s) <= n =>
               h[s] = IF s = {} THEN 0 ELSE f[Pick(s)] + h[s \ {Pick(s)}]
             G == {T \in SUBSET S : \E h : Upto(h, Cardinality(T))}
  <1>1. {} \in G
    <2>1. Cardinality({}) = 0
      BY FS_EmptySet
    <2>2. \A s \in SUBSET S : Cardinality(s) <= 0 => s = {}
      BY FS_Subset, FS_EmptySet, FS_CardinalityType
    <2>3. Upto([s \in SUBSET S |-> 0], 0)
      BY <2>2
    <2> QED
      BY <2>1, <2>3
  <1>2. ASSUME NEW T \in SUBSET S, T # {}, \A x \in T : T \ {x} \in G
        PROVE  T \in G
    <2>1. PICK x \in T : T \ {x} \in G
      BY <1>2
    <2>2. PICK g : Upto(g, Cardinality(T \ {x}))
      BY <2>1
    <2> DEFINE n == Cardinality(T \ {x})
               h == [s \in SUBSET S |->
                       IF Cardinality(s) <= n THEN g[s]
                       ELSE f[Pick(s)] + g[s \ {Pick(s)}]]
    <2>3. Cardinality(T) = n + 1 /\ n \in Nat
      BY FS_Subset, FS_RemoveElement, FS_CardinalityType
    <2>4. ASSUME NEW s \in SUBSET S, s # {}, Cardinality(s) <= n + 1
          PROVE  h[s] = f[Pick(s)] + h[s \ {Pick(s)}]
      <3>1. Pick(s) \in s
        BY <2>4 DEF Pick
      <3>2. IsFiniteSet(s) /\ Cardinality(s) \in Nat
        BY FS_Subset, FS_CardinalityType
      <3>3. Cardinality(s \ {Pick(s)}) = Cardinality(s) - 1
        BY <3>1, <3>2, FS_RemoveElement
      <3>4. h[s \ {Pick(s)}] = g[s \ {Pick(s)}]
        BY <2>3, <2>4, <3>2, <3>3
      <3> QED
        BY <2>2, <2>4, <3>4
    <2>5. h[{}] = 0
      <3>1. {} \in SUBSET S /\ Cardinality({}) <= n
        BY <2>3, FS_EmptySet
      <3>2. g[{}] = 0
        BY <2>2, <3>1
      <3> QED
        BY <3>1, <3>2
    <2>6. Upto(h, Cardinality(T))
      BY <2>3, <2>4, <2>5
    <2> QED
      BY <2>6
  <1>3. S \in G
    <2> HIDE DEF G
    <2> QED
      BY <1>1, <1>2, SubsetInduction
  <1>4. PICK g : Upto(g, Cardinality(S))
    BY <1>3
  <1> DEFINE h == [s \in SUBSET S |-> g[s]]
  <1>5. ASSUME NEW s \in SUBSET S
        PROVE  h[s] = IF s = {} THEN 0 ELSE f[Pick(s)] + h[s \ {Pick(s)}]
    <2>1. Cardinality(s) <= Cardinality(S)
      BY FS_Subset
    <2> QED
      BY <1>4, <2>1
  <1>6. Sums(h, f, S)
    BY <1>5 DEF Sums
  <1> QED
    BY <1>6

\* On the subsets they share, two such functions agree.
LEMMA SumsAgree ==
  ASSUME NEW f, NEW S, IsFiniteSet(S), NEW T \in SUBSET S,
         NEW h, Sums(h, f, S), NEW k, Sums(k, f, T)
  PROVE  h[T] = k[T]
  <1> DEFINE G == {s \in SUBSET T : h[s] = k[s]}
  <1>1. \A s \in SUBSET S :
          h[s] = IF s = {} THEN 0 ELSE f[Pick(s)] + h[s \ {Pick(s)}]
    BY DEF Sums
  <1>2. \A s \in SUBSET T :
          k[s] = IF s = {} THEN 0 ELSE f[Pick(s)] + k[s \ {Pick(s)}]
    BY DEF Sums
  <1>3. {} \in G
    BY <1>1, <1>2
  <1>4. ASSUME NEW s \in SUBSET T, s # {}, \A x \in s : s \ {x} \in G
        PROVE  s \in G
    <2>1. Pick(s) \in s
      BY <1>4 DEF Pick
    <2> QED
      BY <1>1, <1>2, <1>4, <2>1
  <1>5. IsFiniteSet(T)
    BY FS_Subset
  <1>6. T \in G
    <2> HIDE DEF G
    <2> QED
      BY <1>3, <1>4, <1>5, SubsetInduction
  <1> QED
    BY <1>6

\* SumFunctionOnSet is the value of such a function.
LEMMA SumIsOfSums ==
  ASSUME NEW f, NEW S, IsFiniteSet(S)
  PROVE  \E h : Sums(h, f, S) /\ SumFunctionOnSet(f, S) = h[S]
  <1> DEFINE h == CHOOSE h : Sums(h, f, S)
  <1>1. Sums(h, f, S)
    BY SumsExist
  <1>2. SumFunctionOnSet(f, S) = h[S]
    BY DEF SumFunctionOnSet, FoldFunctionOnSet, MapThenFoldSet, Sums, Pick
  <1> QED
    BY <1>1, <1>2

\* The sum over no element, and over one element more.
LEMMA SumRecursion ==
  ASSUME NEW f, NEW S, IsFiniteSet(S)
  PROVE  SumFunctionOnSet(f, S) =
           IF S = {} THEN 0
           ELSE f[Pick(S)] + SumFunctionOnSet(f, S \ {Pick(S)})
  <1>1. PICK h : Sums(h, f, S) /\ SumFunctionOnSet(f, S) = h[S]
    BY SumIsOfSums
  <1>2. h[S] = IF S = {} THEN 0 ELSE f[Pick(S)] + h[S \ {Pick(S)}]
    BY <1>1 DEF Sums
  <1>3. S \ {Pick(S)} \in SUBSET S /\ IsFiniteSet(S \ {Pick(S)})
    BY FS_Subset
  <1>4. PICK k : /\ Sums(k, f, S \ {Pick(S)})
                 /\ SumFunctionOnSet(f, S \ {Pick(S)}) = k[S \ {Pick(S)}]
    BY <1>3, SumIsOfSums
  <1>5. h[S \ {Pick(S)}] = k[S \ {Pick(S)}]
    BY <1>1, <1>3, <1>4, SumsAgree
  <1> QED
    BY <1>1, <1>2, <1>4, <1>5

\* The sum over nothing.
LEMMA SumEmpty ==
  ASSUME NEW f
  PROVE  SumFunctionOnSet(f, {}) = 0
  BY SumRecursion, FS_EmptySet

\* A sum over numbers is a number, and over naturals a natural.
LEMMA SumInt ==
  ASSUME NEW f, NEW S, IsFiniteSet(S), \A s \in S : f[s] \in Int
  PROVE  SumFunctionOnSet(f, S) \in Int
  <1> DEFINE G == {T \in SUBSET S : SumFunctionOnSet(f, T) \in Int}
  <1>1. {} \in G
    BY SumEmpty
  <1>2. ASSUME NEW T \in SUBSET S, T # {}, \A x \in T : T \ {x} \in G
        PROVE  T \in G
    <2>1. Pick(T) \in T
      BY <1>2 DEF Pick
    <2>2. SumFunctionOnSet(f, T) = f[Pick(T)] + SumFunctionOnSet(f, T \ {Pick(T)})
      BY <1>2, SumRecursion, FS_Subset
    <2>3. SumFunctionOnSet(f, T \ {Pick(T)}) \in Int /\ f[Pick(T)] \in Int
      BY <1>2, <2>1
    <2> QED
      BY <2>2, <2>3
  <1>3. S \in G
    <2> HIDE DEF G
    <2> QED
      BY <1>1, <1>2, SubsetInduction
  <1> QED
    BY <1>3

LEMMA SumNat ==
  ASSUME NEW f, NEW S, IsFiniteSet(S), \A s \in S : f[s] \in Nat
  PROVE  SumFunctionOnSet(f, S) \in Nat
  <1> DEFINE G == {T \in SUBSET S : SumFunctionOnSet(f, T) \in Nat}
  <1>1. {} \in G
    BY SumEmpty
  <1>2. ASSUME NEW T \in SUBSET S, T # {}, \A x \in T : T \ {x} \in G
        PROVE  T \in G
    <2>1. Pick(T) \in T
      BY <1>2 DEF Pick
    <2>2. SumFunctionOnSet(f, T) = f[Pick(T)] + SumFunctionOnSet(f, T \ {Pick(T)})
      BY <1>2, SumRecursion, FS_Subset
    <2>3. SumFunctionOnSet(f, T \ {Pick(T)}) \in Nat /\ f[Pick(T)] \in Nat
      BY <1>2, <2>1
    <2> QED
      BY <2>2, <2>3
  <1>3. S \in G
    <2> HIDE DEF G
    <2> QED
      BY <1>1, <1>2, SubsetInduction
  <1> QED
    BY <1>3

-----------------------------------------------------------------------------
(* The order does not matter                                               *)

\* Any element may be taken out first.
LEMMA SumRemove ==
  ASSUME NEW f, NEW S, IsFiniteSet(S), \A s \in S : f[s] \in Int, NEW e \in S
  PROVE  SumFunctionOnSet(f, S) = f[e] + SumFunctionOnSet(f, S \ {e})
  <1> DEFINE G == {T \in SUBSET S : \A x \in T :
               SumFunctionOnSet(f, T) = f[x] + SumFunctionOnSet(f, T \ {x})}
  <1>1. \A T \in SUBSET S : SumFunctionOnSet(f, T) \in Int
    BY SumInt, FS_Subset
  <1>2. {} \in G
    OBVIOUS
  <1>3. ASSUME NEW T \in SUBSET S, T # {}, \A x \in T : T \ {x} \in G
        PROVE  T \in G
    <2> DEFINE p == Pick(T)
    <2>1. p \in T
      BY <1>3 DEF Pick
    <2>2. SumFunctionOnSet(f, T) = f[p] + SumFunctionOnSet(f, T \ {p})
      BY <1>3, SumRecursion, FS_Subset
    <2> HIDE DEF p
    <2>3. ASSUME NEW x \in T, x # p
          PROVE  SumFunctionOnSet(f, T) = f[x] + SumFunctionOnSet(f, T \ {x})
      <3>1. x \in T \ {p} /\ p \in T \ {x}
        BY <2>1, <2>3
      <3>2. SumFunctionOnSet(f, T \ {p}) =
              f[x] + SumFunctionOnSet(f, (T \ {p}) \ {x})
        BY <1>3, <2>1, <3>1
      <3>3. SumFunctionOnSet(f, T \ {x}) =
              f[p] + SumFunctionOnSet(f, (T \ {x}) \ {p})
        BY <1>3, <2>3, <3>1
      <3>4. (T \ {p}) \ {x} = (T \ {x}) \ {p}
        OBVIOUS
      <3>5. (T \ {p}) \ {x} \in SUBSET S /\ f[p] \in Int /\ f[x] \in Int
        BY <2>1
      <3> DEFINE rest == SumFunctionOnSet(f, (T \ {p}) \ {x})
      <3>6. rest \in Int
        BY <1>1, <3>5
      <3> HIDE DEF rest
      <3>7. SumFunctionOnSet(f, T \ {p}) = f[x] + rest
        BY <3>2 DEF rest
      <3>8. SumFunctionOnSet(f, T \ {x}) = f[p] + rest
        BY <3>3, <3>4 DEF rest
      <3> QED
        BY <2>2, <3>5, <3>6, <3>7, <3>8
    <2> QED
      BY <2>2, <2>3
  <1>4. S \in G
    <2> HIDE DEF G
    <2> QED
      BY <1>2, <1>3, SubsetInduction
  <1> QED
    BY <1>4

\* A sum over one element more.
LEMMA SumAdd ==
  ASSUME NEW f, NEW S, IsFiniteSet(S), NEW e, e \notin S,
         \A s \in S \cup {e} : f[s] \in Int
  PROVE  SumFunctionOnSet(f, S \cup {e}) = f[e] + SumFunctionOnSet(f, S)
  <1>1. IsFiniteSet(S \cup {e}) /\ (S \cup {e}) \ {e} = S
    BY FS_AddElement
  <1> QED
    BY <1>1, SumRemove

\* Functions that agree on a set have the same sum over it.
LEMMA SumEqual ==
  ASSUME NEW f, NEW g, NEW S, IsFiniteSet(S), \A s \in S : f[s] = g[s]
  PROVE  SumFunctionOnSet(f, S) = SumFunctionOnSet(g, S)
  <1> DEFINE G == {T \in SUBSET S :
                     SumFunctionOnSet(f, T) = SumFunctionOnSet(g, T)}
  <1>1. \A T \in SUBSET S : T # {} => Pick(T) \in T
    BY DEF Pick
  <1>2. \A T \in SUBSET S :
          /\ SumFunctionOnSet(f, T) =
               IF T = {} THEN 0 ELSE f[Pick(T)] + SumFunctionOnSet(f, T \ {Pick(T)})
          /\ SumFunctionOnSet(g, T) =
               IF T = {} THEN 0 ELSE g[Pick(T)] + SumFunctionOnSet(g, T \ {Pick(T)})
    BY SumRecursion, FS_Subset
  <1>3. {} \in G
    BY <1>2
  <1>4. ASSUME NEW T \in SUBSET S, T # {}, \A x \in T : T \ {x} \in G
        PROVE  T \in G
    BY <1>1, <1>2, <1>4
  <1>5. S \in G
    <2> HIDE DEF G
    <2> QED
      BY <1>3, <1>4, SubsetInduction
  <1> QED
    BY <1>5

\* The sum of sums.
LEMMA SumPlus ==
  ASSUME NEW f, NEW g, NEW h, NEW S, IsFiniteSet(S),
         \A s \in S : f[s] \in Int /\ g[s] \in Int /\ h[s] = f[s] + g[s]
  PROVE  SumFunctionOnSet(h, S) = SumFunctionOnSet(f, S) + SumFunctionOnSet(g, S)
  <1> DEFINE G == {T \in SUBSET S : SumFunctionOnSet(h, T) =
                     SumFunctionOnSet(f, T) + SumFunctionOnSet(g, T)}
  <1>1. \A T \in SUBSET S : SumFunctionOnSet(f, T) \in Int
                           /\ SumFunctionOnSet(g, T) \in Int
    BY SumInt, FS_Subset
  <1>2. {} \in G
    BY SumEmpty
  <1>3. ASSUME NEW T \in SUBSET S, T # {}, \A x \in T : T \ {x} \in G
        PROVE  T \in G
    <2>1. PICK x \in T : T \ {x} \in G
      BY <1>3
    <2>2. IsFiniteSet(T) /\ T \ {x} \in SUBSET S
      BY FS_Subset
    <2>3. SumFunctionOnSet(f, T) = f[x] + SumFunctionOnSet(f, T \ {x})
      BY <2>2, SumRemove
    <2>4. SumFunctionOnSet(g, T) = g[x] + SumFunctionOnSet(g, T \ {x})
      BY <2>2, SumRemove
    <2>5. SumFunctionOnSet(h, T) = h[x] + SumFunctionOnSet(h, T \ {x})
      BY <2>2, SumRemove
    <2>6. /\ SumFunctionOnSet(f, T \ {x}) \in Int
          /\ SumFunctionOnSet(g, T \ {x}) \in Int
      BY <1>1, <2>2
    <2>7. f[x] \in Int /\ g[x] \in Int /\ h[x] = f[x] + g[x]
      OBVIOUS
    <2>8. SumFunctionOnSet(h, T \ {x}) =
            SumFunctionOnSet(f, T \ {x}) + SumFunctionOnSet(g, T \ {x})
      BY <2>1
    <2> QED
      BY <2>3, <2>4, <2>5, <2>6, <2>7, <2>8
  <1>4. S \in G
    <2> HIDE DEF G
    <2> QED
      BY <1>2, <1>3, SubsetInduction
  <1> QED
    BY <1>4

\* The sum of multiples.
LEMMA SumTimes ==
  ASSUME NEW f, NEW h, NEW S, IsFiniteSet(S), NEW c \in Int,
         \A s \in S : f[s] \in Int /\ h[s] = c * f[s]
  PROVE  SumFunctionOnSet(h, S) = c * SumFunctionOnSet(f, S)
  <1> DEFINE G == {T \in SUBSET S :
                     SumFunctionOnSet(h, T) = c * SumFunctionOnSet(f, T)}
  <1>1. {} \in G
    BY SumEmpty
  <1>2. ASSUME NEW T \in SUBSET S, T # {}, \A x \in T : T \ {x} \in G
        PROVE  T \in G
    <2>1. PICK x \in T : T \ {x} \in G
      BY <1>2
    <2>2. IsFiniteSet(T) /\ T \ {x} \in SUBSET S /\ IsFiniteSet(T \ {x})
      BY FS_Subset
    <2>3. /\ \A s \in T : f[s] \in Int /\ h[s] \in Int
          /\ f[x] \in Int /\ h[x] = c * f[x]
      OBVIOUS
    <2>4. /\ SumFunctionOnSet(f, T) = f[x] + SumFunctionOnSet(f, T \ {x})
          /\ SumFunctionOnSet(h, T) = h[x] + SumFunctionOnSet(h, T \ {x})
      BY <2>2, <2>3, SumRemove
    <2>5. SumFunctionOnSet(f, T \ {x}) \in Int
      BY <2>2, <2>3, SumInt
    <2>6. SumFunctionOnSet(h, T \ {x}) = c * SumFunctionOnSet(f, T \ {x})
      BY <2>1
    <2>7. \A a, b \in Int : c * (a + b) = c * a + c * b
      OBVIOUS
    <2> QED
      BY <2>3, <2>4, <2>5, <2>6, <2>7
  <1>3. S \in G
    <2> HIDE DEF G
    <2> QED
      BY <1>1, <1>2, SubsetInduction
  <1> QED
    BY <1>3

\* A function that is changed at one element changes the sum by as much.
LEMMA SumChange ==
  ASSUME NEW f, NEW g, NEW S, IsFiniteSet(S), NEW e \in S,
         \A s \in S : f[s] \in Int /\ g[s] \in Int,
         \A s \in S \ {e} : f[s] = g[s]
  PROVE  SumFunctionOnSet(g, S) = SumFunctionOnSet(f, S) + g[e] - f[e]
  <1>1. IsFiniteSet(S \ {e})
    BY FS_Subset
  <1>2. SumFunctionOnSet(f, S \ {e}) = SumFunctionOnSet(g, S \ {e})
    BY <1>1, SumEqual
  <1>3. SumFunctionOnSet(f, S \ {e}) \in Int
    BY <1>1, SumInt
  <1>4. /\ SumFunctionOnSet(f, S) = f[e] + SumFunctionOnSet(f, S \ {e})
        /\ SumFunctionOnSet(g, S) = g[e] + SumFunctionOnSet(g, S \ {e})
    BY SumRemove
  <1> QED
    BY <1>2, <1>3, <1>4

\* Elements that add nothing may be left out.
LEMMA SumOfSome ==
  ASSUME NEW f, NEW S, IsFiniteSet(S), NEW A \in SUBSET S,
         \A s \in S : f[s] \in Int, \A s \in S \ A : f[s] = 0
  PROVE  SumFunctionOnSet(f, S) = SumFunctionOnSet(f, A)
  <1> DEFINE G == {T \in SUBSET S :
                     SumFunctionOnSet(f, T) = SumFunctionOnSet(f, T \cap A)}
  <1>1. {} \in G
    OBVIOUS
  <1>2. ASSUME NEW T \in SUBSET S, T # {}, \A x \in T : T \ {x} \in G
        PROVE  T \in G
    <2>1. PICK x \in T : T \ {x} \in G
      BY <1>2
    <2>2. IsFiniteSet(T) /\ IsFiniteSet(T \cap A) /\ f[x] \in Int
      BY FS_Subset
    <2>3. SumFunctionOnSet(f, T) = f[x] + SumFunctionOnSet(f, T \ {x})
      BY <2>2, SumRemove
    <2>4. SumFunctionOnSet(f, T \ {x}) = SumFunctionOnSet(f, (T \ {x}) \cap A)
      BY <2>1
    <2>5. CASE x \in A
      <3>1. x \in T \cap A /\ (T \ {x}) \cap A = (T \cap A) \ {x}
        BY <2>5
      <3>2. SumFunctionOnSet(f, T \cap A) =
              f[x] + SumFunctionOnSet(f, (T \cap A) \ {x})
        BY <2>2, <3>1, SumRemove
      <3> QED
        BY <2>3, <2>4, <3>1, <3>2
    <2>6. CASE x \notin A
      <3>1. (T \ {x}) \cap A = T \cap A /\ f[x] = 0
        BY <2>6
      <3>2. SumFunctionOnSet(f, T \ {x}) \in Int
        BY <2>2, SumInt, FS_Subset
      <3>3. SumFunctionOnSet(f, T) = SumFunctionOnSet(f, T \ {x})
        BY <2>3, <3>1, <3>2
      <3> QED
        BY <2>4, <3>1, <3>3
    <2> QED
      BY <2>5, <2>6
  <1>3. S \in G
    <2> HIDE DEF G
    <2> QED
      BY <1>1, <1>2, SubsetInduction
  <1>4. S \cap A = A
    OBVIOUS
  <1> QED
    BY <1>3, <1>4

\* The sum over two sets that share nothing.
LEMMA SumDisjoint ==
  ASSUME NEW f, NEW A, IsFiniteSet(A), NEW B, IsFiniteSet(B), A \cap B = {},
         \A s \in A \cup B : f[s] \in Int
  PROVE  SumFunctionOnSet(f, A \cup B) =
           SumFunctionOnSet(f, A) + SumFunctionOnSet(f, B)
  <1> DEFINE G == {T \in SUBSET B : SumFunctionOnSet(f, A \cup T) =
                     SumFunctionOnSet(f, A) + SumFunctionOnSet(f, T)}
  <1>1. SumFunctionOnSet(f, A) \in Int
    BY SumInt
  <1>2. {} \in G
    BY <1>1, SumEmpty
  <1>3. ASSUME NEW T \in SUBSET B, T # {}, \A x \in T : T \ {x} \in G
        PROVE  T \in G
    <2>1. PICK x \in T : T \ {x} \in G
      BY <1>3
    <2>2. IsFiniteSet(T) /\ IsFiniteSet(T \ {x})
      BY FS_Subset
    <2>3. IsFiniteSet(A \cup T)
      BY <2>2, FS_Union
    <2>4. (A \cup T) \ {x} = A \cup (T \ {x})
      OBVIOUS
    <2>5. SumFunctionOnSet(f, A \cup T) =
            f[x] + SumFunctionOnSet(f, A \cup (T \ {x}))
      BY <2>3, <2>4, SumRemove
    <2>6. SumFunctionOnSet(f, T) = f[x] + SumFunctionOnSet(f, T \ {x})
      BY <2>2, SumRemove
    <2>7. SumFunctionOnSet(f, T \ {x}) \in Int /\ f[x] \in Int
      BY <2>2, SumInt
    <2>8. SumFunctionOnSet(f, A \cup (T \ {x})) =
            SumFunctionOnSet(f, A) + SumFunctionOnSet(f, T \ {x})
      BY <2>1
    <2> QED
      BY <1>1, <2>5, <2>6, <2>7, <2>8
  <1>4. B \in G
    <2> HIDE DEF G
    <2> QED
      BY <1>2, <1>3, SubsetInduction
  <1> QED
    BY <1>4

-----------------------------------------------------------------------------
(* Bijections                                                              *)

\* What a bijection is.
LEMMA BijectionFacts ==
  ASSUME NEW S, NEW T, NEW b \in Bijection(S, T)
  PROVE  /\ b \in [S -> T]
         /\ \A x, y \in S : b[x] = b[y] => x = y
         /\ \A y \in T : \E x \in S : b[x] = y
  BY Zenon DEF Bijection, Injection, Surjection, IsInjective

LEMMA IsBijection ==
  ASSUME NEW S, NEW T, NEW b \in [S -> T],
         \A x, y \in S : b[x] = b[y] => x = y,
         \A y \in T : \E x \in S : b[x] = y
  PROVE  b \in Bijection(S, T)
  <1>1. DOMAIN b = S
    OBVIOUS
  <1>2. IsInjective(b)
    BY <1>1 DEF IsInjective
  <1> QED
    BY <1>2 DEF Bijection, Injection, Surjection

\* One after the other.
LEMMA BijectionsCompose ==
  ASSUME NEW S, NEW T, NEW U, NEW b \in Bijection(S, T), NEW c \in Bijection(T, U)
  PROVE  [x \in S |-> c[b[x]]] \in Bijection(S, U)
  <1> DEFINE d == [x \in S |-> c[b[x]]]
  <1>1. /\ b \in [S -> T] /\ \A x, y \in S : b[x] = b[y] => x = y
        /\ \A y \in T : \E x \in S : b[x] = y
    BY BijectionFacts
  <1>2. /\ c \in [T -> U] /\ \A x, y \in T : c[x] = c[y] => x = y
        /\ \A y \in U : \E x \in T : c[x] = y
    BY BijectionFacts
  <1>3. d \in [S -> U]
    BY <1>1, <1>2
  <1>4. \A x, y \in S : d[x] = d[y] => x = y
    BY <1>1, <1>2
  <1>5. \A y \in U : \E x \in S : d[x] = y
    BY <1>1, <1>2
  <1> HIDE DEF d
  <1>6. d \in Bijection(S, U)
    BY <1>3, <1>4, <1>5, IsBijection
  <1> QED
    BY <1>6 DEF d

\* Sets that a bijection maps to one another have as many elements.
LEMMA CountBijection ==
  ASSUME NEW S, IsFiniteSet(S), NEW T, NEW b \in Bijection(S, T),
         NEW A \in SUBSET S, NEW B \in SUBSET T, \A x \in S : x \in A <=> b[x] \in B
  PROVE  IsFiniteSet(B) /\ Cardinality(B) = Cardinality(A)
  <1> DEFINE d == [x \in A |-> b[x]]
  <1>1. /\ b \in [S -> T] /\ \A x, y \in S : b[x] = b[y] => x = y
        /\ \A y \in T : \E x \in S : b[x] = y
    BY BijectionFacts
  <1>2. d \in [A -> B] /\ \A x, y \in A : d[x] = d[y] => x = y
    BY <1>1
  <1>3. \A y \in B : \E x \in A : d[x] = y
    BY <1>1
  <1> HIDE DEF d
  <1>4. d \in Bijection(A, B)
    BY <1>2, <1>3, IsBijection
  <1>5. ExistsBijection(A, B)
    BY <1>4 DEF ExistsBijection
  <1>6. IsFiniteSet(A)
    BY FS_Subset
  <1> QED
    BY <1>5, <1>6, FS_Bijection

\* And functions that it maps to one another have the same sum.
LEMMA SumBijection ==
  ASSUME NEW S, IsFiniteSet(S), NEW T, NEW b \in Bijection(S, T), NEW f, NEW g,
         \A x \in S : f[x] \in Int /\ f[x] = g[b[x]]
  PROVE  SumFunctionOnSet(f, S) = SumFunctionOnSet(g, T)
  <1> DEFINE Image(A) == {b[x] : x \in A}
             G == {A \in SUBSET S :
                     SumFunctionOnSet(f, A) = SumFunctionOnSet(g, Image(A))}
  <1>1. /\ b \in [S -> T] /\ \A x, y \in S : b[x] = b[y] => x = y
        /\ \A y \in T : \E x \in S : b[x] = y
    BY BijectionFacts
  <1>2. IsFiniteSet(T)
    <2>1. ExistsBijection(S, T)
      BY DEF ExistsBijection
    <2> QED
      BY <2>1, FS_Bijection
  <1>3. {} \in G
    BY SumEmpty
  <1>4. ASSUME NEW A \in SUBSET S, A # {}, \A x \in A : A \ {x} \in G
        PROVE  A \in G
    <2>1. PICK x \in A : A \ {x} \in G
      BY <1>4
    <2>2. IsFiniteSet(A) /\ IsFiniteSet(Image(A)) /\ Image(A) \subseteq T
      <3>1. Image(A) \subseteq T
        BY <1>1
      <3> QED
        BY <1>2, <3>1, FS_Subset
    <2>3. b[x] \in Image(A) /\ Image(A) \ {b[x]} = Image(A \ {x})
      BY <1>1
    <2>4. \A y \in Image(A) : g[y] \in Int
      OBVIOUS
    <2>5. SumFunctionOnSet(f, A) = f[x] + SumFunctionOnSet(f, A \ {x})
      BY <2>2, SumRemove
    <2>6. SumFunctionOnSet(f, A \ {x}) = SumFunctionOnSet(g, Image(A \ {x}))
      BY <2>1
    <2> HIDE DEF Image
    <2>7. SumFunctionOnSet(g, Image(A)) =
            g[b[x]] + SumFunctionOnSet(g, Image(A) \ {b[x]})
      BY <2>2, <2>3, <2>4, SumRemove
    <2>8. SumFunctionOnSet(f, A) = SumFunctionOnSet(g, Image(A))
      BY <2>3, <2>5, <2>6, <2>7
    <2> QED
      BY <2>8
  <1>5. S \in G
    <2> HIDE DEF G
    <2> QED
      BY <1>3, <1>4, SubsetInduction
  <1>6. Image(S) = T
    BY <1>1
  <1> QED
    BY <1>5, <1>6
=============================================================================
