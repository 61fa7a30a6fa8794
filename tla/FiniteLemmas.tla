----------------------------- MODULE FiniteLemmas -----------------------------
(***************************************************************************)
(* Facts about finite sets and sums over them, for the proofs of the       *)
(* figures, scans, pages and plans: induction over finite sets and over    *)
(* numbers, stated with sets; what MapThenSumSet computes; and that a      *)
(* strict total order puts a finite set in order.                          *)
(***************************************************************************)
EXTENDS Integers, Sequences, FiniteSets, FiniteSetsExt, SequencesExt, FiniteSetTheorems, WellFoundedInduction, TLAPS

-----------------------------------------------------------------------------
(* Induction.                                                               *)
LEMMA LeastSet ==
  ASSUME NEW S, IsFiniteSet(S), NEW F, F \subseteq SUBSET S, F # {}
  PROVE  \E T \in F : \A U \in F : U \subseteq T => U = T
<1>1. F \subseteq FiniteSubsetsOf(S)
  BY FS_FiniteSubsetsOfFinite
<1>2. IsWellFoundedOn(StrictSubsetOrdering(S), FiniteSubsetsOf(S))
  BY FS_StrictSubsetOrderingWellFounded
<1>3. PICK T \in F : \A U \in F : ~(<<U, T>> \in StrictSubsetOrdering(S))
  BY <1>1, <1>2, WFMin
<1> QED BY <1>3 DEF StrictSubsetOrdering

(* What holds of the empty set, and of a set when it holds of the set       *)
(* without any one of its elements, holds of every finite set.              *)
LEMMA SetInduction ==
  ASSUME NEW S, IsFiniteSet(S), NEW G, {} \in G,
         \A T \in SUBSET S : T # {} /\ (\A x \in T : T \ {x} \in G) => T \in G
  PROVE  \A T \in SUBSET S : T \in G
<1> DEFINE bad == {T \in SUBSET S : T \notin G}
<1>1. ASSUME bad # {} PROVE FALSE
  <2>1. \E T \in bad : \A U \in bad : U \subseteq T => U = T
    <3>1. bad \subseteq SUBSET S
      OBVIOUS
    <3> HIDE DEF bad
    <3> QED BY <1>1, <3>1, LeastSet
  <2>2. PICK T \in bad : \A U \in bad : U \subseteq T => U = T
    BY <2>1
  <2>3. \A x \in T : T \ {x} \in G
    BY <2>2
  <2> QED BY <2>2, <2>3
<1> QED BY <1>1

LEMMA LeastNumber ==
  ASSUME NEW M \in SUBSET Nat, M # {}
  PROVE  \E m \in M : \A n \in M : m <= n
<1>1. PICK b \in M : TRUE
  OBVIOUS
<1> DEFINE F == {0 .. m : m \in {n \in M : n <= b}}
           B == 0 .. b
<1>2. IsFiniteSet(B)
  BY FS_Interval
<1>3. F \subseteq SUBSET B /\ F # {}
  OBVIOUS
<1>4. \E T \in F : \A U \in F : U \subseteq T => U = T
  <2> HIDE DEF F, B
  <2> QED BY <1>2, <1>3, LeastSet
<1>5. PICK T \in F : \A U \in F : U \subseteq T => U = T
  BY <1>4
<1>6. PICK m \in M : T = 0 .. m /\ m <= b
  BY <1>5
<1>7. ASSUME NEW n \in M, n < m PROVE FALSE
  <2>1. 0 .. n \in F /\ 0 .. n \subseteq T
    BY <1>6, <1>7
  <2>2. m \in T /\ m \notin 0 .. n
    BY <1>6, <1>7
  <2> QED BY <1>5, <2>1, <2>2
<1> QED BY <1>7

LEMMA NumberInduction ==
  ASSUME NEW G, 0 \in G, \A n \in Nat : n \in G => n + 1 \in G
  PROVE  \A n \in Nat : n \in G
<1> DEFINE bad == {n \in Nat : n \notin G}
<1>1. ASSUME bad # {} PROVE FALSE
  <2>1. PICK n \in bad : \A m \in bad : n <= m
    BY <1>1, LeastNumber
  <2>2. n # 0 /\ n - 1 \in Nat /\ n - 1 \in G
    BY <2>1
  <2> QED BY <2>1, <2>2
<1> QED BY <1>1

-----------------------------------------------------------------------------
(* What a sum is: an element is taken from the set as long as there is one. *)
Total(w, S) == MapThenSumSet(LAMBDA x : w[x], S)

OneOf(s) == CHOOSE x \in s : TRUE
Summed(it, w, D) ==
  it = [s \in D |-> IF s = {} THEN 0 ELSE w[OneOf(s)] + it[s \ {OneOf(s)}]]
UpTo(S, n) == {s \in SUBSET S : Cardinality(s) <= n}

LEMMA Rest ==
  ASSUME NEW S, IsFiniteSet(S), NEW s \in SUBSET S, s # {}
  PROVE  /\ OneOf(s) \in s /\ s \ {OneOf(s)} \in SUBSET S
         /\ IsFiniteSet(s) /\ Cardinality(s) \in Nat
         /\ Cardinality(s \ {OneOf(s)}) = Cardinality(s) - 1
<1>1. IsFiniteSet(s)
  BY FS_Subset
<1>2. OneOf(s) \in s
  BY Zenon DEF OneOf
<1> QED BY <1>1, <1>2, FS_RemoveElement, FS_CardinalityType

LEMMA SumIterates ==
  ASSUME NEW S, IsFiniteSet(S), NEW w
  PROVE  \E it : Summed(it, w, SUBSET S)
<1> DEFINE G == {n \in Nat : \E it : Summed(it, w, UpTo(S, n))}
<1>1. 0 \in G
  <2>1. \A s \in UpTo(S, 0) : s = {}
    BY FS_Subset, FS_EmptySet, FS_CardinalityType DEF UpTo
  <2>2. Summed([s \in UpTo(S, 0) |-> 0], w, UpTo(S, 0))
    BY <2>1 DEF Summed
  <2> QED BY <2>2
<1>2. ASSUME NEW n \in Nat, n \in G PROVE n + 1 \in G
  <2>1. PICK it : Summed(it, w, UpTo(S, n))
    BY <1>2
  <2> DEFINE new == [s \in UpTo(S, n + 1) |-> IF s = {} THEN 0 ELSE w[OneOf(s)] + it[s \ {OneOf(s)}]]
  <2>2. ASSUME NEW s \in UpTo(S, n + 1), s # {} PROVE new[s \ {OneOf(s)}] = it[s \ {OneOf(s)}]
    <3> DEFINE r == s \ {OneOf(s)}
    <3>1. r \in UpTo(S, n) /\ r \in UpTo(S, n + 1)
      BY <2>2, Rest DEF UpTo
    <3>2. it[r] = IF r = {} THEN 0 ELSE w[OneOf(r)] + it[r \ {OneOf(r)}]
      BY <2>1, <3>1, Zenon DEF Summed
    <3> QED BY <3>1, <3>2, Zenon
  <2>3. Summed(new, w, UpTo(S, n + 1))
    BY <2>2 DEF Summed
  <2> QED BY <2>3
<1>3. Cardinality(S) \in G
  <2>1. Cardinality(S) \in Nat
    BY FS_CardinalityType
  <2> HIDE DEF G
  <2> QED BY <1>1, <1>2, <2>1, NumberInduction
<1>4. UpTo(S, Cardinality(S)) = SUBSET S
  BY FS_Subset, FS_CardinalityType DEF UpTo
<1> QED BY <1>3, <1>4

LEMMA TotalIterates ==
  ASSUME NEW S, IsFiniteSet(S), NEW w
  PROVE  \E it : Summed(it, w, SUBSET S) /\ Total(w, S) = it[S]
<1> DEFINE it == CHOOSE i : Summed(i, w, SUBSET S)
<1>1. Summed(it, w, SUBSET S)
  BY SumIterates
<1>2. Total(w, S) = it[S]
  BY DEF Total, MapThenSumSet, MapThenFoldSet, OneOf, Summed
<1> QED BY <1>1, <1>2

LEMMA SameIterates ==
  ASSUME NEW S, IsFiniteSet(S), NEW R, R \subseteq S, NEW w,
         NEW f, NEW g, Summed(f, w, SUBSET S), Summed(g, w, SUBSET R)
  PROVE  f[R] = g[R]
<1> DEFINE G == {T \in SUBSET R : f[T] = g[T]}
<1>1. \A T \in SUBSET R : f[T] = IF T = {} THEN 0 ELSE w[OneOf(T)] + f[T \ {OneOf(T)}]
  BY Zenon DEF Summed
<1>2. \A T \in SUBSET R : g[T] = IF T = {} THEN 0 ELSE w[OneOf(T)] + g[T \ {OneOf(T)}]
  BY Zenon DEF Summed
<1>3. {} \in G
  BY <1>1, <1>2
<1>4. IsFiniteSet(R)
  BY FS_Subset
<1>5. ASSUME NEW T \in SUBSET R, T # {}, \A x \in T : T \ {x} \in G PROVE T \in G
  <2>1. OneOf(T) \in T
    BY <1>4, <1>5, Rest
  <2>2. f[T \ {OneOf(T)}] = g[T \ {OneOf(T)}]
    BY <1>5, <2>1
  <2> QED BY <1>1, <1>2, <1>5, <2>2
<1>6. \A T \in SUBSET R : T \in G
  <2> HIDE DEF G
  <2> QED BY <1>3, <1>4, <1>5, SetInduction
<1> QED BY <1>6

LEMMA TotalEmpty == ASSUME NEW w PROVE Total(w, {}) = 0
<1>1. PICK it : Summed(it, w, SUBSET {}) /\ Total(w, {}) = it[{}]
  BY FS_EmptySet, TotalIterates
<1> QED BY <1>1 DEF Summed

LEMMA TotalStep ==
  ASSUME NEW S, IsFiniteSet(S), S # {}, NEW w
  PROVE  Total(w, S) = w[OneOf(S)] + Total(w, S \ {OneOf(S)})
<1>1. PICK f : Summed(f, w, SUBSET S) /\ Total(w, S) = f[S]
  BY TotalIterates
<1> DEFINE R == S \ {OneOf(S)}
<1>2. IsFiniteSet(R)
  BY FS_Subset
<1>3. PICK g : Summed(g, w, SUBSET R) /\ Total(w, R) = g[R]
  BY <1>2, TotalIterates
<1>4. f[R] = g[R]
  <2>1. R \subseteq S
    OBVIOUS
  <2> HIDE DEF R
  <2> QED BY <1>1, <1>3, <2>1, SameIterates
<1>5. f[S] = w[OneOf(S)] + f[R]
  BY <1>1 DEF Summed
<1> QED BY <1>1, <1>3, <1>4, <1>5

LEMMA TotalType ==
  ASSUME NEW S, IsFiniteSet(S), NEW w, \A x \in S : w[x] \in Int
  PROVE  Total(w, S) \in Int
<1> DEFINE G == {T \in SUBSET S : Total(w, T) \in Int}
<1>1. {} \in G
  BY TotalEmpty
<1>2. ASSUME NEW T \in SUBSET S, T # {}, \A x \in T : T \ {x} \in G PROVE T \in G
  <2>1. IsFiniteSet(T) /\ OneOf(T) \in T
    BY <1>2, Rest
  <2>2. Total(w, T) = w[OneOf(T)] + Total(w, T \ {OneOf(T)})
    BY <1>2, <2>1, TotalStep
  <2>3. w[OneOf(T)] \in Int /\ Total(w, T \ {OneOf(T)}) \in Int
    BY <1>2, <2>1
  <2> QED BY <2>2, <2>3
<1>3. \A T \in SUBSET S : T \in G
  <2> HIDE DEF G
  <2> QED BY <1>1, <1>2, SetInduction
<1> QED BY <1>3

(* Any element may be the first.                                            *)
LEMMA TotalOne ==
  ASSUME NEW S, IsFiniteSet(S), NEW w, \A x \in S : w[x] \in Int
  PROVE  \A x \in S : Total(w, S) = w[x] + Total(w, S \ {x})
<1> DEFINE G == {T \in SUBSET S : \A x \in T : Total(w, T) = w[x] + Total(w, T \ {x})}
<1>1. {} \in G
  OBVIOUS
<1>2. ASSUME NEW T \in SUBSET S, T # {}, \A x \in T : T \ {x} \in G PROVE T \in G
  <2> DEFINE a == OneOf(T)
  <2>1. IsFiniteSet(T) /\ a \in T
    BY <1>2, Rest
  <2>2. Total(w, T) = w[a] + Total(w, T \ {a})
    BY <1>2, <2>1, TotalStep
  <2> HIDE DEF a
  <2>3. ASSUME NEW x \in T, x # a PROVE Total(w, T) = w[x] + Total(w, T \ {x})
    <3> DEFINE R == (T \ {a}) \ {x}
    <3>1. Total(w, T \ {a}) = w[x] + Total(w, R)
      BY <1>2, <2>1, <2>3
    <3>2. Total(w, T \ {x}) = w[a] + Total(w, R)
      <4>1. R = (T \ {x}) \ {a} /\ a \in T \ {x}
        BY <2>1, <2>3
      <4> HIDE DEF R
      <4> QED BY <1>2, <2>3, <4>1
    <3>3. IsFiniteSet(R) /\ \A y \in R : w[y] \in Int
      BY <2>1, FS_Subset
    <3>4. Total(w, R) \in Int /\ w[a] \in Int /\ w[x] \in Int
      BY <2>1, <3>3, TotalType
    <3> QED BY <2>2, <3>1, <3>2, <3>4
  <2> QED BY <2>2, <2>3
<1>3. \A T \in SUBSET S : T \in G
  <2> HIDE DEF G
  <2> QED BY <1>1, <1>2, SetInduction
<1> QED BY <1>3

LEMMA TotalMore ==
  ASSUME NEW S, IsFiniteSet(S), NEW x, x \notin S, NEW w, \A y \in S \cup {x} : w[y] \in Int
  PROVE  Total(w, S \cup {x}) = w[x] + Total(w, S)
<1>1. IsFiniteSet(S \cup {x}) /\ (S \cup {x}) \ {x} = S
  BY FS_AddElement
<1> QED BY <1>1, TotalOne

LEMMA TotalSame ==
  ASSUME NEW S, IsFiniteSet(S), NEW w, NEW v, \A x \in S : w[x] = v[x]
  PROVE  Total(w, S) = Total(v, S)
<1> DEFINE G == {T \in SUBSET S : Total(w, T) = Total(v, T)}
<1>1. {} \in G
  BY TotalEmpty
<1>2. ASSUME NEW T \in SUBSET S, T # {}, \A x \in T : T \ {x} \in G PROVE T \in G
  <2>1. IsFiniteSet(T) /\ OneOf(T) \in T
    BY <1>2, Rest
  <2> QED BY <1>2, <2>1, TotalStep
<1>3. \A T \in SUBSET S : T \in G
  <2> HIDE DEF G
  <2> QED BY <1>1, <1>2, SetInduction
<1> QED BY <1>3

LEMMA TotalAtMost ==
  ASSUME NEW S, IsFiniteSet(S), NEW w, NEW v,
         \A x \in S : w[x] \in Int /\ v[x] \in Int /\ w[x] <= v[x]
  PROVE  Total(w, S) <= Total(v, S)
<1> DEFINE G == {T \in SUBSET S : Total(w, T) <= Total(v, T)}
<1>1. {} \in G
  BY TotalEmpty
<1>2. ASSUME NEW T \in SUBSET S, T # {}, \A x \in T : T \ {x} \in G PROVE T \in G
  <2> DEFINE a == OneOf(T)
  <2>1. IsFiniteSet(T) /\ a \in T /\ IsFiniteSet(T \ {a})
    BY <1>2, Rest, FS_Subset
  <2>2. /\ Total(w, T) = w[a] + Total(w, T \ {a})
        /\ Total(v, T) = v[a] + Total(v, T \ {a})
    BY <1>2, <2>1, TotalStep
  <2>3. Total(w, T \ {a}) \in Int /\ Total(v, T \ {a}) \in Int
    BY <2>1, TotalType
  <2> HIDE DEF a
  <2> QED BY <1>2, <2>1, <2>2, <2>3
<1>3. \A T \in SUBSET S : T \in G
  <2> HIDE DEF G
  <2> QED BY <1>1, <1>2, SetInduction
<1> QED BY <1>3

(* A sum over two sets that share nothing.                                  *)
LEMMA TotalUnion ==
  ASSUME NEW S, IsFiniteSet(S), NEW R, IsFiniteSet(R), S \cap R = {},
         NEW w, \A x \in S \cup R : w[x] \in Int
  PROVE  Total(w, S \cup R) = Total(w, S) + Total(w, R)
<1> DEFINE G == {T \in SUBSET S : Total(w, T \cup R) = Total(w, T) + Total(w, R)}
<1>0. Total(w, R) \in Int
  BY TotalType
<1>1. {} \in G
  BY <1>0, TotalEmpty
<1>2. ASSUME NEW T \in SUBSET S, T # {}, \A x \in T : T \ {x} \in G PROVE T \in G
  <2>1. PICK a \in T : TRUE
    BY <1>2
  <2>2. IsFiniteSet(T \ {a}) /\ IsFiniteSet(T) /\ IsFiniteSet(T \cup R)
    BY FS_Subset, FS_Union
  <2>3. Total(w, T) = w[a] + Total(w, T \ {a})
    BY <2>1, <2>2, TotalOne
  <2>4. Total(w, T \cup R) = w[a] + Total(w, (T \ {a}) \cup R)
    <3>1. (T \cup R) \ {a} = (T \ {a}) \cup R /\ a \in T \cup R
      BY <2>1
    <3> QED BY <2>2, <3>1, TotalOne
  <2>5. Total(w, T \ {a}) \in Int /\ w[a] \in Int
    BY <2>1, <2>2, TotalType
  <2> QED BY <1>0, <1>2, <2>1, <2>3, <2>4, <2>5
<1>3. \A T \in SUBSET S : T \in G
  <2> HIDE DEF G
  <2> QED BY <1>1, <1>2, SetInduction
<1> QED BY <1>3

(* Some of it is no more than all of it.                                    *)
LEMMA TotalPart ==
  ASSUME NEW S, IsFiniteSet(S), NEW R, R \subseteq S,
         NEW w, \A x \in S : w[x] \in Nat
  PROVE  /\ Total(w, S) \in Nat /\ Total(w, R) \in Nat
         /\ Total(w, R) <= Total(w, S)
<1> DEFINE G == {T \in SUBSET S : Total(w, T) \in Nat}
<1>1. {} \in G
  BY TotalEmpty
<1>2. ASSUME NEW T \in SUBSET S, T # {}, \A x \in T : T \ {x} \in G PROVE T \in G
  <2>1. IsFiniteSet(T) /\ OneOf(T) \in T
    BY <1>2, Rest
  <2>2. Total(w, T) = w[OneOf(T)] + Total(w, T \ {OneOf(T)})
    BY <1>2, <2>1, TotalStep
  <2>3. w[OneOf(T)] \in Nat /\ Total(w, T \ {OneOf(T)}) \in Nat
    BY <1>2, <2>1
  <2> QED BY <2>2, <2>3
<1>3. \A T \in SUBSET S : T \in G
  <2> HIDE DEF G
  <2> QED BY <1>1, <1>2, SetInduction
<1>4. Total(w, S) = Total(w, R) + Total(w, S \ R)
  <2> DEFINE Q == S \ R
  <2>1. R \cup Q = S /\ R \cap Q = {} /\ IsFiniteSet(R) /\ IsFiniteSet(Q)
    BY FS_Subset
  <2>2. \A x \in R \cup Q : w[x] \in Int
    OBVIOUS
  <2> HIDE DEF Q
  <2>3. Total(w, R \cup Q) = Total(w, R) + Total(w, Q)
    BY <2>1, <2>2, TotalUnion
  <2> QED BY <2>1, <2>3 DEF Q
<1>5. Total(w, S) \in Nat /\ Total(w, R) \in Nat /\ Total(w, S \ R) \in Nat
  BY <1>3
<1> QED BY <1>4, <1>5

(* The same number for each.                                                *)
LEMMA TotalConstant ==
  ASSUME NEW S, IsFiniteSet(S), NEW b \in Int, NEW w, \A x \in S : w[x] = b
  PROVE  Cardinality(S) \in Nat /\ Total(w, S) = b * Cardinality(S)
<1> DEFINE G == {T \in SUBSET S : Total(w, T) = b * Cardinality(T)}
<1>1. {} \in G
  BY TotalEmpty, FS_EmptySet
<1>2. ASSUME NEW T \in SUBSET S, T # {}, \A x \in T : T \ {x} \in G PROVE T \in G
  <2> DEFINE R == T \ {OneOf(T)}
  <2>1. /\ IsFiniteSet(T) /\ OneOf(T) \in T /\ w[OneOf(T)] = b
        /\ Cardinality(T) \in Nat /\ Cardinality(R) = Cardinality(T) - 1
    BY <1>2, Rest
  <2>2. Total(w, T) = w[OneOf(T)] + Total(w, R)
    BY <1>2, <2>1, TotalStep
  <2>3. Total(w, R) = b * Cardinality(R)
    BY <1>2, <2>1
  <2>4. \A n \in Nat : b + b * (n - 1) = b * n
    OBVIOUS
  <2> QED BY <2>1, <2>2, <2>3, <2>4
<1>3. \A T \in SUBSET S : T \in G
  <2> HIDE DEF G
  <2> QED BY <1>1, <1>2, SetInduction
<1> QED BY <1>3, FS_CardinalityType

LEMMA TotalCounts ==
  ASSUME NEW S, IsFiniteSet(S), NEW w, \A x \in S : w[x] = 1
  PROVE  Total(w, S) = Cardinality(S) /\ Cardinality(S) \in Nat
BY TotalConstant

(* A sum by groups: every element is in the group of its key.               *)
OfKey(S, key, k) == {x \in S : key[x] = k}
LEMMA TotalGroups ==
  ASSUME NEW S, IsFiniteSet(S), NEW K, IsFiniteSet(K), NEW key, \A x \in S : key[x] \in K,
         NEW w, \A x \in S : w[x] \in Int,
         NEW g, \A k \in K : g[k] = Total(w, OfKey(S, key, k))
  PROVE  Total(g, K) = Total(w, S)
<1> DEFINE In(L) == {x \in S : key[x] \in L}
           G == {L \in SUBSET K : Total(g, L) = Total(w, In(L))}
<1>1. {} \in G
  <2>1. In({}) = {}
    OBVIOUS
  <2> QED BY <2>1, TotalEmpty
<1>2. ASSUME NEW L \in SUBSET K, L # {}, \A k \in L : L \ {k} \in G PROVE L \in G
  <2>1. PICK k \in L : TRUE
    BY <1>2
  <2> DEFINE P == In(L \ {k})
             Q == OfKey(S, key, k)
  <2>2. /\ In(L) = Q \cup P /\ Q \cap P = {} /\ IsFiniteSet(P) /\ IsFiniteSet(Q) /\ IsFiniteSet(L)
        /\ Q \subseteq S /\ P \subseteq S
    BY <2>1, FS_Subset DEF OfKey
  <2>3. Total(w, Q) = g[k] /\ Total(w, P) = Total(g, L \ {k})
    BY <1>2, <2>1
  <2>4. \A l \in L : g[l] \in Int
    <3> SUFFICES ASSUME NEW l \in L PROVE Total(w, OfKey(S, key, l)) \in Int
      OBVIOUS
    <3>1. IsFiniteSet(OfKey(S, key, l)) /\ OfKey(S, key, l) \subseteq S
      BY FS_Subset DEF OfKey
    <3> QED BY <3>1, TotalType
  <2>5. Total(g, L) = g[k] + Total(g, L \ {k})
    BY <2>1, <2>2, <2>4, TotalOne
  <2>6. Total(w, Q \cup P) = Total(w, Q) + Total(w, P)
    <3> HIDE DEF P, Q
    <3> QED BY <2>2, TotalUnion
  <2> QED BY <2>2, <2>3, <2>5, <2>6
<1>3. \A L \in SUBSET K : L \in G
  <2> HIDE DEF G
  <2> QED BY <1>1, <1>2, SetInduction
<1>4. In(K) = S
  OBVIOUS
<1> QED BY <1>3, <1>4

(* The same numbers under other names.                                      *)
LEMMA TotalRenamed ==
  ASSUME NEW S, IsFiniteSet(S), NEW K, IsFiniteSet(K), NEW name, \A x \in S : name[x] \in K,
         NEW w, NEW g, \A k \in K : \E x \in S : name[x] = k,
         \A x, y \in S : name[x] = name[y] => x = y,
         \A x \in S : w[x] \in Int /\ g[name[x]] = w[x]
  PROVE  Total(g, K) = Total(w, S)
<1>1. ASSUME NEW k \in K PROVE g[k] = Total(w, OfKey(S, name, k))
  <2>1. PICK x \in S : name[x] = k
    OBVIOUS
  <2>2. OfKey(S, name, k) = {x}
    BY <2>1 DEF OfKey
  <2>3. IsFiniteSet({x}) /\ {x} \ {x} = {} /\ w[x] \in Int /\ g[k] = w[x]
    BY <2>1, FS_Singleton
  <2>4. Total(w, {x}) = w[x] + Total(w, {})
    <3>1. \A y \in {x} : w[y] \in Int
      BY <2>3
    <3>2. Total(w, {x}) = w[x] + Total(w, {x} \ {x})
      BY <2>3, <3>1, TotalOne
    <3> QED BY <2>3, <3>2
  <2> QED BY <2>2, <2>3, <2>4, TotalEmpty
<1> QED BY <1>1, TotalGroups

(* Differences add up as their parts do.                                    *)
LEMMA TotalLess ==
  ASSUME NEW S, IsFiniteSet(S), NEW u, NEW w, NEW v,
         \A x \in S : w[x] \in Int /\ v[x] \in Int /\ u[x] = w[x] - v[x]
  PROVE  Total(u, S) = Total(w, S) - Total(v, S)
<1> DEFINE G == {T \in SUBSET S : Total(u, T) = Total(w, T) - Total(v, T)}
<1>1. {} \in G
  BY TotalEmpty
<1>2. ASSUME NEW T \in SUBSET S, T # {}, \A x \in T : T \ {x} \in G PROVE T \in G
  <2> DEFINE a == OneOf(T)
             R == T \ {a}
  <2>1. IsFiniteSet(T) /\ a \in T /\ IsFiniteSet(R) /\ R \in G
    BY <1>2, Rest, FS_Subset
  <2>2. /\ Total(w, T) = w[a] + Total(w, R) /\ Total(v, T) = v[a] + Total(v, R)
        /\ Total(u, T) = u[a] + Total(u, R)
    BY <1>2, <2>1, TotalStep
  <2>3. Total(w, R) \in Int /\ Total(v, R) \in Int
    BY <2>1, TotalType
  <2> HIDE DEF a
  <2>4. Total(u, R) = Total(w, R) - Total(v, R)
    BY <2>1
  <2>5. w[a] \in Int /\ v[a] \in Int /\ u[a] = w[a] - v[a]
    BY <2>1
  <2> QED BY <2>2, <2>3, <2>4, <2>5
<1>3. \A T \in SUBSET S : T \in G
  <2> HIDE DEF G
  <2> QED BY <1>1, <1>2, SetInduction
<1> QED BY <1>3

(* How many there are, counted by groups.                                   *)
LEMMA CountGroups ==
  ASSUME NEW S, IsFiniteSet(S), NEW K, IsFiniteSet(K), NEW key, \A x \in S : key[x] \in K,
         NEW g, \A k \in K : g[k] = Cardinality(OfKey(S, key, k))
  PROVE  Total(g, K) = Cardinality(S)
<1> DEFINE w == [x \in S |-> 1]
<1>1. \A x \in S : w[x] = 1 /\ w[x] \in Int
  OBVIOUS
<1> HIDE DEF w
<1>2. ASSUME NEW k \in K PROVE g[k] = Total(w, OfKey(S, key, k))
  <2>1. OfKey(S, key, k) \subseteq S
    BY DEF OfKey
  <2>2. IsFiniteSet(OfKey(S, key, k)) /\ \A x \in OfKey(S, key, k) : w[x] = 1
    BY <1>1, <2>1, FS_Subset
  <2> QED BY <2>2, TotalCounts
<1>3. Total(w, S) = Cardinality(S)
  BY <1>1, TotalCounts
<1>4. Total(g, K) = Total(w, S)
  BY <1>1, <1>2, TotalGroups
<1> QED BY <1>3, <1>4

(* What a finite set is mapped to is finite.                                *)
LEMMA FiniteImage ==
  ASSUME NEW S, IsFiniteSet(S), NEW f, NEW T, \A y \in T : \E x \in S : f[x] = y, \A x \in S : f[x] \in T
  PROVE  IsFiniteSet(T)
<1> DEFINE h == [x \in S |-> f[x]]
<1>1. h \in [S -> T] /\ \A x \in S : h[x] = f[x]
  OBVIOUS
<1> HIDE DEF h
<1>2. h \in Surjection(S, T)
  BY <1>1 DEF Surjection
<1> QED BY <1>2, FS_Surjection

-----------------------------------------------------------------------------
(* Orders.  A finite set that R orders has a sequence in which each element *)
(* comes before those it precedes; such a sequence has every element once.  *)
Ranks(R, S) ==
  /\ \A x, y \in S : x # y => <<x, y>> \in R \/ <<y, x>> \in R
  /\ \A x, y, z \in S : <<x, y>> \in R /\ <<y, z>> \in R => <<x, z>> \in R
InTurn(q, R) == \A m, n \in DOMAIN q : m < n => <<q[m], q[n]>> \in R

LEMMA LastOne ==
  ASSUME NEW S, IsFiniteSet(S), S # {}, NEW R, Ranks(R, S)
  PROVE  \E x \in S : \A y \in S \ {x} : <<y, x>> \in R
<1> DEFINE Tops(T) == {x \in T : \A y \in T \ {x} : <<y, x>> \in R}
           G == {T \in SUBSET S : T # {} => Tops(T) # {}}
<1>1. {} \in G
  OBVIOUS
<1>2. ASSUME NEW T \in SUBSET S, T # {}, \A x \in T : T \ {x} \in G PROVE T \in G
  <2>1. PICK a \in T : TRUE
    BY <1>2
  <2>2. CASE T \ {a} = {}
    <3>1. a \in Tops(T)
      BY <2>1, <2>2
    <3> QED BY <3>1
  <2>3. CASE T \ {a} # {}
    <3>1. PICK x \in T \ {a} : \A y \in (T \ {a}) \ {x} : <<y, x>> \in R
      BY <1>2, <2>1, <2>3
    <3>2. CASE <<a, x>> \in R
      <4>1. x \in Tops(T)
        BY <3>1, <3>2
      <4> QED BY <4>1
    <3>3. CASE <<x, a>> \in R
      <4>1. \A y \in T \ {a} : <<y, a>> \in R
        BY <2>1, <3>1, <3>3 DEF Ranks
      <4>2. a \in Tops(T)
        BY <2>1, <4>1
      <4> QED BY <4>2
    <3>4. <<a, x>> \in R \/ <<x, a>> \in R
      BY <2>1, <3>1 DEF Ranks
    <3> QED BY <3>2, <3>3, <3>4
  <2> QED BY <2>2, <2>3
<1>3. \A T \in SUBSET S : T \in G
  <2> HIDE DEF G
  <2> QED BY <1>1, <1>2, SetInduction
<1>4. Tops(S) # {}
  BY <1>3
<1> QED BY <1>4

(* The greatest number of a finite set.                                     *)
LEMMA LastNumber ==
  ASSUME NEW S, S \subseteq Nat, IsFiniteSet(S), S # {}
  PROVE  Max(S) \in S /\ \A y \in S : y <= Max(S)
<1> DEFINE R == {p \in S \X S : p[1] <= p[2]}
<1>1. \A x, y \in S : <<x, y>> \in R <=> x <= y
  OBVIOUS
<1>2. Ranks(R, S)
  <2>1. \A x, y, z \in S : <<x, y>> \in R /\ <<y, z>> \in R => <<x, z>> \in R
    <3> HIDE DEF R
    <3> QED BY <1>1
  <2>2. \A x, y \in S : x # y => <<x, y>> \in R \/ <<y, x>> \in R
    <3> HIDE DEF R
    <3> QED BY <1>1
  <2> HIDE DEF R
  <2> QED BY <2>1, <2>2 DEF Ranks
<1> HIDE DEF R
<1>3. \E x \in S : \A y \in S \ {x} : <<y, x>> \in R
  BY <1>2, LastOne
<1>4. PICK x \in S : \A y \in S \ {x} : <<y, x>> \in R
  BY <1>3
<1>5. x \in S /\ \A y \in S : x >= y
  <2>1. ASSUME NEW y \in S, y # x PROVE x >= y
    <3>1. <<y, x>> \in R
      BY <1>4, <2>1
    <3> QED BY <1>1, <3>1
  <2>2. x \in Nat
    OBVIOUS
  <2> QED BY <2>1, <2>2
<1>6. Max(S) \in S /\ \A y \in S : Max(S) >= y
  BY <1>5, Zenon DEF Max
<1> QED BY <1>6

LEMMA SeqHasAll ==
  ASSUME NEW S, IsFiniteSet(S), NEW q \in SetToSeqs(S)
  PROVE  /\ Cardinality(S) \in Nat /\ DOMAIN q = 1 .. Cardinality(S) /\ q \in Seq(S) /\ Len(q) = Cardinality(S)
         /\ \A k \in 1 .. Cardinality(S) : q[k] \in S
         /\ \A x \in S : \E k \in 1 .. Cardinality(S) : q[k] = x
         /\ \A k, l \in 1 .. Cardinality(S) : q[k] = q[l] => k = l
<1> DEFINE n == Cardinality(S)
<1>1. n \in Nat
  BY FS_CardinalityType
<1>2. q \in [1 .. n -> S] /\ \A k, l \in 1 .. n : q[k] = q[l] => k = l
  BY DEF SetToSeqs
<1> HIDE DEF n
<1>3. q \in Injection(1 .. n, S)
  BY <1>2 DEF Injection, IsInjective
<1>4. Cardinality(1 .. n) = n
  BY <1>1, FS_Interval
<1>5. q \in Surjection(1 .. n, S)
  BY <1>3, <1>4, FS_Injection DEF n
<1>6. \A x \in S : \E k \in 1 .. n : q[k] = x
  BY <1>5 DEF Surjection
<1>7. q \in Seq(S) /\ Len(q) = n
  BY <1>1, <1>2
<1> QED BY <1>1, <1>2, <1>6, <1>7 DEF n

LEMMA OrderFound ==
  ASSUME NEW S, IsFiniteSet(S), NEW R, Ranks(R, S)
  PROVE  \E q \in SetToSeqs(S) : InTurn(q, R)
<1> DEFINE G == {T \in SUBSET S : \E q \in SetToSeqs(T) : InTurn(q, R)}
<1>1. {} \in G
  <2>1. Cardinality({}) = 0 /\ 1 .. 0 = {}
    BY FS_EmptySet
  <2>2. <<>> \in SetToSeqs({}) /\ InTurn(<<>>, R)
    BY <2>1 DEF SetToSeqs, InTurn
  <2> QED BY <2>2
<1>2. ASSUME NEW T \in SUBSET S, T # {}, \A x \in T : T \ {x} \in G PROVE T \in G
  <2>1. IsFiniteSet(T) /\ Ranks(R, T)
    BY FS_Subset DEF Ranks
  <2>2. PICK x \in T : \A y \in T \ {x} : <<y, x>> \in R
    BY <1>2, <2>1, LastOne
  <2> DEFINE U == T \ {x}
             n == Cardinality(U)
  <2>3. PICK q \in SetToSeqs(U) : InTurn(q, R)
    BY <1>2
  <2>4. n \in Nat /\ Cardinality(T) = n + 1 /\ IsFiniteSet(U) /\ x \notin U /\ T = U \cup {x}
    <3>1. IsFiniteSet(U) /\ x \notin U /\ T = U \cup {x}
      BY <2>1, FS_Subset
    <3> HIDE DEF U
    <3> QED BY <3>1, FS_AddElement, FS_CardinalityType
  <2> HIDE DEF n, U
  <2>5. /\ DOMAIN q = 1 .. n /\ \A k \in 1 .. n : q[k] \in U
        /\ \A k, l \in 1 .. n : q[k] = q[l] => k = l
    BY <2>4, SeqHasAll DEF n
  <2> DEFINE p == [k \in 1 .. (n + 1) |-> IF k = n + 1 THEN x ELSE q[k]]
  <2>6. \A k \in 1 .. (n + 1) : k # n + 1 => k \in 1 .. n
    BY <2>4
  <2>7. p \in SetToSeqs(T)
    <3>1. p \in [1 .. (n + 1) -> T]
      BY <2>4, <2>5, <2>6
    <3>2. \A k, l \in 1 .. (n + 1) : k # l => p[k] # p[l]
      BY <2>4, <2>5, <2>6
    <3> HIDE DEF p
    <3> QED BY <2>4, <3>1, <3>2 DEF SetToSeqs
  <2>8. InTurn(p, R)
    <3> SUFFICES ASSUME NEW k \in 1 .. (n + 1), NEW l \in 1 .. (n + 1), k < l PROVE <<p[k], p[l]>> \in R
      BY DEF InTurn
    <3>1. k \in 1 .. n /\ p[k] = q[k]
      BY <2>4
    <3>2. CASE l = n + 1
      BY <2>2, <2>5, <3>1, <3>2 DEF U
    <3>3. CASE l # n + 1
      BY <2>3, <2>5, <2>6, <3>1, <3>3 DEF InTurn
    <3> QED BY <3>2, <3>3
  <2> HIDE DEF p
  <2> QED BY <2>7, <2>8
<1>3. \A T \in SUBSET S : T \in G
  <2> HIDE DEF G
  <2> QED BY <1>1, <1>2, SetInduction
<1> QED BY <1>3
=============================================================================
