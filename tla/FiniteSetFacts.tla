---------------------------- MODULE FiniteSetFacts ----------------------------
(***************************************************************************)
(* Facts about finite sets and naturals that the proofs of the             *)
(* computations rest on.  What is true of every finite set is proved by a  *)
(* least counterexample: MinimalSubset gives a set with a property none of *)
(* whose proper subsets has it.                                            *)
(***************************************************************************)
EXTENDS Sums, FiniteSets, SequencesExt, FiniteSetTheorems, WellFoundedInduction, TLAPS

\* Among subsets of a finite set there is one that contains no other.
LEMMA MinimalSubset ==
    ASSUME NEW S, IsFiniteSet(S), NEW Q, Q \subseteq SUBSET S, Q # {}
    PROVE  \E T \in Q : \A U \in Q : U \subseteq T => U = T
<1> DEFINE R == StrictSubsetOrdering(S)
           F == FiniteSubsetsOf(S)
<1>1. Q \subseteq F
  BY FS_Subset DEF FiniteSubsetsOf
<1>2. IsWellFoundedOn(R, F)
  BY FS_StrictSubsetOrderingWellFounded
<1>3. PICK T \in Q : \A U \in Q : <<U, T>> \notin R
  <2> HIDE DEF R, F
  <2> QED
    BY <1>1, <1>2, WFMin
<1> QED
  BY <1>3 DEF StrictSubsetOrdering

\* The values of a function on a finite set are finitely many.
LEMMA ImageIsFinite ==
    ASSUME NEW f, NEW S, IsFiniteSet(S)
    PROVE  IsFiniteSet({f[i] : i \in S})
<1> DEFINE T == {f[i] : i \in S}
           g == [i \in S |-> f[i]]
<1>1. g \in Surjection(S, T)
  BY DEF Surjection
<1> HIDE DEF g, T
<1>2. IsFiniteSet(T)
  BY <1>1, FS_Surjection
<1> QED
  BY <1>2 DEF T

\* A finite set has a first element in every total order.
LEMMA FirstElement ==
    ASSUME NEW S, IsFiniteSet(S), S # {}, NEW R,
           \A x, y \in S : <<x, y>> \in R \/ <<y, x>> \in R,
           \A x, y, z \in S : <<x, y>> \in R /\ <<y, z>> \in R => <<x, z>> \in R
    PROVE  \E x \in S : \A y \in S : <<x, y>> \in R
<1> DEFINE HasFirst(T) == \E x \in T : \A y \in T : <<x, y>> \in R
           Q == {T \in SUBSET S : T # {} /\ ~HasFirst(T)}
<1>1. SUFFICES ASSUME ~HasFirst(S)
               PROVE  FALSE
  OBVIOUS
<1>2. PICK T \in Q : \A U \in Q : U \subseteq T => U = T
  <2>1. S \in Q
    BY <1>1
  <2> HIDE DEF Q
  <2>2. Q \subseteq SUBSET S
    BY DEF Q
  <2> QED
    BY <2>1, <2>2, MinimalSubset
<1>3. PICK x \in T : TRUE
  BY <1>2
<1> DEFINE U == T \ {x}
<1>4. CASE U = {}
  BY <1>2, <1>3, <1>4
<1>5. CASE U # {}
  <2>1. U \in SUBSET S /\ U # T /\ U \subseteq T
    BY <1>3
  <2>2. U \notin Q
    BY <1>2, <2>1
  <2>3. HasFirst(U)
    BY <1>5, <2>1, <2>2
  <2>4. PICK z \in U : \A y \in U : <<z, y>> \in R
    BY <2>3
  <2>5. CASE <<x, z>> \in R
    BY <1>2, <1>3, <2>4, <2>5
  <2>6. CASE <<z, x>> \in R
    BY <1>2, <1>3, <2>4, <2>6
  <2> QED
    BY <1>3, <2>4, <2>5, <2>6
<1> QED
  BY <1>4, <1>5

\* The least of a set of naturals, and the greatest of a finite one.
LEMMA LeastNatural ==
    ASSUME NEW S, S \subseteq Nat, S # {}
    PROVE  Min(S) \in S /\ \A y \in S : Min(S) <= y
<1> PICK n \in S : TRUE
  OBVIOUS
<1> DEFINE Q == {0..m : m \in {k \in S : k <= n}}
<1>1. IsFiniteSet(0..n)
  BY FS_Interval
<1>2. PICK T \in Q : \A U \in Q : U \subseteq T => U = T
  <2> DEFINE I == 0..n
  <2> HIDE DEF Q, I
  <2>1. Q \subseteq SUBSET I /\ Q # {} /\ IsFiniteSet(I)
    BY <1>1 DEF Q, I
  <2> QED
    BY <2>1, MinimalSubset
<1>3. PICK x \in S : x <= n /\ T = 0..x
  OBVIOUS
<1>4. \A y \in S : x <= y
  <2> SUFFICES ASSUME NEW y \in S, y < x
               PROVE  FALSE
    OBVIOUS
  <2>1. 0..y \in Q
    BY <1>3
  <2>2. 0..y \subseteq T
    BY <1>3
  <2>3. 0..y = 0..x
    BY <1>2, <1>3, <2>1, <2>2
  <2> QED
    BY <2>3
<1> QED
  BY <1>4 DEF Min

LEMMA GreatestNatural ==
    ASSUME NEW S, S \subseteq Nat, S # {}, IsFiniteSet(S)
    PROVE  Max(S) \in S /\ \A y \in S : Max(S) >= y
<1> DEFINE R == {p \in S \X S : p[1] >= p[2]}
<1>1. /\ \A x, y \in S : <<x, y>> \in R \/ <<y, x>> \in R
      /\ \A x, y, z \in S : <<x, y>> \in R /\ <<y, z>> \in R => <<x, z>> \in R
  OBVIOUS
<1>2. PICK x \in S : \A y \in S : <<x, y>> \in R
  <2> HIDE DEF R
  <2> QED
    BY <1>1, FirstElement, Zenon
<1>3. \A y \in S : x >= y
  BY <1>2
<1> QED
  BY <1>3 DEF Max

-----------------------------------------------------------------------------
(* Sums over finite sets.                                                  *)

\* The recursive equation a sum is computed by.
Some(s) == CHOOSE x \in s : TRUE
SumsTo(g, f, S) ==
    g = [s \in SUBSET S |-> IF s = {} THEN 0 ELSE f[Some(s)] + g[s \ {Some(s)}]]
SumOf(f, S) == CHOOSE g : SumsTo(g, f, S)

LEMMA TotalIsSum ==
    ASSUME NEW f, NEW S
    PROVE  Total(f, S) = SumOf(f, S)[S]
BY DEF Total, MapThenSumSet, MapThenFoldSet, SumOf, SumsTo, Some

\* Solutions of the equation agree where both are defined.
LEMMA SumsAgree ==
    ASSUME NEW f, NEW S, IsFiniteSet(S), NEW T, T \subseteq S,
           NEW g, SumsTo(g, f, S), NEW h, SumsTo(h, f, T)
    PROVE  g[T] = h[T]
<1> DEFINE Q == {s \in SUBSET T : g[s] # h[s]}
<1>1. SUFFICES ASSUME Q # {}
               PROVE  FALSE
  OBVIOUS
<1>2. IsFiniteSet(T)
  BY FS_Subset
<1>3. PICK s \in Q : \A u \in Q : u \subseteq s => u = s
  <2> HIDE DEF Q
  <2>1. Q \subseteq SUBSET T
    BY DEF Q
  <2> QED
    BY <1>1, <1>2, <2>1, MinimalSubset
<1>4. s # {}
  BY DEF SumsTo
<1>5. s \ {Some(s)} \in SUBSET T /\ s \ {Some(s)} # s
  BY <1>4 DEF Some
<1>6. g[s \ {Some(s)}] = h[s \ {Some(s)}]
  BY <1>3, <1>5
<1>7. g[s] = f[Some(s)] + g[s \ {Some(s)}]
  BY <1>4 DEF SumsTo
<1>8. h[s] = f[Some(s)] + h[s \ {Some(s)}]
  BY <1>4 DEF SumsTo
<1> QED
  BY <1>6, <1>7, <1>8

\* The equation has a solution over every finite set.
LEMMA SumExists ==
    ASSUME NEW f, NEW S, IsFiniteSet(S)
    PROVE  SumsTo(SumOf(f, S), f, S)
<1> DEFINE Q == {T \in SUBSET S : ~SumsTo(SumOf(f, T), f, T)}
<1>1. SUFFICES ASSUME Q # {}
               PROVE  FALSE
  OBVIOUS
<1>2. PICK T \in Q : \A U \in Q : U \subseteq T => U = T
  <2> HIDE DEF Q
  <2>1. Q \subseteq SUBSET S
    BY DEF Q
  <2> QED
    BY <1>1, <2>1, MinimalSubset
<1>3. \A U \in SUBSET T : U # T => SumsTo(SumOf(f, U), f, U)
  BY <1>2
<1>4. \A U \in SUBSET T : IsFiniteSet(U)
  BY FS_Subset
<1> DEFINE less(s) == s \ {Some(s)}
           h == [s \in SUBSET T |-> IF s = {} THEN 0
                                   ELSE f[Some(s)] + SumOf(f, less(s))[less(s)]]
<1>5. \A s \in SUBSET T : s # {} => less(s) \in SUBSET T /\ less(s) # T /\ less(s) \subseteq s
  BY DEF Some
<1>6. \A s \in SUBSET T : s # {} => SumOf(f, less(s))[less(s)] = h[less(s)]
  <2> SUFFICES ASSUME NEW s \in SUBSET T, s # {}
               PROVE  SumOf(f, less(s))[less(s)] = h[less(s)]
    OBVIOUS
  <2> DEFINE u == less(s)
  <2>1. u \in SUBSET T /\ SumsTo(SumOf(f, u), f, u)
    BY <1>3, <1>5
  <2>2. CASE u = {}
    BY <2>1, <2>2 DEF SumsTo
  <2>3. CASE u # {}
    <3>1. SumOf(f, u)[u] = f[Some(u)] + SumOf(f, u)[less(u)]
      BY <2>1, <2>3 DEF SumsTo
    <3>2. less(u) \in SUBSET T /\ SumsTo(SumOf(f, less(u)), f, less(u))
      BY <1>3, <1>5, <2>1, <2>3
    <3>3. less(u) \subseteq u
      OBVIOUS
    <3>4. SumOf(f, u)[less(u)] = SumOf(f, less(u))[less(u)]
      BY <1>4, <2>1, <3>2, <3>3, SumsAgree
    <3> QED
      BY <2>1, <2>3, <3>1, <3>4
  <2> QED
    BY <2>2, <2>3
<1>7. h = [s \in SUBSET T |-> IF s = {} THEN 0 ELSE f[Some(s)] + h[less(s)]]
  BY <1>6
<1>8. SumsTo(h, f, T)
  BY <1>7 DEF SumsTo
<1>9. SumsTo(SumOf(f, T), f, T)
  <2> HIDE DEF h
  <2> QED
    BY <1>8 DEF SumOf
<1> QED
  BY <1>2, <1>9

LEMMA TotalOfNothing ==
    ASSUME NEW f
    PROVE  Total(f, {}) = 0
<1>1. SumsTo(SumOf(f, {}), f, {})
  BY SumExists, FS_EmptySet
<1> QED
  BY <1>1, TotalIsSum DEF SumsTo

\* A sum takes the elements in the order of CHOOSE,
LEMMA TotalChoice ==
    ASSUME NEW f, NEW S, IsFiniteSet(S), S # {}
    PROVE  /\ Some(S) \in S
           /\ Total(f, S) = f[Some(S)] + Total(f, S \ {Some(S)})
<1> DEFINE T == S \ {Some(S)}
<1>1. Some(S) \in S
  BY DEF Some
<1>2. SumsTo(SumOf(f, S), f, S)
  BY SumExists
<1>3. SumsTo(SumOf(f, T), f, T)
  BY SumExists, FS_Subset
<1>4. SumOf(f, S)[S] = f[Some(S)] + SumOf(f, S)[T]
  BY <1>2 DEF SumsTo
<1>5. SumOf(f, S)[T] = SumOf(f, T)[T]
  BY <1>2, <1>3, SumsAgree
<1> QED
  BY <1>1, <1>4, <1>5, TotalIsSum

LEMMA TotalType ==
    ASSUME NEW f, NEW S, IsFiniteSet(S), \A c \in S : f[c] \in Int
    PROVE  Total(f, S) \in Int
<1> DEFINE Q == {T \in SUBSET S : Total(f, T) \notin Int}
<1>1. SUFFICES ASSUME Q # {}
               PROVE  FALSE
  OBVIOUS
<1>2. PICK T \in Q : \A U \in Q : U \subseteq T => U = T
  <2> HIDE DEF Q
  <2>1. Q \subseteq SUBSET S
    BY DEF Q
  <2> QED
    BY <1>1, <2>1, MinimalSubset
<1>3. T # {}
  BY TotalOfNothing
<1>4. /\ Some(T) \in T
      /\ Total(f, T) = f[Some(T)] + Total(f, T \ {Some(T)})
  BY <1>3, TotalChoice, FS_Subset
<1>5. Total(f, T \ {Some(T)}) \in Int
  BY <1>2, <1>4
<1> QED
  BY <1>4, <1>5

\* but may take any of them first.
LEMMA TotalWithout ==
    ASSUME NEW f, NEW S, IsFiniteSet(S), \A c \in S : f[c] \in Int, NEW x \in S
    PROVE  Total(f, S) = f[x] + Total(f, S \ {x})
<1> DEFINE Q == {T \in SUBSET S : \E y \in T : Total(f, T) # f[y] + Total(f, T \ {y})}
<1>1. SUFFICES ASSUME Q # {}
               PROVE  FALSE
  OBVIOUS
<1>2. PICK T \in Q : \A U \in Q : U \subseteq T => U = T
  <2> HIDE DEF Q
  <2>1. Q \subseteq SUBSET S
    BY DEF Q
  <2> QED
    BY <1>1, <2>1, MinimalSubset
<1>3. \A U \in SUBSET T : U # T => \A y \in U : Total(f, U) = f[y] + Total(f, U \ {y})
  BY <1>2
<1>4. PICK y \in T : Total(f, T) # f[y] + Total(f, T \ {y})
  BY <1>2
<1> DEFINE z == Some(T)
<1>5. z \in T /\ Total(f, T) = f[z] + Total(f, T \ {z})
  BY <1>4, TotalChoice, FS_Subset
<1>6. CASE y = z
  BY <1>4, <1>5, <1>6
<1>7. CASE y # z
  <2>1. Total(f, T \ {z}) = f[y] + Total(f, (T \ {z}) \ {y})
    BY <1>3, <1>5, <1>7
  <2>2. Total(f, T \ {y}) = f[z] + Total(f, (T \ {y}) \ {z})
    BY <1>3, <1>5, <1>7
  <2>3. (T \ {y}) \ {z} = (T \ {z}) \ {y}
    OBVIOUS
  <2>4. Total(f, (T \ {z}) \ {y}) \in Int
    BY TotalType, FS_Subset
  <2>5. f[y] \in Int /\ f[z] \in Int
    BY <1>5
  <2>6. Total(f, T \ {y}) = f[z] + Total(f, (T \ {z}) \ {y})
    BY <2>2, <2>3
  <2> DEFINE rem == Total(f, (T \ {z}) \ {y})
  <2>7. Total(f, T) = f[z] + (f[y] + rem) /\ Total(f, T \ {y}) = f[z] + rem
    BY <1>5, <2>1, <2>6
  <2> HIDE DEF rem
  <2>8. f[z] + (f[y] + rem) = f[y] + (f[z] + rem)
    BY <2>4, <2>5 DEF rem
  <2> QED
    BY <1>4, <2>7, <2>8
<1> QED
  BY <1>6, <1>7

\* An inequality between the terms holds between the sums.
LEMMA TotalsCompare ==
    ASSUME NEW S, IsFiniteSet(S), NEW w \in Int, NEW u, NEW p, NEW v, NEW q,
           \A c \in S : /\ {u[c], p[c], v[c], q[c]} \subseteq Int
                        /\ u[c] + w * p[c] <= v[c] + w * q[c]
    PROVE  Total(u, S) + w * Total(p, S) <= Total(v, S) + w * Total(q, S)
<1> DEFINE OK(T) == Total(u, T) + w * Total(p, T) <= Total(v, T) + w * Total(q, T)
           Q == {T \in SUBSET S : ~OK(T)}
<1>1. SUFFICES ASSUME Q # {}
               PROVE  FALSE
  OBVIOUS
<1>2. PICK T \in Q : \A U \in Q : U \subseteq T => U = T
  <2> HIDE DEF Q
  <2>1. Q \subseteq SUBSET S
    BY DEF Q
  <2> QED
    BY <1>1, <2>1, MinimalSubset
<1>3. CASE T = {}
  BY <1>2, <1>3, TotalOfNothing
<1>4. CASE T # {}
  <2> PICK x \in T : TRUE
    BY <1>4
  <2> DEFINE U == T \ {x}
  <2>1. OK(U)
    BY <1>2
  <2>2. IsFiniteSet(T) /\ IsFiniteSet(U)
    BY FS_Subset
  <2>3. /\ Total(u, T) = u[x] + Total(u, U) /\ Total(p, T) = p[x] + Total(p, U)
        /\ Total(v, T) = v[x] + Total(v, U) /\ Total(q, T) = q[x] + Total(q, U)
    BY <2>2, TotalWithout
  <2>4. {Total(u, U), Total(p, U), Total(v, U), Total(q, U)} \subseteq Int
    BY <2>2, TotalType
  <2>5. /\ {u[x], p[x], v[x], q[x]} \subseteq Int
        /\ u[x] + w * p[x] <= v[x] + w * q[x]
    OBVIOUS
  <2>6. ~OK(T)
    BY <1>2
  <2>7. /\ w * (p[x] + Total(p, U)) = w * p[x] + w * Total(p, U)
        /\ w * (q[x] + Total(q, U)) = w * q[x] + w * Total(q, U)
    BY <2>4, <2>5
  <2>8. {w * p[x], w * Total(p, U), w * q[x], w * Total(q, U)} \subseteq Int
    BY <2>4, <2>5
  <2> QED
    BY <2>1, <2>3, <2>4, <2>5, <2>6, <2>7, <2>8
<1> QED
  BY <1>3, <1>4

LEMMA TotalLess ==
    ASSUME NEW S, IsFiniteSet(S), NEW u, NEW v,
           \A c \in S : u[c] \in Int /\ v[c] \in Int /\ u[c] <= v[c]
    PROVE  Total(u, S) <= Total(v, S)
<1>1. Total(u, S) + 0 * Total(u, S) <= Total(v, S) + 0 * Total(u, S)
  BY TotalsCompare
<1>2. Total(u, S) \in Int /\ Total(v, S) \in Int
  BY TotalType
<1> QED
  BY <1>1, <1>2

LEMMA TotalSame ==
    ASSUME NEW S, IsFiniteSet(S), NEW u, NEW v,
           \A c \in S : u[c] \in Int /\ u[c] = v[c]
    PROVE  Total(u, S) = Total(v, S)
<1>1. Total(u, S) <= Total(v, S) /\ Total(v, S) <= Total(u, S)
  BY TotalLess
<1>2. Total(u, S) \in Int /\ Total(v, S) \in Int
  BY TotalType
<1> QED
  BY <1>1, <1>2

LEMMA TotalOfZeros ==
    ASSUME NEW S, IsFiniteSet(S), NEW u, \A c \in S : u[c] = 0
    PROVE  Total(u, S) = 0
<1> DEFINE Q == {T \in SUBSET S : Total(u, T) # 0}
<1>1. SUFFICES ASSUME Q # {}
               PROVE  FALSE
  OBVIOUS
<1>2. PICK T \in Q : \A U \in Q : U \subseteq T => U = T
  <2> HIDE DEF Q
  <2>1. Q \subseteq SUBSET S
    BY DEF Q
  <2> QED
    BY <1>1, <2>1, MinimalSubset
<1>3. T # {}
  BY TotalOfNothing
<1>4. /\ Some(T) \in T
      /\ Total(u, T) = u[Some(T)] + Total(u, T \ {Some(T)})
  BY <1>3, TotalChoice, FS_Subset
<1>5. Total(u, T \ {Some(T)}) = 0
  BY <1>2, <1>4
<1> QED
  BY <1>4, <1>5

\* The last of the first n terms.
LEMMA TotalUpTo ==
    ASSUME NEW f, NEW n \in Nat \ {0}, \A i \in 1..n : f[i] \in Int
    PROVE  /\ Total(f, 1..n) = f[n] + Total(f, 1..(n - 1))
           /\ f[n] \in Int /\ Total(f, 1..(n - 1)) \in Int
<1>1. IsFiniteSet(1..n) /\ IsFiniteSet(1..(n - 1))
  BY FS_Interval
<1>2. n \in 1..n /\ (1..n) \ {n} = 1..(n - 1)
  OBVIOUS
<1>3. Total(f, 1..n) = f[n] + Total(f, (1..n) \ {n})
  BY <1>1, <1>2, TotalWithout
<1>4. Total(f, 1..(n - 1)) \in Int
  BY <1>1, TotalType
<1> QED
  BY <1>2, <1>3, <1>4

\* Sums over sets that share no element add up,
LEMMA TotalUnion ==
    ASSUME NEW A, IsFiniteSet(A), NEW B, IsFiniteSet(B), A \cap B = {},
           NEW f, \A x \in A \cup B : f[x] \in Int
    PROVE  Total(f, A \cup B) = Total(f, A) + Total(f, B)
<1> DEFINE OK(T) == Total(f, T \cup B) = Total(f, T) + Total(f, B)
           Q == {T \in SUBSET A : ~OK(T)}
<1>1. SUFFICES ASSUME Q # {}
               PROVE  FALSE
  OBVIOUS
<1>2. PICK T \in Q : \A U \in Q : U \subseteq T => U = T
  <2> HIDE DEF Q
  <2>1. Q \subseteq SUBSET A
    BY DEF Q
  <2> QED
    BY <1>1, <2>1, MinimalSubset
<1>3. Total(f, B) \in Int
  BY TotalType
<1>4. CASE T = {}
  <2>1. T \cup B = B
    BY <1>4
  <2>2. OK(T)
    BY <1>3, <1>4, <2>1, TotalOfNothing
  <2> QED
    BY <1>2, <2>2
<1>5. CASE T # {}
  <2> PICK x \in T : TRUE
    BY <1>5
  <2> DEFINE U == T \ {x}
  <2>1. OK(U)
    BY <1>2
  <2>2. IsFiniteSet(T) /\ IsFiniteSet(U) /\ IsFiniteSet(T \cup B)
    BY <1>2, FS_Subset, FS_Union
  <2>3. Total(f, T) = f[x] + Total(f, U)
    BY <1>2, <2>2, TotalWithout
  <2>4. (T \cup B) \ {x} = U \cup B
    BY <1>2
  <2>5. Total(f, T \cup B) = f[x] + Total(f, U \cup B)
    <3>1. x \in T \cup B /\ \A y \in T \cup B : f[y] \in Int
      BY <1>2
    <3>2. Total(f, T \cup B) = f[x] + Total(f, (T \cup B) \ {x})
      BY <2>2, <3>1, TotalWithout
    <3> QED
      BY <2>4, <3>2
  <2>6. Total(f, U) \in Int /\ f[x] \in Int
    BY <1>2, <2>2, TotalType
  <2>7. ~OK(T)
    BY <1>2
  <2> QED
    BY <1>3, <2>1, <2>3, <2>5, <2>6, <2>7
<1> QED
  BY <1>4, <1>5

\* so a sum over a part is one over the whole with zeros elsewhere,
LEMMA TotalOfPart ==
    ASSUME NEW T, IsFiniteSet(T), NEW S, S \subseteq T, NEW f, NEW g,
           \A x \in T : g[x] \in Int /\ g[x] = IF x \in S THEN f[x] ELSE 0
    PROVE  Total(f, S) = Total(g, T)
<1>1. IsFiniteSet(S) /\ IsFiniteSet(T \ S)
  BY FS_Subset
<1>2. T = S \cup (T \ S) /\ S \cap (T \ S) = {}
  OBVIOUS
<1>3. Total(g, T) = Total(g, S) + Total(g, T \ S)
  BY <1>1, <1>2, TotalUnion
<1>4. Total(g, T \ S) = 0
  <2>1. \A x \in T \ S : g[x] = 0
    OBVIOUS
  <2> QED
    BY <1>1, <2>1, TotalOfZeros
<1>5. Total(g, S) = Total(f, S)
  <2>1. \A x \in S : g[x] \in Int /\ g[x] = f[x]
    OBVIOUS
  <2> QED
    BY <1>1, <2>1, TotalSame
<1>6. Total(g, S) \in Int
  BY <1>1, TotalType
<1> QED
  BY <1>3, <1>4, <1>5, <1>6

\* and a sum may be taken part by part.
PartsByKey(part, key, T, R) ==
    /\ \A x \in T : key[x] \in R
    /\ \A s \in R : part[s] = {x \in T : key[x] = s}

LEMMA TotalByKey ==
    ASSUME NEW T, IsFiniteSet(T), NEW f, \A x \in T : f[x] \in Int, NEW key,
           NEW R, IsFiniteSet(R), NEW g,
           NEW part, PartsByKey(part, key, T, R), \A s \in R : g[s] = Total(f, part[s])
    PROVE  Total(g, R) = Total(f, T)
<1> DEFINE Of(P) == {x \in T : key[x] \in P}
           At(s) == {x \in T : key[x] = s}
           Q == {P \in SUBSET R : Total(g, P) # Total(f, Of(P))}
<1>0. \A s \in R : part[s] = At(s) /\ g[s] = Total(f, At(s))
  BY DEF PartsByKey
<1>1. SUFFICES ASSUME Q # {}
               PROVE  FALSE
  <2>1. Of(R) = T
    BY DEF PartsByKey
  <2>2. Total(g, R) = Total(f, Of(R))
    OBVIOUS
  <2> QED
    BY <2>1, <2>2
<1>2. PICK P \in Q : \A U \in Q : U \subseteq P => U = P
  <2> HIDE DEF Q
  <2>1. Q \subseteq SUBSET R
    BY DEF Q
  <2> QED
    BY <1>1, <2>1, MinimalSubset
<1>3. \A s \in R : g[s] \in Int
  <2> TAKE s \in R
  <2>1. IsFiniteSet(At(s)) /\ \A x \in At(s) : f[x] \in Int
    BY FS_Subset
  <2>2. Total(f, At(s)) \in Int
    BY <2>1, TotalType
  <2> QED
    BY <1>0, <2>2
<1>4. CASE P = {}
  <2>1. Of(P) = {}
    BY <1>4
  <2> QED
    BY <1>2, <1>4, <2>1, TotalOfNothing
<1>5. CASE P # {}
  <2> PICK s \in P : TRUE
    BY <1>5
  <2> DEFINE U == P \ {s}
  <2>1. Total(g, U) = Total(f, Of(U))
    BY <1>2
  <2>2. IsFiniteSet(P)
    BY <1>2, FS_Subset
  <2>3. Total(g, P) = g[s] + Total(g, U)
    BY <1>2, <1>3, <2>2, TotalWithout
  <2>4. Of(P) = Of(U) \cup At(s) /\ Of(U) \cap At(s) = {}
    OBVIOUS
  <2>5. IsFiniteSet(Of(U)) /\ IsFiniteSet(At(s))
    BY FS_Subset
  <2>6. Total(f, Of(U) \cup At(s)) = Total(f, Of(U)) + Total(f, At(s))
    <3>1. \A x \in Of(U) \cup At(s) : f[x] \in Int
      OBVIOUS
    <3> HIDE DEF Of, At
    <3> QED
      BY ZenonT(30), <2>4, <2>5, <3>1, TotalUnion
  <2>7. g[s] = Total(f, At(s)) /\ g[s] \in Int
    BY <1>0, <1>2, <1>3
  <2>8. Total(f, Of(U)) \in Int
    <3>1. \A x \in Of(U) : f[x] \in Int
      OBVIOUS
    <3> HIDE DEF Of
    <3> QED
      BY <2>5, <3>1, TotalType
  <2>9. Total(g, P) = Total(f, Of(P))
    <3> HIDE DEF Of, At, U
    <3> QED
      BY <2>1, <2>3, <2>4, <2>6, <2>7, <2>8
  <2> QED
    BY <1>2, <2>9
<1> QED
  BY <1>4, <1>5

\* The sum of differences.
LEMMA TotalOfDifferences ==
    ASSUME NEW S, IsFiniteSet(S), NEW u, NEW v, NEW w,
           \A x \in S : u[x] \in Int /\ v[x] \in Int /\ w[x] = u[x] - v[x]
    PROVE  Total(w, S) = Total(u, S) - Total(v, S)
<1> DEFINE zero == [x \in S |-> 0]
<1>1. \A x \in S : /\ {u[x], v[x], w[x], zero[x]} \subseteq Int
                   /\ w[x] + 1 * v[x] = u[x] + 1 * zero[x]
  OBVIOUS
<1>2. Total(zero, S) = 0
  <2>1. \A x \in S : zero[x] = 0
    OBVIOUS
  <2> HIDE DEF zero
  <2> QED
    BY <2>1, TotalOfZeros
<1>3. Total(u, S) \in Int /\ Total(v, S) \in Int /\ Total(w, S) \in Int
  BY <1>1, TotalType
<1> HIDE DEF zero
<1>4. Total(w, S) + 1 * Total(v, S) <= Total(u, S) + 1 * Total(zero, S)
  <2>1. \A x \in S : /\ {w[x], v[x], u[x], zero[x]} \subseteq Int
                     /\ w[x] + 1 * v[x] <= u[x] + 1 * zero[x]
    BY <1>1
  <2> QED
    BY <2>1, TotalsCompare
<1>5. Total(u, S) + 1 * Total(zero, S) <= Total(w, S) + 1 * Total(v, S)
  <2>1. \A x \in S : /\ {u[x], zero[x], w[x], v[x]} \subseteq Int
                     /\ u[x] + 1 * zero[x] <= w[x] + 1 * v[x]
    BY <1>1
  <2> QED
    BY <2>1, TotalsCompare
<1> QED
  BY <1>2, <1>3, <1>4, <1>5

-----------------------------------------------------------------------------
(* Sequences one after the other.                                          *)

\* The recursive function behind FlattenSeq.
FlatTo(g, ss, n) == g = [i \in 1..n |-> IF i = 1 THEN ss[i] ELSE g[i-1] \o ss[i]]
Flat(ss, n) == CHOOSE g : FlatTo(g, ss, n)

LEMMA FlattenIsFlat ==
    ASSUME NEW ss, Len(ss) # 0
    PROVE  FlattenSeq(ss) = Flat(ss, Len(ss))[Len(ss)]
BY DEF FlattenSeq, Flat, FlatTo

LEMMA FlatExists ==
    ASSUME NEW ss, NEW n \in Nat
    PROVE  FlatTo(Flat(ss, n), ss, n)
<1> DEFINE Q == {k \in 0..n : \A g : ~FlatTo(g, ss, k)}
<1>1. SUFFICES ASSUME Q # {}
               PROVE  FALSE
  <2>1. n \in 0..n
    OBVIOUS
  <2>2. \E g : FlatTo(g, ss, n)
    BY <2>1
  <2> QED
    BY <2>2 DEF Flat
<1>2. PICK k \in Q : \A y \in Q : k <= y
  <2>1. Q \subseteq Nat
    OBVIOUS
  <2> HIDE DEF Q
  <2> QED
    BY <1>1, <2>1, LeastNatural
<1>3. k \in 0..n /\ \A g : ~FlatTo(g, ss, k)
  OBVIOUS
<1>4. CASE k = 0
  <2>1. [i \in 1..k |-> ss[i]]
          = [i \in 1..k |-> IF i = 1 THEN ss[i] ELSE [j \in 1..k |-> ss[j]][i-1] \o ss[i]]
    BY <1>4
  <2> QED
    BY <1>3, <2>1 DEF FlatTo
<1>5. CASE k # 0
  <2>1. k - 1 \in 0..n /\ k \in Nat /\ ~(k <= k - 1)
    BY <1>3, <1>5
  <2>2. k - 1 \notin Q
    <3> HIDE DEF Q
    <3> QED
      BY <1>2, <2>1
  <2>3. PICK g : FlatTo(g, ss, k - 1)
    BY <2>1, <2>2
  <2> DEFINE v(i) == IF i = 1 THEN ss[i] ELSE g[i-1] \o ss[i]
             h == [i \in 1..k |-> v(i)]
  <2>4. \A i \in 1..(k - 1) : g[i] = v(i)
    BY <2>3 DEF FlatTo
  <2>5. \A i \in 1..k : i # 1 => i - 1 \in 1..(k - 1) /\ i - 1 \in 1..k
    BY <2>1
  <2>6. \A i \in 1..(k - 1) : h[i] = g[i]
    <3>1. \A i \in 1..(k - 1) : i \in 1..k
      BY <2>1
    <3> QED
      BY <2>4, <3>1
  <2>7. \A i \in 1..k : i # 1 => h[i-1] = g[i-1]
    <3> HIDE DEF h
    <3> QED
      BY <2>5, <2>6
  <2>8. \A i \in 1..k : v(i) = IF i = 1 THEN ss[i] ELSE h[i-1] \o ss[i]
    <3> HIDE DEF h
    <3> QED
      BY <2>7
  <2>9. h = [i \in 1..k |-> IF i = 1 THEN ss[i] ELSE h[i-1] \o ss[i]]
    <3>1. h = [i \in 1..k |-> v(i)]
      OBVIOUS
    <3> HIDE DEF h, v
    <3> QED
      BY <2>8, <3>1
  <2> HIDE DEF h
  <2> QED
    BY <1>3, <2>9 DEF FlatTo
<1> QED
  BY <1>4, <1>5
===============================================================================
