----------------------------- MODULE SumLemmas ------------------------------
(***************************************************************************)
(* What holds of the sums in this project: SumFunctionOnSet(f, S), the sum *)
(* of f[x] for x in the finite set S, in whatever order the recursive      *)
(* definition behind it takes the elements of S.                           *)
(*                                                                         *)
(* Inductions over finite sets are minimal counterexamples: of sets for    *)
(* which a statement fails there is a least one (LeastSet), because strict *)
(* inclusion of finite sets is well-founded.                               *)
(***************************************************************************)
EXTENDS Functions, FiniteSetTheorems, TLAPS

-----------------------------------------------------------------------------
\* What the sum of f over the set s is, from those of the subsets of s.
SumStep(f, g, s) ==
    IF s = {} THEN 0
    ELSE LET x == CHOOSE x \in s : TRUE IN f[x] + g[s \ {x}]

\* g[s] is the sum of f over s, for the subsets s of S.
Sums(f, g, S) == g = [s \in SUBSET S |-> SumStep(f, g, s)]

LEMMA SumIsChosen ==
    ASSUME NEW f, NEW S
    PROVE  SumFunctionOnSet(f, S) = (CHOOSE g : Sums(f, g, S))[S]
BY DEF SumFunctionOnSet, FoldFunctionOnSet, MapThenFoldSet, Sums, SumStep

LEMMA LeastSet ==
    ASSUME NEW S, IsFiniteSet(S), NEW T \in SUBSET (SUBSET S), T # {}
    PROVE  \E m \in T : \A u \in T : ~(u \subseteq m /\ u # m)
<1>1. T \subseteq FiniteSubsetsOf(S)
  BY FS_FiniteSubsetsOfFinite
<1>2. PICK m \in T : \A u \in T : ~(<<u, m>> \in StrictSubsetOrdering(S))
  BY <1>1, FS_StrictSubsetOrderingWellFounded, WFMin
<1>3. ASSUME NEW u \in T, u \subseteq m, u # m PROVE FALSE
  <2>1. <<u, m>> \in StrictSubsetOrdering(S)
    BY <1>3 DEF StrictSubsetOrdering
  <2>2. QED
    BY <1>2, <2>1
<1>4. \A u \in T : ~(u \subseteq m /\ u # m)
  BY <1>3
<1>5. QED
  BY <1>4

\* An element of a set that is not empty.
LEMMA Chosen ==
    ASSUME NEW s, s # {}
    PROVE  (CHOOSE x \in s : TRUE) \in s
OBVIOUS

LEMMA SumsAt ==
    ASSUME NEW f, NEW g, NEW S, Sums(f, g, S), NEW s \in SUBSET S
    PROVE  g[s] = SumStep(f, g, s)
BY DEF Sums

\* A set has one sum.
LEMMA SumsAgree ==
    ASSUME NEW f, NEW g, NEW h, NEW S, NEW R, Sums(f, g, S), Sums(f, h, R),
           NEW A, IsFiniteSet(A), A \subseteq S, A \subseteq R
    PROVE  g[A] = h[A]
<1> DEFINE T == {s \in SUBSET A : g[s] # h[s]}
<1>1. SUFFICES ASSUME T # {} PROVE FALSE
  OBVIOUS
<1>2. PICK m \in T : \A u \in T : ~(u \subseteq m /\ u # m)
  <2>1. T \in SUBSET (SUBSET A)
    OBVIOUS
  <2> HIDE DEF T
  <2>2. QED
    BY <1>1, <2>1, LeastSet
<1>3. g[m] = SumStep(f, g, m) /\ h[m] = SumStep(f, h, m)
  BY SumsAt
<1>4. CASE m = {}
  BY <1>3, <1>4 DEF SumStep
<1>5. CASE m # {}
  <2> DEFINE x == CHOOSE x \in m : TRUE
  <2>1. x \in m
    BY <1>5, Chosen
  <2>2. m \ {x} \in SUBSET A /\ m \ {x} # m
    BY <2>1
  <2>3. g[m \ {x}] = h[m \ {x}]
    BY <1>2, <2>2
  <2>4. QED
    BY <1>3, <1>5, <2>3 DEF SumStep
<1>6. QED
  BY <1>4, <1>5

\* Every finite set has a sum.
LEMMA SumsExist ==
    ASSUME NEW f, NEW S, IsFiniteSet(S)
    PROVE  \E g : Sums(f, g, S)
<1> DEFINE T == {s \in SUBSET S : ~ \E g : Sums(f, g, s)}
           G(s) == CHOOSE g : Sums(f, g, s)
<1>1. SUFFICES ASSUME T # {} PROVE FALSE
  OBVIOUS
<1>2. PICK m \in T : \A u \in T : ~(u \subseteq m /\ u # m)
  <2>1. T \in SUBSET (SUBSET S)
    OBVIOUS
  <2> HIDE DEF T
  <2>2. QED
    BY <1>1, <2>1, LeastSet
<1>3. ASSUME NEW s \in SUBSET m, s # m PROVE Sums(f, G(s), s)
  <2>1. \E g : Sums(f, g, s)
    BY <1>2, <1>3
  <2>2. QED
    BY <2>1
<1> DEFINE part == [s \in SUBSET m |-> G(s)[s]]
           whole == [s \in SUBSET m |-> SumStep(f, part, s)]
<1>4. ASSUME NEW s \in SUBSET m, s # {}
      PROVE  LET x == CHOOSE x \in s : TRUE
             IN  /\ x \in s /\ s \ {x} \in SUBSET m /\ s \ {x} # m
                 /\ s \ {x} \in SUBSET s
                 /\ IsFiniteSet(s \ {x})
  <2>1. (CHOOSE x \in s : TRUE) \in s
    BY <1>4, Chosen
  <2>2. IsFiniteSet(s)
    BY FS_Subset
  <2>3. QED
    BY <2>1, <2>2, FS_RemoveElement
<1>5. ASSUME NEW s \in SUBSET m, s # m PROVE whole[s] = part[s]
  <2>1. Sums(f, G(s), s) /\ part[s] = G(s)[s]
    BY <1>3, <1>5
  <2>2. G(s)[s] = SumStep(f, G(s), s)
    BY <2>1, SumsAt
  <2>3. CASE s = {}
    BY <2>1, <2>2, <2>3 DEF SumStep
  <2>4. CASE s # {}
    <3> DEFINE x == CHOOSE x \in s : TRUE
               u == s \ {x}
    <3>1. u \in SUBSET m /\ u # m /\ u \in SUBSET s /\ IsFiniteSet(u)
      BY <1>4, <2>4
    <3>2. Sums(f, G(u), u)
      BY <1>3, <3>1
    <3>3. G(s)[u] = G(u)[u]
      BY <2>1, <3>1, <3>2, SumsAgree
    <3>4. part[u] = G(u)[u]
      BY <3>1
    <3>5. SumStep(f, G(s), s) = f[x] + G(s)[u] /\ SumStep(f, part, s) = f[x] + part[u]
      BY <2>4 DEF SumStep
    <3>6. QED
      BY <2>1, <2>2, <3>3, <3>4, <3>5
  <2>5. QED
    BY <2>3, <2>4
<1>6. ASSUME NEW s \in SUBSET m PROVE SumStep(f, part, s) = SumStep(f, whole, s)
  <2>1. CASE s = {}
    BY <2>1 DEF SumStep
  <2>2. CASE s # {}
    <3> DEFINE x == CHOOSE x \in s : TRUE
               u == s \ {x}
    <3>1. whole[u] = part[u]
      BY <1>4, <1>5, <2>2
    <3>2. SumStep(f, whole, s) = f[x] + whole[u] /\ SumStep(f, part, s) = f[x] + part[u]
      BY <2>2 DEF SumStep
    <3>3. QED
      BY <3>1, <3>2
  <2>3. QED
    BY <2>1, <2>2
<1>7. Sums(f, whole, m)
  BY <1>6 DEF Sums
<1>8. QED
  BY <1>2, <1>7

-----------------------------------------------------------------------------
\* The sum of a finite set, by the element that is chosen first.
LEMMA SumByChoice ==
    ASSUME NEW f, NEW S, IsFiniteSet(S)
    PROVE  /\ SumFunctionOnSet(f, {}) = 0
           /\ S # {} =>
                LET x == CHOOSE x \in S : TRUE
                IN  SumFunctionOnSet(f, S) = f[x] + SumFunctionOnSet(f, S \ {x})
<1> DEFINE G(s) == CHOOSE g : Sums(f, g, s)
<1>1. ASSUME NEW s, IsFiniteSet(s)
      PROVE  Sums(f, G(s), s) /\ SumFunctionOnSet(f, s) = G(s)[s]
  BY <1>1, SumsExist, SumIsChosen
<1>2. SumFunctionOnSet(f, {}) = 0
  <2>1. Sums(f, G({}), {}) /\ SumFunctionOnSet(f, {}) = G({})[{}]
    BY <1>1, FS_EmptySet
  <2>2. G({})[{}] = SumStep(f, G({}), {})
    BY <2>1, SumsAt
  <2>3. QED
    BY <2>1, <2>2 DEF SumStep
<1>3. ASSUME S # {}
      PROVE  LET x == CHOOSE x \in S : TRUE
             IN  SumFunctionOnSet(f, S) = f[x] + SumFunctionOnSet(f, S \ {x})
  <2> DEFINE x == CHOOSE x \in S : TRUE
             u == S \ {x}
  <2>1. IsFiniteSet(u) /\ u \subseteq S
    BY FS_RemoveElement
  <2>2. G(S)[S] = SumStep(f, G(S), S)
    BY <1>1, SumsAt
  <2>3. SumStep(f, G(S), S) = f[x] + G(S)[u]
    BY <1>3 DEF SumStep
  <2>4. G(S)[u] = G(u)[u]
    <3>1. Sums(f, G(S), S) /\ Sums(f, G(u), u)
      BY <1>1, <2>1
    <3> HIDE DEF G, u
    <3>2. QED
      BY <2>1, <3>1, SumsAgree
  <2>5. QED
    BY <1>1, <2>1, <2>2, <2>3, <2>4
<1>4. QED
  BY <1>2, <1>3

\* The sum of nothing.
LEMMA SumEmpty == ASSUME NEW f PROVE SumFunctionOnSet(f, {}) = 0
BY SumByChoice, FS_EmptySet

\* A sum of integers is an integer, of naturals a natural.
LEMMA SumType ==
    ASSUME NEW f, NEW N, N \in {Nat, Int}, NEW S, IsFiniteSet(S),
           \A x \in S : f[x] \in N
    PROVE  SumFunctionOnSet(f, S) \in N
<1> DEFINE T == {s \in SUBSET S : SumFunctionOnSet(f, s) \notin N}
<1>1. SUFFICES ASSUME T # {} PROVE FALSE
  OBVIOUS
<1>2. PICK m \in T : \A u \in T : ~(u \subseteq m /\ u # m)
  <2>1. T \in SUBSET (SUBSET S)
    OBVIOUS
  <2> HIDE DEF T
  <2>2. QED
    BY <1>1, <2>1, LeastSet
<1>3. m # {}
  <2>1. SumFunctionOnSet(f, {}) \in N
    BY SumEmpty
  <2>2. QED
    BY <2>1
<1> DEFINE c == CHOOSE x \in m : TRUE
<1>4. c \in m /\ IsFiniteSet(m)
  BY <1>3, Chosen, FS_Subset
<1>5. SumFunctionOnSet(f, m) = f[c] + SumFunctionOnSet(f, m \ {c})
  BY <1>3, <1>4, SumByChoice
<1>6. SumFunctionOnSet(f, m \ {c}) \in N
  BY <1>2, <1>4
<1>7. f[c] \in N
  BY <1>4
<1>8. QED
  BY <1>5, <1>6, <1>7

\* Any element of a finite set can be taken out of its sum.
LEMMA SumTakeOut ==
    ASSUME NEW f, NEW S, IsFiniteSet(S), \A x \in S : f[x] \in Int, NEW x \in S
    PROVE  SumFunctionOnSet(f, S) = f[x] + SumFunctionOnSet(f, S \ {x})
<1> DEFINE T == {s \in SUBSET S : \E y \in s :
                    SumFunctionOnSet(f, s) # f[y] + SumFunctionOnSet(f, s \ {y})}
<1>1. SUFFICES ASSUME T # {} PROVE FALSE
  OBVIOUS
<1>2. PICK m \in T : \A u \in T : ~(u \subseteq m /\ u # m)
  <2>1. T \in SUBSET (SUBSET S)
    OBVIOUS
  <2> HIDE DEF T
  <2>2. QED
    BY <1>1, <2>1, LeastSet
<1>3. PICK y \in m : SumFunctionOnSet(f, m) # f[y] + SumFunctionOnSet(f, m \ {y})
  OBVIOUS
<1> DEFINE c == CHOOSE z \in m : TRUE
           rest == (m \ {c}) \ {y}
<1>4. c \in m /\ IsFiniteSet(m)
  BY <1>3, Chosen, FS_Subset
<1>5. SumFunctionOnSet(f, m) = f[c] + SumFunctionOnSet(f, m \ {c})
  BY <1>3, <1>4, SumByChoice
<1>6. c # y
  BY <1>3, <1>5
<1>7. SumFunctionOnSet(f, m \ {c}) = f[y] + SumFunctionOnSet(f, rest)
  <2>1. m \ {c} \in SUBSET S /\ m \ {c} \notin T /\ y \in m \ {c}
    BY <1>2, <1>4, <1>6
  <2>2. QED
    BY <2>1
<1>8. SumFunctionOnSet(f, m \ {y}) = f[c] + SumFunctionOnSet(f, rest)
  <2>1. m \ {y} \in SUBSET S /\ m \ {y} \notin T /\ c \in m \ {y}
    BY <1>2, <1>4, <1>6
  <2>2. (m \ {y}) \ {c} = rest
    OBVIOUS
  <2>3. QED
    BY <2>1, <2>2
<1>9. SumFunctionOnSet(f, rest) \in Int
  <2>1. IsFiniteSet(rest) /\ \A z \in rest : f[z] \in Int
    BY <1>4, FS_RemoveElement
  <2>2. QED
    BY <2>1, SumType
<1>10. f[c] \in Int /\ f[y] \in Int
  BY <1>4
<1>11. QED
  BY <1>3, <1>5, <1>7, <1>8, <1>9, <1>10

\* The sum of a set and one more element.
LEMMA SumAdd ==
    ASSUME NEW f, NEW S, IsFiniteSet(S), NEW x, x \notin S,
           f[x] \in Int, \A y \in S : f[y] \in Int
    PROVE  SumFunctionOnSet(f, S \cup {x}) = f[x] + SumFunctionOnSet(f, S)
<1>1. IsFiniteSet(S \cup {x}) /\ (S \cup {x}) \ {x} = S
  BY FS_AddElement
<1>2. QED
  BY <1>1, SumTakeOut

LEMMA SumInt ==
    ASSUME NEW f, NEW S, IsFiniteSet(S), \A x \in S : f[x] \in Int
    PROVE  SumFunctionOnSet(f, S) \in Int
BY SumType

\* A sum depends only on the function's values on the set.
LEMMA SumSame ==
    ASSUME NEW f, NEW h, NEW S, IsFiniteSet(S), \A x \in S : f[x] = h[x]
    PROVE  SumFunctionOnSet(f, S) = SumFunctionOnSet(h, S)
<1> DEFINE T == {s \in SUBSET S : SumFunctionOnSet(f, s) # SumFunctionOnSet(h, s)}
<1>1. SUFFICES ASSUME T # {} PROVE FALSE
  OBVIOUS
<1>2. PICK m \in T : \A u \in T : ~(u \subseteq m /\ u # m)
  <2>1. T \in SUBSET (SUBSET S)
    OBVIOUS
  <2> HIDE DEF T
  <2>2. QED
    BY <1>1, <2>1, LeastSet
<1>3. m # {}
  BY SumEmpty
<1> DEFINE c == CHOOSE x \in m : TRUE
<1>4. c \in m /\ IsFiniteSet(m)
  BY <1>3, Chosen, FS_Subset
<1>5. /\ SumFunctionOnSet(f, m) = f[c] + SumFunctionOnSet(f, m \ {c})
      /\ SumFunctionOnSet(h, m) = h[c] + SumFunctionOnSet(h, m \ {c})
  BY <1>3, <1>4, SumByChoice
<1>6. SumFunctionOnSet(f, m \ {c}) = SumFunctionOnSet(h, m \ {c})
  BY <1>2, <1>4
<1>7. f[c] = h[c]
  BY <1>4
<1>8. QED
  BY <1>5, <1>6, <1>7

\* A sum of sums.
LEMMA SumPlus ==
    ASSUME NEW f, NEW g, NEW h, NEW S, IsFiniteSet(S),
           \A x \in S : f[x] \in Int /\ g[x] \in Int /\ h[x] = f[x] + g[x]
    PROVE  SumFunctionOnSet(h, S) = SumFunctionOnSet(f, S) + SumFunctionOnSet(g, S)
<1> DEFINE T == {s \in SUBSET S : SumFunctionOnSet(h, s) #
                    SumFunctionOnSet(f, s) + SumFunctionOnSet(g, s)}
<1>1. SUFFICES ASSUME T # {} PROVE FALSE
  OBVIOUS
<1>2. PICK m \in T : \A u \in T : ~(u \subseteq m /\ u # m)
  <2>1. T \in SUBSET (SUBSET S)
    OBVIOUS
  <2> HIDE DEF T
  <2>2. QED
    BY <1>1, <2>1, LeastSet
<1>3. m # {}
  <2>1. /\ SumFunctionOnSet(f, {}) = 0 /\ SumFunctionOnSet(g, {}) = 0
        /\ SumFunctionOnSet(h, {}) = 0
    BY SumEmpty
  <2>2. SumFunctionOnSet(h, m) # SumFunctionOnSet(f, m) + SumFunctionOnSet(g, m)
    OBVIOUS
  <2>3. 0 = 0 + 0
    OBVIOUS
  <2> HIDE DEF T
  <2>4. QED
    BY <2>1, <2>2, <2>3
<1> DEFINE c == CHOOSE x \in m : TRUE
<1>4. c \in m /\ IsFiniteSet(m) /\ IsFiniteSet(m \ {c})
  BY <1>3, Chosen, FS_Subset, FS_RemoveElement
<1>5. /\ SumFunctionOnSet(f, m) = f[c] + SumFunctionOnSet(f, m \ {c})
      /\ SumFunctionOnSet(g, m) = g[c] + SumFunctionOnSet(g, m \ {c})
      /\ SumFunctionOnSet(h, m) = h[c] + SumFunctionOnSet(h, m \ {c})
  BY <1>3, <1>4, SumByChoice
<1>6. SumFunctionOnSet(h, m \ {c}) = SumFunctionOnSet(f, m \ {c}) + SumFunctionOnSet(g, m \ {c})
  BY <1>2, <1>4
<1>7. f[c] \in Int /\ g[c] \in Int /\ h[c] = f[c] + g[c]
  BY <1>4
<1>8. SumFunctionOnSet(f, m \ {c}) \in Int /\ SumFunctionOnSet(g, m \ {c}) \in Int
  BY <1>4, SumType
<1>9. QED
  BY <1>5, <1>6, <1>7, <1>8

\* A sum of zeros.
LEMMA SumZero ==
    ASSUME NEW f, NEW S, IsFiniteSet(S), \A x \in S : f[x] = 0
    PROVE  SumFunctionOnSet(f, S) = 0
<1> DEFINE T == {s \in SUBSET S : SumFunctionOnSet(f, s) # 0}
<1>1. SUFFICES ASSUME T # {} PROVE FALSE
  OBVIOUS
<1>2. PICK m \in T : \A u \in T : ~(u \subseteq m /\ u # m)
  <2>1. T \in SUBSET (SUBSET S)
    OBVIOUS
  <2> HIDE DEF T
  <2>2. QED
    BY <1>1, <2>1, LeastSet
<1>3. m # {}
  BY SumEmpty
<1> DEFINE c == CHOOSE x \in m : TRUE
<1>4. c \in m /\ IsFiniteSet(m)
  BY <1>3, Chosen, FS_Subset
<1>5. SumFunctionOnSet(f, m) = f[c] + SumFunctionOnSet(f, m \ {c})
  BY <1>3, <1>4, SumByChoice
<1>6. SumFunctionOnSet(f, m \ {c}) = 0
  BY <1>2, <1>4
<1>7. f[c] = 0
  BY <1>4
<1>8. QED
  BY <1>5, <1>6, <1>7

\* A sum of nothing positive.
LEMMA SumNotPositive ==
    ASSUME NEW f, NEW S, IsFiniteSet(S), \A x \in S : f[x] \in Int /\ f[x] <= 0
    PROVE  SumFunctionOnSet(f, S) \in Int /\ SumFunctionOnSet(f, S) <= 0
<1> DEFINE g == [x \in S |-> -f[x]]
           z == [x \in S |-> 0]
<1>1. \A x \in S : g[x] \in Nat /\ g[x] \in Int /\ z[x] = 0 /\ z[x] = f[x] + g[x]
  OBVIOUS
<1> HIDE DEF g, z
<1>2. SumFunctionOnSet(g, S) \in Nat
  BY <1>1, SumType
<1>3. SumFunctionOnSet(f, S) \in Int
  BY SumInt
<1>4. SumFunctionOnSet(z, S) = 0
  BY <1>1, SumZero
<1>5. SumFunctionOnSet(z, S) = SumFunctionOnSet(f, S) + SumFunctionOnSet(g, S)
  BY <1>1, SumPlus
<1>6. QED
  BY <1>2, <1>3, <1>4, <1>5

\* The sum of two sets that have nothing in common.
LEMMA SumUnion ==
    ASSUME NEW f, NEW R, NEW Q, IsFiniteSet(R), IsFiniteSet(Q), R \cap Q = {},
           \A x \in R \cup Q : f[x] \in Int
    PROVE  SumFunctionOnSet(f, R \cup Q) = SumFunctionOnSet(f, R) + SumFunctionOnSet(f, Q)
<1> DEFINE T == {s \in SUBSET Q : SumFunctionOnSet(f, R \cup s) #
                    SumFunctionOnSet(f, R) + SumFunctionOnSet(f, s)}
<1>1. SUFFICES ASSUME T # {} PROVE FALSE
  OBVIOUS
<1>2. PICK m \in T : \A u \in T : ~(u \subseteq m /\ u # m)
  <2>1. T \in SUBSET (SUBSET Q)
    OBVIOUS
  <2> HIDE DEF T
  <2>2. QED
    BY <1>1, <2>1, LeastSet
<1>3. IsFiniteSet(m) /\ IsFiniteSet(R \cup m)
  BY FS_Subset, FS_Union
<1>4. SumFunctionOnSet(f, R) \in Int
  BY SumType
<1>5. m # {}
  <2>1. R \cup {} = R
    OBVIOUS
  <2>2. SumFunctionOnSet(f, {}) = 0
    BY SumEmpty
  <2>3. SumFunctionOnSet(f, R \cup m) # SumFunctionOnSet(f, R) + SumFunctionOnSet(f, m)
    OBVIOUS
  <2>4. SumFunctionOnSet(f, R) = SumFunctionOnSet(f, R) + 0
    BY <1>4
  <2> HIDE DEF T
  <2>5. QED
    BY <2>1, <2>2, <2>3, <2>4
<1>6. PICK x \in m : TRUE
  BY <1>5
<1>7. /\ SumFunctionOnSet(f, m) = f[x] + SumFunctionOnSet(f, m \ {x})
      /\ SumFunctionOnSet(f, R \cup m) = f[x] + SumFunctionOnSet(f, R \cup (m \ {x}))
  <2>1. SumFunctionOnSet(f, m) = f[x] + SumFunctionOnSet(f, m \ {x})
    BY <1>3, SumTakeOut
  <2>2. SumFunctionOnSet(f, R \cup m) = f[x] + SumFunctionOnSet(f, (R \cup m) \ {x})
    BY <1>3, SumTakeOut
  <2>3. (R \cup m) \ {x} = R \cup (m \ {x})
    OBVIOUS
  <2>4. QED
    BY <2>1, <2>2, <2>3
<1>8. SumFunctionOnSet(f, R \cup (m \ {x})) = SumFunctionOnSet(f, R) + SumFunctionOnSet(f, m \ {x})
  BY <1>2, <1>6
<1>9. SumFunctionOnSet(f, m \ {x}) \in Int /\ f[x] \in Int
  BY <1>3, FS_RemoveElement, SumType
<1>10. QED
  BY <1>4, <1>7, <1>8, <1>9

\* Every x of S is in the class class[x], and part gives the sums of classes.
SumsOfClasses(f, S, class, part, K) ==
    /\ IsFiniteSet(S)
    /\ \A x \in S : f[x] \in Int
    /\ IsFiniteSet(K)
    /\ \A x \in S : class[x] \in K
    /\ \A p \in K : part[p] = SumFunctionOnSet(f, {x \in S : class[x] = p})

\* A sum is that of the sums of its classes.
LEMMA SumByClass ==
    ASSUME NEW f, NEW S, NEW class, NEW part, NEW K, SumsOfClasses(f, S, class, part, K)
    PROVE  SumFunctionOnSet(part, K) = SumFunctionOnSet(f, S)
<1> USE DEF SumsOfClasses
<1> DEFINE In(k) == {x \in S : class[x] \in k}
           T == {k \in SUBSET K : SumFunctionOnSet(part, k) # SumFunctionOnSet(f, In(k))}
<1>1. ASSUME T # {} PROVE FALSE
  <2>1. PICK m \in T : \A u \in T : ~(u \subseteq m /\ u # m)
    <3>1. T \in SUBSET (SUBSET K)
      OBVIOUS
    <3> HIDE DEF T
    <3>2. QED
      BY <1>1, <3>1, LeastSet
  <2>2. m # {}
    <3>1. In({}) = {}
      OBVIOUS
    <3>2. QED
      BY <3>1, SumEmpty
  <2> DEFINE c == CHOOSE p \in m : TRUE
  <2>3. c \in m /\ IsFiniteSet(m)
    BY <2>2, Chosen, FS_Subset
  <2>4. SumFunctionOnSet(part, m) = part[c] + SumFunctionOnSet(part, m \ {c})
    BY <2>2, <2>3, SumByChoice
  <2>5. SumFunctionOnSet(part, m \ {c}) = SumFunctionOnSet(f, In(m \ {c}))
    BY <2>1, <2>3
  <2>6. SumFunctionOnSet(f, In(m)) = SumFunctionOnSet(f, In({c})) + SumFunctionOnSet(f, In(m \ {c}))
    <3>1. In(m) = In({c}) \cup In(m \ {c}) /\ In({c}) \cap In(m \ {c}) = {}
      BY <2>3
    <3>2. IsFiniteSet(In({c})) /\ IsFiniteSet(In(m \ {c}))
      <4>1. In({c}) \subseteq S /\ In(m \ {c}) \subseteq S
        OBVIOUS
      <4> HIDE DEF In
      <4>2. QED
        BY <4>1, FS_Subset
    <3>3. \A x \in In({c}) \cup In(m \ {c}) : f[x] \in Int
      OBVIOUS
    <3> DEFINE A == In({c})
               B == In(m \ {c})
    <3>4. IsFiniteSet(A) /\ IsFiniteSet(B) /\ A \cap B = {} /\ \A x \in A \cup B : f[x] \in Int
      BY <3>1, <3>2, <3>3
    <3> HIDE DEF In, A, B
    <3>5. SumFunctionOnSet(f, A \cup B) = SumFunctionOnSet(f, A) + SumFunctionOnSet(f, B)
      BY <3>4, SumUnion
    <3>6. QED
      BY <3>1, <3>5 DEF A, B
  <2>7. part[c] = SumFunctionOnSet(f, In({c}))
    <3>1. In({c}) = {x \in S : class[x] = c}
      OBVIOUS
    <3>2. QED
      BY <2>3, <3>1
  <2>8. QED
    BY <2>1, <2>4, <2>5, <2>6, <2>7
<1>2. In(K) = S
  OBVIOUS
<1>3. K \notin T
  BY <1>1
<1>4. QED
  BY <1>2, <1>3

-----------------------------------------------------------------------------
(* Arithmetic that the filing of a month needs.                             *)

LEMMA TimesGrows ==
    ASSUME NEW a \in Nat, NEW b \in Nat, NEW d \in Nat, a <= b
    PROVE  a * d <= b * d
<1>1. PICK k \in Nat : b = a + k
  <2>1. b - a \in Nat /\ b = a + (b - a)
    OBVIOUS
  <2>2. QED
    BY <2>1
<1>2. (a + k) * d = a * d + k * d
  OBVIOUS
<1>3. a * d \in Nat /\ k * d \in Nat
  OBVIOUS
<1>4. QED
  BY <1>1, <1>2, <1>3

LEMMA DivMod ==
    ASSUME NEW n \in Nat, NEW d \in Nat \ {0}
    PROVE  /\ n \div d \in Nat
           /\ n % d \in 0 .. (d - 1)
           /\ n = (n \div d) * d + (n % d)
<1>1. n \div d \in Nat
  OBVIOUS
<1>2. n % d \in 0 .. (d - 1)
  OBVIOUS
<1>3. n = (n \div d) * d + (n % d)
  OBVIOUS
<1>4. QED
  BY <1>1, <1>2, <1>3

\* Within a month the day before is of the same month.
LEMMA DayBefore ==
    ASSUME NEW n \in Nat, NEW d \in Nat \ {0}, n % d # 0
    PROVE  (n - 1) \div d = n \div d
<1> DEFINE q == n \div d
           r == n % d
<1>1. q \in Nat /\ r \in 1 .. (d - 1) /\ n = q * d + r
  BY DivMod
<1> HIDE DEF q, r
<1>2. q * d \in Nat
  BY <1>1
<1>3. n - 1 \in Nat
  BY <1>1, <1>2
<1> DEFINE p == (n - 1) \div d
           t == (n - 1) % d
<1>4. p \in Nat /\ t \in 0 .. (d - 1) /\ n - 1 = p * d + t
  BY <1>3, DivMod
<1> HIDE DEF p, t
<1>5. p * d \in Nat /\ (p + 1) * d = p * d + d /\ (q + 1) * d = q * d + d
  BY <1>1, <1>4
<1>6. CASE p <= q /\ q <= p
  BY <1>1, <1>4, <1>6 DEF p, q
<1>7. CASE ~(p <= q)
  <2>1. (q + 1) * d <= p * d
    BY <1>1, <1>4, <1>7, TimesGrows
  <2>2. QED
    BY <1>1, <1>2, <1>4, <1>5, <2>1
<1>8. CASE ~(q <= p)
  <2>1. (p + 1) * d <= q * d
    BY <1>1, <1>4, <1>8, TimesGrows
  <2>2. QED
    BY <1>1, <1>2, <1>4, <1>5, <2>1
<1>9. QED
  BY <1>6, <1>7, <1>8

\* A day lies inside the month it falls in, unless it is a month's last one.
LEMMA InsideOneMonth ==
    ASSUME NEW n \in Nat, NEW d \in Nat \ {0}, NEW last \in Nat, n <= last * d
    PROVE  {m \in 1 .. last : n \in (m - 1) * d + 1 .. m * d - 1} =
               IF n % d = 0 THEN {} ELSE {(n \div d) + 1}
<1> DEFINE q == n \div d
           r == n % d
<1>1. q \in Nat /\ r \in 0 .. (d - 1) /\ n = q * d + r
  BY DivMod
<1> HIDE DEF q, r
<1>2. q * d \in Nat /\ (q + 1) * d \in Nat /\ (q + 1) * d = q * d + d
  BY <1>1
<1>3. ASSUME NEW m \in 1 .. last, n \in (m - 1) * d + 1 .. m * d - 1
      PROVE  m = q + 1 /\ r # 0
  <2>1. /\ (m - 1) * d \in Nat /\ m * d \in Nat
        /\ (m - 1) * d < n /\ n < m * d
    BY <1>3
  <2>2. ~(m <= q)
    <3>1. m <= q => m * d <= q * d
      BY <1>1, TimesGrows
    <3>2. QED
      BY <1>1, <1>2, <2>1, <3>1
  <2>3. ~(q + 1 <= m - 1)
    <3>1. q + 1 <= m - 1 => (q + 1) * d <= (m - 1) * d
      BY <1>1, TimesGrows
    <3>2. QED
      BY <1>1, <1>2, <2>1, <3>1
  <2>4. m = q + 1
    BY <1>1, <2>2, <2>3
  <2>5. (m - 1) * d = q * d
    BY <1>1, <2>4
  <2>6. QED
    BY <1>1, <1>2, <2>1, <2>4, <2>5
<1>4. ASSUME NEW m, m = q + 1, r # 0
      PROVE  m \in 1 .. last /\ n \in (m - 1) * d + 1 .. m * d - 1
  <2>1. q * d + 1 <= n /\ n <= (q + 1) * d - 1
    BY <1>1, <1>2, <1>4
  <2>2. ~(last <= q)
    <3>1. last <= q => last * d <= q * d
      BY <1>1, TimesGrows
    <3>2. last * d \in Nat
      OBVIOUS
    <3>3. QED
      BY <1>1, <1>2, <2>1, <3>1, <3>2
  <2>3. (m - 1) * d = q * d /\ m * d = (q + 1) * d
    BY <1>1, <1>4
  <2>4. n \in (m - 1) * d + 1 .. m * d - 1
    BY <1>1, <1>2, <2>1, <2>3
  <2>5. m \in 1 .. last
    BY <1>1, <1>4, <2>2
  <2>6. QED
    BY <2>4, <2>5
<1>5. CASE r = 0
  <2>1. {m \in 1 .. last : n \in (m - 1) * d + 1 .. m * d - 1} = {}
    BY <1>3, <1>5
  <2>2. QED
    BY <1>5, <2>1 DEF r
<1>6. CASE r # 0
  <2>1. {m \in 1 .. last : n \in (m - 1) * d + 1 .. m * d - 1} = {q + 1}
    <3> DEFINE In(m) == n \in (m - 1) * d + 1 .. m * d - 1
    <3>1. ASSUME NEW m \in 1 .. last, In(m) PROVE m = q + 1
      BY <1>3, <3>1
    <3>2. ASSUME NEW m, m = q + 1 PROVE m \in 1 .. last /\ In(m)
      BY <1>4, <1>6, <3>2
    <3> HIDE DEF In
    <3>3. {m \in 1 .. last : In(m)} = {q + 1}
      BY <3>1, <3>2
    <3>4. QED
      BY <3>3 DEF In
  <2>2. QED
    BY <1>6, <2>1 DEF q, r
<1>7. QED
  BY <1>5, <1>6
=============================================================================
