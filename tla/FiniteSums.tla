----------------------------- MODULE FiniteSums -----------------------------
(***************************************************************************)
(* What a sum over a finite set and a fold over a sequence are: a fold is  *)
(* a function chosen for its recursive equation; it exists, because there  *)
(* is one for sets of every size, and any two are the same, because there  *)
(* is no smallest set on which they differ.                                *)
(***************************************************************************)
EXTENDS SequencesExt, Integers, FiniteSetTheorems, NaturalsInduction, TLAPS

-----------------------------------------------------------------------------
(* Sums over finite sets *)

\* The least-number principle, of a set.
LEMMA LeastNumber ==
    ASSUME NEW S \in SUBSET Nat, S # {}
    PROVE  \E n \in S : \A m \in S : ~(m < n)
  <1>1. PICK n \in S : \A m \in S : <<m, n>> \notin OpToRel(<, Nat)
    BY NatLessThanWellFounded, WFMin
  <1>. QED
    BY <1>1 DEF OpToRel

\* Of the sets in a collection of finite sets one is smallest.
LEMMA SmallestSet ==
    ASSUME NEW T, T # {}, \A X \in T : IsFiniteSet(X)
    PROVE  \E X \in T : \A Y \in T : ~(Cardinality(Y) < Cardinality(X))
  <1>. DEFINE N == {Cardinality(X) : X \in T}
  <1>1. N \in SUBSET Nat /\ N # {}
    BY FS_CardinalityType
  <1>. HIDE DEF N
  <1>2. PICK n \in N : \A m \in N : ~(m < n)
    BY <1>1, LeastNumber
  <1>. QED
    BY <1>2 DEF N

Chosen(s) == CHOOSE x \in s : TRUE

\* h gives the sum of f over every subset of S.
Sums(h, f, S) ==
    h = [s \in SUBSET S |-> IF s = {} THEN 0 ELSE f[Chosen(s)] + h[s \ {Chosen(s)}]]

Total(f, S) == (CHOOSE h : Sums(h, f, S))[S]

LEMMA ChosenIn ==
    ASSUME NEW s, s # {}, IsFiniteSet(s)
    PROVE  /\ Chosen(s) \in s /\ IsFiniteSet(s \ {Chosen(s)})
           /\ Cardinality(s) \in Nat /\ Cardinality(s \ {Chosen(s)}) = Cardinality(s) - 1
           /\ Cardinality(s \ {Chosen(s)}) \in Nat
  <1>1. Chosen(s) \in s
    BY DEF Chosen
  <1>. QED
    BY <1>1, FS_RemoveElement, FS_CardinalityType

LEMMA ChosenSmaller ==
    ASSUME NEW s, s # {}, IsFiniteSet(s)
    PROVE  Chosen(s) \in s /\ Cardinality(s \ {Chosen(s)}) < Cardinality(s)
  <1>1. /\ Chosen(s) \in s /\ Cardinality(s) \in Nat
        /\ Cardinality(s \ {Chosen(s)}) = Cardinality(s) - 1
    BY ChosenIn
  <1>2. \A n \in Nat : n - 1 < n
    OBVIOUS
  <1>. QED
    BY <1>1, <1>2

\* There is such a function.
LEMMA SumsExist ==
    ASSUME NEW f, NEW S, IsFiniteSet(S)
    PROVE  \E h : Sums(h, f, S)
  <1>. DEFINE Upto(n) == {s \in SUBSET S : Cardinality(s) <= n}
              SumsUpto(h, n) ==
                  h = [s \in Upto(n) |->
                          IF s = {} THEN 0 ELSE f[Chosen(s)] + h[s \ {Chosen(s)}]]
              Bad == {n \in Nat : ~\E h : SumsUpto(h, n)}
  <1>1. \A s \in SUBSET S : IsFiniteSet(s) /\ Cardinality(s) \in Nat
    BY FS_Subset, FS_CardinalityType
  <1>2. SUFFICES ASSUME Bad # {} PROVE FALSE
    <2>1. Cardinality(S) \in Nat \ Bad
      BY <1>1, <1>2
    <2>2. Upto(Cardinality(S)) = SUBSET S
      <3>1. \A s \in SUBSET S : Cardinality(s) <= Cardinality(S)
        BY FS_Subset
      <3>. QED
        BY <3>1
    <2>. QED
      BY <2>1, <2>2 DEF Sums
  <1>3. PICK n \in Bad : \A m \in Bad : ~(m < n)
    <2>1. Bad \in SUBSET Nat
      OBVIOUS
    <2>. HIDE DEF Bad
    <2>. QED
      BY <1>2, <2>1, LeastNumber
  <1>4. CASE n = 0
    <2>1. Upto(0) = {{}}
      <3>1. ASSUME NEW s \in SUBSET S PROVE Cardinality(s) <= 0 <=> s = {}
        BY <1>1, FS_EmptySet
      <3>. QED
        BY <3>1
    <2>2. SumsUpto([s \in Upto(0) |-> 0], 0)
      BY <2>1
    <2>. QED
      BY <1>3, <1>4, <2>2
  <1>5. CASE n # 0
    <2>1. n - 1 \in Nat /\ n - 1 < n
      BY <1>3, <1>5
    <2>2. PICK g : SumsUpto(g, n - 1)
      BY <1>3, <2>1
    <2>. DEFINE h == [s \in Upto(n) |-> IF s = {} THEN 0 ELSE f[Chosen(s)] + g[s \ {Chosen(s)}]]
    <2>3. ASSUME NEW s \in Upto(n), s # {} PROVE g[s \ {Chosen(s)}] = h[s \ {Chosen(s)}]
      <3>. DEFINE t == s \ {Chosen(s)}
      <3>1. Cardinality(t) = Cardinality(s) - 1 /\ Cardinality(s) \in Nat /\ t \in SUBSET S
        BY <1>1, <2>3, ChosenIn
      <3>2. t \in Upto(n - 1) /\ t \in Upto(n)
        BY <1>3, <3>1
      <3>. HIDE DEF t
      <3>. QED
        BY <2>2, <3>2 DEF t
    <2>. HIDE DEF h
    <2>4. h = [s \in Upto(n) |-> IF s = {} THEN 0 ELSE f[Chosen(s)] + h[s \ {Chosen(s)}]]
      BY <2>3 DEF h
    <2>. QED
      BY <1>3, <2>4
  <1>. QED
    BY <1>4, <1>5

\* Sums of functions that agree are the same.
Agree(f, g, S) == \A x \in S : f[x] = g[x]
Both(S1, S2) == (SUBSET S1) \cap (SUBSET S2)

LEMMA SumsAgree ==
    ASSUME NEW f1, NEW f2, NEW S1, NEW S2, NEW T \in Both(S1, S2), IsFiniteSet(T),
           NEW h1, NEW h2, Sums(h1, f1, S1), Sums(h2, f2, S2), Agree(f1, f2, T)
    PROVE  h1[T] = h2[T]
  <1> USE DEF Both, Agree
  <1>. DEFINE Bad == {s \in SUBSET T : h1[s] # h2[s]}
  <1>1. SUFFICES ASSUME Bad # {} PROVE FALSE
    OBVIOUS
  <1>2. \A s \in Bad : IsFiniteSet(s)
    BY FS_Subset
  <1>3. PICK s \in Bad : \A t \in Bad : ~(Cardinality(t) < Cardinality(s))
    <2>. HIDE DEF Bad
    <2>. QED
      BY <1>1, <1>2, SmallestSet
  <1>4. /\ h1[s] = IF s = {} THEN 0 ELSE f1[Chosen(s)] + h1[s \ {Chosen(s)}]
        /\ h2[s] = IF s = {} THEN 0 ELSE f2[Chosen(s)] + h2[s \ {Chosen(s)}]
    BY DEF Sums
  <1>5. s # {}
    BY <1>4
  <1>6. Chosen(s) \in s /\ Cardinality(s \ {Chosen(s)}) < Cardinality(s)
    BY <1>2, <1>5, ChosenSmaller
  <1>7. s \ {Chosen(s)} \notin Bad
    <2>. HIDE DEF Bad
    <2>. QED
      BY <1>3, <1>6
  <1>8. h1[s \ {Chosen(s)}] = h2[s \ {Chosen(s)}] /\ f1[Chosen(s)] = f2[Chosen(s)]
    BY <1>6, <1>7
  <1>. QED
    BY <1>4, <1>8

LEMMA TotalSums ==
    ASSUME NEW f, NEW S, IsFiniteSet(S), NEW h, Sums(h, f, S)
    PROVE  h[S] = Total(f, S)
  <1>1. Sums(CHOOSE g : Sums(g, f, S), f, S)
    OBVIOUS
  <1>. DEFINE k == CHOOSE g : Sums(g, f, S)
  <1>2. Sums(k, f, S)
    BY <1>1
  <1>. HIDE DEF k
  <1>3. S \in Both(S, S) /\ Agree(f, f, S)
    BY DEF Both, Agree
  <1>4. h[S] = k[S]
    BY <1>2, <1>3, SumsAgree
  <1>. QED
    BY <1>4 DEF Total, k

LEMMA TotalAgree ==
    ASSUME NEW f, NEW g, NEW S, IsFiniteSet(S), \A x \in S : f[x] = g[x]
    PROVE  Total(f, S) = Total(g, S)
  <1>1. PICK h1 : Sums(h1, f, S)
    BY SumsExist
  <1>2. PICK h2 : Sums(h2, g, S)
    BY SumsExist
  <1>4. h1[S] = h2[S]
    <2>1. S \in Both(S, S) /\ Agree(f, g, S)
      BY DEF Both, Agree
    <2>. QED
      BY <1>1, <1>2, <2>1, SumsAgree
  <1>. QED
    BY <1>1, <1>2, <1>4, TotalSums

LEMMA TotalEmpty ==
    ASSUME NEW f
    PROVE  Total(f, {}) = 0
  <1>1. IsFiniteSet({})
    BY FS_EmptySet
  <1>2. PICK h : Sums(h, f, {})
    BY <1>1, SumsExist
  <1>3. h[{}] = 0
    BY <1>2 DEF Sums
  <1>. QED
    BY <1>1, <1>2, <1>3, TotalSums

LEMMA TotalChosen ==
    ASSUME NEW f, NEW S, IsFiniteSet(S), S # {}
    PROVE  Total(f, S) = f[Chosen(S)] + Total(f, S \ {Chosen(S)})
  <1>. DEFINE T == S \ {Chosen(S)}
  <1>1. IsFiniteSet(T)
    BY ChosenIn
  <1>2. PICK h : Sums(h, f, S)
    BY SumsExist
  <1>3. PICK g : Sums(g, f, T)
    BY <1>1, SumsExist
  <1>4. h[S] = f[Chosen(S)] + h[T]
    BY <1>2 DEF Sums
  <1>5. T \in SUBSET S
    OBVIOUS
  <1>. HIDE DEF T
  <1>6. h[T] = g[T]
    <2>1. T \in Both(S, T) /\ Agree(f, f, T)
      BY <1>5 DEF Both, Agree
    <2>. QED
      BY <1>1, <1>2, <1>3, <2>1, SumsAgree
  <1>7. Total(f, S) = f[Chosen(S)] + Total(f, T)
    BY <1>1, <1>2, <1>3, <1>4, <1>6, TotalSums
  <1>. QED
    BY <1>7 DEF T

LEMMA TotalType ==
    ASSUME NEW f, NEW S, IsFiniteSet(S), \A x \in S : f[x] \in Int
    PROVE  Total(f, S) \in Int
  <1>. DEFINE Bad == {s \in SUBSET S : Total(f, s) \notin Int}
  <1>1. SUFFICES ASSUME Bad # {} PROVE FALSE
    OBVIOUS
  <1>2. \A s \in Bad : IsFiniteSet(s) /\ s \in SUBSET S /\ Total(f, s) \notin Int
    BY FS_Subset
  <1>3. PICK s \in Bad : \A t \in Bad : ~(Cardinality(t) < Cardinality(s))
    <2>. HIDE DEF Bad
    <2>. QED
      BY <1>1, <1>2, SmallestSet
  <1>4. s # {}
    BY <1>2, TotalEmpty
  <1>. DEFINE c == Chosen(s)
  <1>5. c \in s /\ Cardinality(s \ {c}) < Cardinality(s)
    BY <1>2, <1>4, ChosenSmaller
  <1>6. Total(f, s) = f[c] + Total(f, s \ {c})
    BY <1>2, <1>4, TotalChosen
  <1>. HIDE DEF c
  <1>7. Total(f, s \ {c}) \in Int
    BY <1>2, <1>3, <1>5
  <1>8. f[c] \in Int
    BY <1>2, <1>5
  <1>. QED
    BY <1>2, <1>6, <1>7, <1>8

\* One element of the sum may be taken out.
LEMMA TotalRemove ==
    ASSUME NEW f, NEW S, IsFiniteSet(S), \A y \in S : f[y] \in Int, NEW x \in S
    PROVE  Total(f, S) = f[x] + Total(f, S \ {x})
  <1>. DEFINE Bad == {s \in SUBSET S : \E y \in s : Total(f, s) # f[y] + Total(f, s \ {y})}
  <1>1. SUFFICES ASSUME Bad # {} PROVE FALSE
    OBVIOUS
  <1>2. \A s \in SUBSET S : IsFiniteSet(s) /\ Total(f, s) \in Int
    BY FS_Subset, TotalType
  <1>3. PICK s \in Bad : \A t \in Bad : ~(Cardinality(t) < Cardinality(s))
    <2>1. \A t \in Bad : IsFiniteSet(t)
      BY <1>2
    <2>. HIDE DEF Bad
    <2>. QED
      BY <1>1, <2>1, SmallestSet
  <1>4. PICK y \in s : Total(f, s) # f[y] + Total(f, s \ {y})
    OBVIOUS
  <1>5. IsFiniteSet(s) /\ s # {} /\ s \in SUBSET S
    BY <1>2, <1>4
  <1>. DEFINE c == Chosen(s)
  <1>6. c \in s /\ Cardinality(s \ {c}) < Cardinality(s)
    BY <1>5, ChosenSmaller
  <1>7. Total(f, s) = f[c] + Total(f, s \ {c})
    BY <1>5, TotalChosen
  <1>. HIDE DEF c
  <1>8. c # y
    BY <1>4, <1>7
  <1>9. Total(f, s \ {c}) = f[y] + Total(f, (s \ {c}) \ {y})
    BY <1>3, <1>4, <1>5, <1>6, <1>8
  <1>10. Cardinality(s \ {y}) < Cardinality(s)
    <2>1. Cardinality(s) \in Nat /\ Cardinality(s \ {y}) = Cardinality(s) - 1
      BY <1>5, FS_RemoveElement, FS_CardinalityType
    <2>2. \A n \in Nat : n - 1 < n
      OBVIOUS
    <2>. QED
      BY <2>1, <2>2
  <1>11. Total(f, s \ {y}) = f[c] + Total(f, (s \ {y}) \ {c})
    BY <1>3, <1>5, <1>6, <1>8, <1>10
  <1>12. (s \ {y}) \ {c} = (s \ {c}) \ {y}
    OBVIOUS
  <1>13. PICK u \in Int : u = Total(f, (s \ {c}) \ {y})
    BY <1>2, <1>5
  <1>14. f[c] \in Int /\ f[y] \in Int
    BY <1>5, <1>6
  <1>15. PICK a \in Int, b \in Int : a = f[c] /\ b = f[y]
    BY <1>14
  <1>16. Total(f, s) = a + (b + u) /\ Total(f, s \ {y}) = a + u
    BY <1>7, <1>9, <1>11, <1>12, <1>13, <1>15
  <1>17. a + (b + u) = b + (a + u)
    OBVIOUS
  <1>. QED
    BY <1>4, <1>15, <1>16, <1>17

\* One term of the sum may be changed.
LEMMA TotalChange ==
    ASSUME NEW f, NEW g, NEW S, IsFiniteSet(S), NEW x \in S,
           \A y \in S : f[y] \in Int /\ g[y] \in Int,
           \A y \in S : y # x => f[y] = g[y]
    PROVE  /\ Total(f, S) \in Int /\ Total(g, S) \in Int
           /\ Total(g, S) = Total(f, S) - f[x] + g[x]
  <1>. DEFINE T == S \ {x}
  <1>1. IsFiniteSet(T) /\ \A y \in T : f[y] = g[y] /\ f[y] \in Int
    BY FS_Subset
  <1>2. Total(f, S) = f[x] + Total(f, T) /\ Total(g, S) = g[x] + Total(g, T)
    BY TotalRemove
  <1>. HIDE DEF T
  <1>3. Total(f, T) = Total(g, T) /\ Total(f, T) \in Int
    BY <1>1, TotalAgree, TotalType
  <1>4. f[x] \in Int /\ g[x] \in Int
    OBVIOUS
  <1>. QED
    BY <1>2, <1>3, <1>4

\* A sum of naturals is a natural, and bounds each of them.
LEMMA TotalNat ==
    ASSUME NEW f, NEW S, IsFiniteSet(S), \A x \in S : f[x] \in Nat
    PROVE  Total(f, S) \in Nat
  <1>. DEFINE Bad == {s \in SUBSET S : Total(f, s) \notin Nat}
  <1>1. SUFFICES ASSUME Bad # {} PROVE FALSE
    OBVIOUS
  <1>2. \A s \in Bad : IsFiniteSet(s) /\ s \in SUBSET S /\ Total(f, s) \notin Nat
    BY FS_Subset
  <1>3. PICK s \in Bad : \A t \in Bad : ~(Cardinality(t) < Cardinality(s))
    <2>. HIDE DEF Bad
    <2>. QED
      BY <1>1, <1>2, SmallestSet
  <1>4. s # {}
    BY <1>2, TotalEmpty
  <1>. DEFINE c == Chosen(s)
  <1>5. c \in s /\ Cardinality(s \ {c}) < Cardinality(s)
    BY <1>2, <1>4, ChosenSmaller
  <1>6. Total(f, s) = f[c] + Total(f, s \ {c})
    BY <1>2, <1>4, TotalChosen
  <1>. HIDE DEF c
  <1>7. Total(f, s \ {c}) \in Nat
    BY <1>2, <1>3, <1>5
  <1>8. f[c] \in Nat
    BY <1>2, <1>5
  <1>. QED
    BY <1>2, <1>6, <1>7, <1>8

LEMMA TotalBounds ==
    ASSUME NEW f, NEW S, IsFiniteSet(S), \A x \in S : f[x] \in Nat, NEW x \in S
    PROVE  f[x] <= Total(f, S) /\ Total(f, S) \in Nat /\ f[x] \in Nat
  <1>. DEFINE T == S \ {x}
  <1>1. IsFiniteSet(T) /\ \A y \in T : f[y] \in Nat
    BY FS_Subset
  <1>2. Total(f, S) = f[x] + Total(f, T)
    BY TotalRemove
  <1>. HIDE DEF T
  <1>3. Total(f, T) \in Nat /\ f[x] \in Nat
    BY <1>1, TotalNat
  <1>. QED
    BY <1>2, <1>3

\* A sum of smaller terms is smaller.
LEMMA TotalAtMost ==
    ASSUME NEW f, NEW g, NEW S, IsFiniteSet(S),
           \A x \in S : f[x] \in Nat /\ g[x] \in Nat /\ f[x] <= g[x]
    PROVE  Total(f, S) <= Total(g, S)
  <1>. DEFINE Bad == {s \in SUBSET S : ~(Total(f, s) <= Total(g, s))}
  <1>1. SUFFICES ASSUME Bad # {} PROVE FALSE
    OBVIOUS
  <1>2. \A s \in Bad : IsFiniteSet(s) /\ s \in SUBSET S /\ ~(Total(f, s) <= Total(g, s))
    BY FS_Subset
  <1>3. PICK s \in Bad : \A t \in Bad : ~(Cardinality(t) < Cardinality(s))
    <2>. HIDE DEF Bad
    <2>. QED
      BY <1>1, <1>2, SmallestSet
  <1>4. s # {}
    BY <1>2, TotalEmpty
  <1>. DEFINE c == Chosen(s)
              t == s \ {c}
  <1>5. c \in s /\ Cardinality(t) < Cardinality(s)
    BY <1>2, <1>4, ChosenSmaller
  <1>6. Total(f, s) = f[c] + Total(f, t) /\ Total(g, s) = g[c] + Total(g, t)
    BY <1>2, <1>4, TotalChosen
  <1>7. t \in SUBSET S /\ IsFiniteSet(t)
    BY <1>2, FS_Subset
  <1>. HIDE DEF c, t
  <1>8. Total(f, t) <= Total(g, t)
    BY <1>3, <1>5, <1>7
  <1>9. Total(f, t) \in Nat /\ Total(g, t) \in Nat
    BY <1>7, TotalNat
  <1>10. f[c] \in Nat /\ g[c] \in Nat /\ f[c] <= g[c]
    BY <1>2, <1>5
  <1>. QED
    BY <1>2, <1>6, <1>8, <1>9, <1>10

\* A sum of nothing but zeros.
LEMMA TotalZero ==
    ASSUME NEW f, NEW S, IsFiniteSet(S), \A x \in S : f[x] = 0
    PROVE  Total(f, S) = 0
  <1>. DEFINE Bad == {s \in SUBSET S : Total(f, s) # 0}
  <1>1. SUFFICES ASSUME Bad # {} PROVE FALSE
    OBVIOUS
  <1>2. \A s \in Bad : IsFiniteSet(s) /\ s \in SUBSET S /\ Total(f, s) # 0
    BY FS_Subset
  <1>3. PICK s \in Bad : \A t \in Bad : ~(Cardinality(t) < Cardinality(s))
    <2>. HIDE DEF Bad
    <2>. QED
      BY <1>1, <1>2, SmallestSet
  <1>4. s # {}
    BY <1>2, TotalEmpty
  <1>. DEFINE c == Chosen(s)
  <1>5. c \in s /\ Cardinality(s \ {c}) < Cardinality(s)
    BY <1>2, <1>4, ChosenSmaller
  <1>6. Total(f, s) = f[c] + Total(f, s \ {c})
    BY <1>2, <1>4, TotalChosen
  <1>. HIDE DEF c
  <1>7. Total(f, s \ {c}) = 0
    BY <1>2, <1>3, <1>5
  <1>8. f[c] = 0
    BY <1>2, <1>5
  <1>. QED
    BY <1>2, <1>6, <1>7, <1>8

\* A sum over a set of numbers that are 0 outside a part of it.
LEMMA TotalWithin ==
    ASSUME NEW g, NEW e, NEW S, NEW T, T \subseteq S, IsFiniteSet(S),
           \A x \in S \ T : g[x] = 0,
           \A x \in T : g[x] = e[x] /\ e[x] \in Nat
    PROVE  Total(g, S) = Total(e, T)
  <1>. DEFINE Bad == {s \in SUBSET S : Total(g, s) # Total(e, s \cap T)}
  <1>1. SUFFICES ASSUME Bad # {} PROVE FALSE
    <2>1. S \in SUBSET S /\ S \cap T = T
      OBVIOUS
    <2>. QED
      BY <2>1
  <1>2. \A s \in Bad : IsFiniteSet(s) /\ s \in SUBSET S /\ Total(g, s) # Total(e, s \cap T)
    BY FS_Subset
  <1>3. PICK s \in Bad : \A t \in Bad : ~(Cardinality(t) < Cardinality(s))
    <2>. HIDE DEF Bad
    <2>. QED
      BY <1>1, <1>2, SmallestSet
  <1>4. s # {}
    <2>1. {} \cap T = {}
      OBVIOUS
    <2>. QED
      BY <1>2, <2>1, TotalEmpty
  <1>. DEFINE c == Chosen(s)
              t == s \ {c}
  <1>5. c \in s /\ Cardinality(t) < Cardinality(s)
    BY <1>2, <1>4, ChosenSmaller
  <1>6. Total(g, s) = g[c] + Total(g, t)
    BY <1>2, <1>4, TotalChosen
  <1>7. t \in SUBSET S /\ IsFiniteSet(t) /\ IsFiniteSet(s \cap T) /\ IsFiniteSet(t \cap T)
    BY <1>2, FS_Subset
  <1>. HIDE DEF c, t, Bad
  <1>8. Total(g, t) = Total(e, t \cap T)
    BY <1>3, <1>5, <1>7 DEF Bad
  <1>9. Total(e, t \cap T) \in Nat
    BY <1>7, TotalNat
  <1>10. CASE c \in T
    <2>1. (s \cap T) \ {c} = t \cap T /\ c \in s \cap T
      BY <1>5, <1>10 DEF t
    <2>2. Total(e, s \cap T) = e[c] + Total(e, t \cap T)
      BY <1>7, <2>1, TotalRemove, <1>10
    <2>. QED
      BY <1>2, <1>6, <1>8, <1>10, <2>2
  <1>11. CASE c \notin T
    <2>1. s \cap T = t \cap T
      BY <1>11 DEF t
    <2>2. g[c] = 0
      BY <1>2, <1>5, <1>11
    <2>3. Total(e, s \cap T) = Total(e, t \cap T)
      BY <2>1
    <2>4. Total(g, s) = Total(e, t \cap T)
      BY <1>6, <1>8, <1>9, <2>2
    <2>. QED
      BY <1>2, <2>3, <2>4
  <1>. QED
    BY <1>10, <1>11

-----------------------------------------------------------------------------
(* Folds over sequences *)

\* Induction up to a number.
LEMMA UpTo ==
    ASSUME NEW n \in Nat, NEW S, 0 \in S, \A i \in 1..n : i - 1 \in S => i \in S
    PROVE  \A i \in 0..n : i \in S
  <1>. DEFINE Bad == {i \in 0..n : i \notin S}
  <1>1. SUFFICES ASSUME Bad # {} PROVE FALSE
    OBVIOUS
  <1>2. Bad \in SUBSET Nat
    OBVIOUS
  <1>3. PICK i \in Bad : \A m \in Bad : ~(m < i)
    <2>. HIDE DEF Bad
    <2>. QED
      BY <1>1, <1>2, LeastNumber
  <1>4. i \in 1..n /\ i - 1 \in 0..n /\ i - 1 < i
    OBVIOUS
  <1>. QED
    BY <1>3, <1>4

\* k gives the fold of step over the numbers in every subset of 1..n.
IsFold(k, base, step, n) ==
    k = [s \in SUBSET (1..n) |->
            IF s = {} THEN base ELSE step[k[s \ {Max(s)}]][Max(s)]]

\* The values the fold runs through, from the first element to the last.
Runs(h, base, step, n) ==
    h[0] = base /\ \A i \in 1..n : h[i] = step[h[i - 1]][i]

LEMMA MaxIn ==
    ASSUME NEW n \in Nat, NEW s \in SUBSET (1..n), s # {}
    PROVE  /\ Max(s) \in s /\ Max(s) \in 1..n
           /\ \A m \in s : m <= Max(s)
  <1>. DEFINE Above == {m \in 0..n : \A i \in s : i <= m}
  <1>1. Above \in SUBSET Nat /\ n \in Above
    OBVIOUS
  <1>2. PICK m \in Above : \A i \in Above : ~(i < m)
    <2>. HIDE DEF Above
    <2>. QED
      BY <1>1, LeastNumber
  <1>3. m \in s
    <2>1. SUFFICES ASSUME m \notin s PROVE FALSE
      OBVIOUS
    <2>2. m # 0
      <3>1. PICK i \in s : i \in 1..n /\ i <= m
        OBVIOUS
      <3>. QED
        BY <3>1
    <2>3. m - 1 \in 0..n /\ m - 1 < m
      BY <2>2
    <2>4. ASSUME NEW i \in s PROVE i <= m - 1
      BY <2>1, <2>2
    <2>. QED
      BY <1>2, <2>3, <2>4
  <1>4. \A i \in s : m >= i
    OBVIOUS
  <1>5. Max(s) \in s /\ \A i \in s : Max(s) >= i
    BY <1>3, <1>4 DEF Max
  <1>. QED
    BY <1>5

LEMMA MaxOfFirst ==
    ASSUME NEW i \in Nat, i # 0
    PROVE  /\ Max(1..i) = i /\ 1..i # {}
           /\ (1..i) \ {i} = 1..(i - 1)
  <1>1. 1..i \in SUBSET (1..i) /\ 1..i # {}
    OBVIOUS
  <1>2. Max(1..i) \in 1..i /\ \A m \in 1..i : m <= Max(1..i)
    BY <1>1, MaxIn
  <1>. QED
    BY <1>1, <1>2

\* There is such a fold when the steps stay in a set.
LEMMA FoldExists ==
    ASSUME NEW W, NEW base \in W, NEW n \in Nat, NEW step \in [W -> [1..n -> W]]
    PROVE  \E k \in [SUBSET (1..n) -> W] : IsFold(k, base, step, n)
  <1>. DEFINE Upto(k, m) ==
                  /\ k \in [SUBSET (1..m) -> W]
                  /\ k[{}] = base
                  /\ \A s \in SUBSET (1..m) :
                        s # {} => k[s] = step[k[s \ {Max(s)}]][Max(s)]
              S == {m \in 0..n : \E k : Upto(k, m)}
  <1>1. 0 \in S
    <2>1. SUBSET (1..0) = {{}}
      OBVIOUS
    <2>2. Upto([s \in SUBSET (1..0) |-> base], 0)
      BY <2>1
    <2>. HIDE DEF Upto
    <2>3. \E k : Upto(k, 0)
      BY <2>2
    <2>. QED
      BY <2>3
  <1>2. ASSUME NEW m \in 1..n, m - 1 \in S
        PROVE  m \in S
    <2>1. PICK g : Upto(g, m - 1)
      BY <1>2
    <2>. DEFINE h == [s \in SUBSET (1..m) |->
                        IF s = {} THEN base ELSE step[g[s \ {Max(s)}]][Max(s)]]
    <2>2. ASSUME NEW s \in SUBSET (1..m), s # {}
          PROVE  /\ s \ {Max(s)} \in SUBSET (1..(m - 1)) /\ s \ {Max(s)} \in SUBSET (1..m)
                 /\ Max(s) \in 1..n
      <3>1. Max(s) \in s /\ Max(s) \in 1..m /\ \A i \in s : i <= Max(s)
        BY <2>2, MaxIn
      <3>2. ASSUME NEW i \in s \ {Max(s)} PROVE i \in 1..(m - 1)
        BY <3>1, <3>2
      <3>3. s \ {Max(s)} \subseteq 1..(m - 1) /\ s \ {Max(s)} \subseteq 1..m
        BY <3>2
      <3>4. Max(s) \in 1..n
        BY <3>1
      <3>. QED
        BY <3>3, <3>4
    <2>3. ASSUME NEW t \in SUBSET (1..(m - 1))
          PROVE  h[t] = g[t]
      <3>1. t \in SUBSET (1..m)
        OBVIOUS
      <3>. QED
        BY <2>1, <3>1
    <2>4. h \in [SUBSET (1..m) -> W]
      <3>1. ASSUME NEW s \in SUBSET (1..m), s # {}
            PROVE  step[g[s \ {Max(s)}]][Max(s)] \in W
        <4>1. g[s \ {Max(s)}] \in W /\ Max(s) \in 1..n
          BY <2>1, <2>2, <3>1
        <4>. QED
          BY <4>1
      <3>. QED
        BY <3>1
    <2>5. ASSUME NEW s \in SUBSET (1..m), s # {}
          PROVE  h[s] = step[h[s \ {Max(s)}]][Max(s)]
      <3>1. h[s] = step[g[s \ {Max(s)}]][Max(s)]
        BY <2>5
      <3>2. h[s \ {Max(s)}] = g[s \ {Max(s)}]
        BY <2>2, <2>3, <2>5
      <3>. QED
        BY <3>1, <3>2
    <2>6. {} \in SUBSET (1..m) /\ h[{}] = base
      OBVIOUS
    <2>. HIDE DEF h
    <2>7. Upto(h, m)
      BY <2>4, <2>5, <2>6
    <2>. HIDE DEF Upto
    <2>8. \E k : Upto(k, m)
      BY <2>7
    <2>. QED
      BY <2>8
  <1>3. \A i \in 0..n : i \in S
    <2>. HIDE DEF S
    <2>. QED
      BY <1>1, <1>2, UpTo
  <1>4. \E k : Upto(k, n)
    <2>1. n \in 0..n
      OBVIOUS
    <2>2. n \in S
      BY <1>3, <2>1
    <2>. HIDE DEF Upto
    <2>. QED
      BY <2>2
  <1>5. ASSUME NEW k, Upto(k, n)
        PROVE  k \in [SUBSET (1..n) -> W] /\ IsFold(k, base, step, n)
    <2>1. k = [s \in SUBSET (1..n) |-> k[s]] /\ k \in [SUBSET (1..n) -> W]
      BY <1>5
    <2>2. \A s \in SUBSET (1..n) :
            k[s] = IF s = {} THEN base ELSE step[k[s \ {Max(s)}]][Max(s)]
      BY <1>5
    <2>. QED
      BY <2>1, <2>2 DEF IsFold
  <1>. HIDE DEF Upto
  <1>. QED
    BY <1>4, <1>5

\* A fold that takes these steps runs from the first element to the last.
TakesSteps(k, base, step, n, W) ==
    /\ k[{}] = base
    /\ \A s \in SUBSET (1..n) :
          s # {} /\ k[s \ {Max(s)}] \in W => k[s] = step[k[s \ {Max(s)}]][Max(s)]

RunsTo(end, base, step, n, W) ==
    \E h \in [0..n -> W] : Runs(h, base, step, n) /\ h[n] = end

LEMMA FoldRuns ==
    ASSUME NEW W, NEW base \in W, NEW n \in Nat, NEW step \in [W -> [1..n -> W]],
           NEW k, TakesSteps(k, base, step, n, W)
    PROVE  RunsTo(k[1..n], base, step, n, W)
  <1>. DEFINE h == [i \in 0..n |-> k[1..i]]
              S == {i \in 0..n : k[1..i] \in W}
  <1>1. k[1..0] = base
    <2>1. 1..0 = {}
      OBVIOUS
    <2>. QED
      BY <2>1 DEF TakesSteps
  <1>2. ASSUME NEW i \in 1..n, k[1..(i - 1)] \in W
        PROVE  k[1..i] = step[k[1..(i - 1)]][i]
    <2>1. /\ Max(1..i) = i /\ 1..i # {}
          /\ (1..i) \ {i} = 1..(i - 1)
      <3>1. i \in Nat /\ i # 0
        OBVIOUS
      <3>. QED
        BY <3>1, MaxOfFirst
    <2>2. 1..i \in SUBSET (1..n)
      OBVIOUS
    <2>. QED
      BY <1>2, <2>1, <2>2 DEF TakesSteps
  <1>3. ASSUME NEW i \in 1..n, i - 1 \in S
        PROVE  i \in S
    <2>1. k[1..(i - 1)] \in W /\ i \in 0..n
      BY <1>3
    <2>2. k[1..i] = step[k[1..(i - 1)]][i]
      BY <1>2, <2>1
    <2>. DEFINE v == k[1..(i - 1)]
    <2>. HIDE DEF v
    <2>3. step[v][i] \in W
      BY <2>1 DEF v
    <2>. QED
      BY <2>1, <2>2, <2>3 DEF v
  <1>4. \A i \in 0..n : i \in S
    <2>1. 0 \in S
      BY <1>1
    <2>. HIDE DEF S
    <2>. QED
      BY <1>3, <2>1, UpTo
  <1>5. \A i \in 0..n : h[i] = k[1..i] /\ k[1..i] \in W
    BY <1>4
  <1>6. h \in [0..n -> W]
    BY <1>5
  <1>7. h[0] = base /\ h[n] = k[1..n]
    BY <1>1
  <1>8. ASSUME NEW i \in 1..n PROVE h[i] = step[h[i - 1]][i]
    <2>1. i - 1 \in 0..n /\ i \in 0..n
      OBVIOUS
    <2>. HIDE DEF h
    <2>. QED
      BY <1>2, <1>5, <2>1
  <1>. HIDE DEF h
  <1>. QED
    BY <1>6, <1>7, <1>8 DEF Runs, RunsTo

\* That a function is a fold's if its equation is, and that the fold's steps lead
\* from good values to good values.
IsTheFold(k, base, step, n, W) ==
    \A g \in [SUBSET (1..n) -> W] :
        IsFold(g, base, step, n) => TakesSteps(k, base, step, n, W)

StepsKeep(Good, base, step, n, W) ==
    /\ base \in Good[0]
    /\ \A i \in 1..n : \A v \in W : v \in Good[i - 1] => step[v][i] \in Good[i]

\* What every step keeps, the fold keeps.  A fold over a sequence with n elements
\* is the value at 1..n of a function k that is chosen to be one; that there is
\* one, and that it takes the steps, is for the fold to show.
LEMMA FoldKeeps ==
    ASSUME NEW W, NEW base \in W, NEW n \in Nat, NEW step \in [W -> [1..n -> W]], NEW k,
           IsTheFold(k, base, step, n, W), NEW Good, StepsKeep(Good, base, step, n, W)
    PROVE  k[1..n] \in Good[n] /\ k[1..n] \in W
  <1>1. PICK g \in [SUBSET (1..n) -> W] : IsFold(g, base, step, n)
    BY FoldExists
  <1>2. PICK h \in [0..n -> W] : Runs(h, base, step, n) /\ h[n] = k[1..n]
    <2>1. TakesSteps(k, base, step, n, W)
      BY <1>1 DEF IsTheFold
    <2>2. RunsTo(k[1..n], base, step, n, W)
      BY <2>1, FoldRuns
    <2>. QED
      BY <2>2 DEF RunsTo
  <1>. DEFINE S == {i \in 0..n : h[i] \in Good[i]}
  <1>3. 0 \in S
    BY <1>2 DEF Runs, StepsKeep
  <1>4. ASSUME NEW i \in 1..n, i - 1 \in S
        PROVE  i \in S
    <2>1. h[i - 1] \in W /\ h[i - 1] \in Good[i - 1] /\ i \in 0..n
      BY <1>4
    <2>2. h[i] = step[h[i - 1]][i]
      BY <1>2 DEF Runs
    <2>. QED
      BY <2>1, <2>2 DEF StepsKeep
  <1>5. \A i \in 0..n : i \in S
    <2>. HIDE DEF S
    <2>. QED
      BY <1>3, <1>4, UpTo
  <1>6. n \in 0..n
    OBVIOUS
  <1>. QED
    BY <1>2, <1>5, <1>6

\* The first terms of a sum.
LEMMA TotalFirst ==
    ASSUME NEW f, NEW n \in Nat, \A i \in 1..n : f[i] \in Int
    PROVE  /\ Total(f, 1..0) = 0
           /\ \A i \in 0..n : Total(f, 1..i) \in Int
           /\ \A i \in 1..n : Total(f, 1..i) = Total(f, 1..(i - 1)) + f[i]
  <1>1. Total(f, 1..0) = 0
    <2>1. 1..0 = {}
      OBVIOUS
    <2>. QED
      BY <2>1, TotalEmpty
  <1>2. ASSUME NEW i \in 0..n PROVE Total(f, 1..i) \in Int
    <2>1. IsFiniteSet(1..i) /\ \A j \in 1..i : f[j] \in Int
      BY FS_Interval
    <2>. QED
      BY <2>1, TotalType
  <1>3. ASSUME NEW i \in 1..n PROVE Total(f, 1..i) = Total(f, 1..(i - 1)) + f[i]
    <2>1. IsFiniteSet(1..i) /\ (\A j \in 1..i : f[j] \in Int) /\ i \in 1..i
      BY FS_Interval
    <2>2. Total(f, 1..i) = f[i] + Total(f, (1..i) \ {i})
      BY <2>1, TotalRemove
    <2>3. (1..i) \ {i} = 1..(i - 1)
      OBVIOUS
    <2>4. Total(f, 1..(i - 1)) \in Int
      BY <1>2
    <2>5. f[i] \in Int /\ Total(f, 1..i) = f[i] + Total(f, 1..(i - 1))
      BY <2>2, <2>3
    <2>. QED
      BY <2>4, <2>5
  <1>. QED
    BY <1>1, <1>2, <1>3

\* The sums that the specifications take with the operators for sets and for
\* functions are these.
LEMMA SumIsTotal ==
    ASSUME NEW f
    PROVE  FoldFunction(+, 0, f) = Total(f, DOMAIN f)
  BY DEF FoldFunction, FoldFunctionOnSet, MapThenFoldSet, Total, Sums, Chosen

LEMMA SetSumIsTotal ==
    ASSUME NEW f
    PROVE  MapThenSumSet(LAMBDA x : f[x], DOMAIN f) = Total(f, DOMAIN f)
  BY DEF MapThenSumSet, MapThenFoldSet, Total, Sums, Chosen

-----------------------------------------------------------------------------
(* Counting by classes, and least elements *)

\* A strict order has a minimal element on a finite set.
LEMMA MinimalIn ==
    ASSUME NEW T, IsFiniteSet(T), T # {}, NEW R,
           \A x \in T : <<x, x>> \notin R,
           \A x \in T, y \in T, z \in T : <<x, y>> \in R /\ <<y, z>> \in R => <<x, z>> \in R
    PROVE  \E x \in T : \A y \in T : <<y, x>> \notin R
  <1>. DEFINE Below(x) == {y \in T : <<y, x>> \in R}
              B == {Below(x) : x \in T}
  <1>1. \A x \in T : Below(x) \in SUBSET T
    OBVIOUS
  <1>2. \A x \in T : IsFiniteSet(Below(x))
    <2>. HIDE DEF Below
    <2>. QED
      BY <1>1, FS_Subset
  <1>3. PICK X \in B : \A Y \in B : ~(Cardinality(Y) < Cardinality(X))
    <2>. HIDE DEF Below
    <2>1. B # {} /\ \A X \in B : IsFiniteSet(X)
      BY <1>2
    <2>. HIDE DEF B
    <2>. QED
      BY <2>1, SmallestSet
  <1>4. PICK x \in T : X = Below(x)
    OBVIOUS
  <1>5. ASSUME NEW y \in T, <<y, x>> \in R PROVE FALSE
    <2>1. Below(y) \in SUBSET Below(x) /\ y \in Below(x) /\ y \notin Below(y)
      BY <1>5
    <2>2. IsFiniteSet(Below(x)) /\ Below(y) \in B
      <3>. HIDE DEF Below
      <3>. QED
        BY <1>2
    <2>3. Below(y) # Below(x)
      BY <2>1
    <2>4. ~(Cardinality(Below(y)) < Cardinality(Below(x)))
      BY <1>3, <1>4, <2>2
    <2>. HIDE DEF Below
    <2>. QED
      BY <2>1, <2>2, <2>3, <2>4, FS_Subset, FS_CardinalityType
  <1>. QED
    BY <1>5

\* A sum of ones counts.
LEMMA TotalOfOnes ==
    ASSUME NEW f, NEW S, IsFiniteSet(S), \A x \in S : f[x] = 1
    PROVE  Total(f, S) = Cardinality(S)
  <1>. DEFINE Bad == {s \in SUBSET S : Total(f, s) # Cardinality(s)}
  <1>1. SUFFICES ASSUME Bad # {} PROVE FALSE
    OBVIOUS
  <1>2. \A s \in Bad : IsFiniteSet(s) /\ s \in SUBSET S /\ Total(f, s) # Cardinality(s)
    BY FS_Subset
  <1>3. PICK s \in Bad : \A Y \in Bad : ~(Cardinality(Y) < Cardinality(s))
    <2>. HIDE DEF Bad
    <2>. QED
      BY <1>1, <1>2, SmallestSet
  <1>4. s # {}
    BY <1>2, TotalEmpty, FS_EmptySet
  <1>. DEFINE c == Chosen(s)
              t == s \ {c}
  <1>5. /\ c \in s /\ IsFiniteSet(t) /\ Cardinality(s) \in Nat
        /\ Cardinality(t) = Cardinality(s) - 1 /\ Cardinality(t) < Cardinality(s)
    BY <1>2, <1>4, ChosenIn, ChosenSmaller
  <1>6. Total(f, s) = f[c] + Total(f, t)
    BY <1>2, <1>4, TotalChosen
  <1>7. t \in SUBSET S /\ f[c] = 1
    BY <1>2, <1>5
  <1>8. t \notin Bad
    BY <1>3, <1>5
  <1>9. Total(f, t) = Cardinality(t)
    BY <1>7, <1>8
  <1>. QED
    BY <1>2, <1>5, <1>6, <1>7, <1>9

\* A sum over the members of S of a weight that depends on their class only is
\* the sum over the classes of the weight times the number of members.
Class(g, S, h) == {x \in S : g[x] = h}

LEMMA TotalByClass ==
    ASSUME NEW S, IsFiniteSet(S), NEW H, IsFiniteSet(H),
           NEW g, \A x \in S : g[x] \in H, NEW w, \A h \in H : w[h] \in Int
    PROVE  Total([x \in S |-> w[g[x]]], S)
             = Total([h \in H |-> w[h] * Cardinality(Class(g, S, h))], H)
  <1>. DEFINE f == [x \in S |-> w[g[x]]]
              F(s) == [h \in H |-> w[h] * Cardinality(Class(g, s, h))]
              Bad == {s \in SUBSET S : Total(f, s) # Total(F(s), H)}
  <1>1. SUFFICES ASSUME Bad # {} PROVE FALSE
    OBVIOUS
  <1>2. \A s \in SUBSET S : IsFiniteSet(s)
    BY FS_Subset
  <1>3. PICK s \in Bad : \A Y \in Bad : ~(Cardinality(Y) < Cardinality(s))
    <2>1. \A Y \in Bad : IsFiniteSet(Y)
      BY <1>2
    <2>. HIDE DEF Bad
    <2>. QED
      BY <1>1, <2>1, SmallestSet
  <1>4. s \in SUBSET S /\ IsFiniteSet(s) /\ Total(f, s) # Total(F(s), H)
    BY <1>2
  <1>5. \A u \in SUBSET S, h \in H : /\ IsFiniteSet(Class(g, u, h))
                                     /\ Cardinality(Class(g, u, h)) \in Nat
    <2>1. \A u \in SUBSET S, h \in H : Class(g, u, h) \in SUBSET S
      BY DEF Class
    <2>. QED
      BY <1>2, <2>1, FS_CardinalityType
  <1>6. \A u \in SUBSET S, h \in H : F(u)[h] \in Int
    <2>1. \A a \in Int, n \in Nat : a * n \in Int
      OBVIOUS
    <2>. QED
      BY <1>5, <2>1
  <1>7. s # {}
    <2>1. ASSUME s = {} PROVE FALSE
      <3>1. \A h \in H : F(s)[h] = 0
        <4>1. \A h \in H : Class(g, s, h) = {}
          BY <2>1 DEF Class
        <4>2. \A a \in Int : a * 0 = 0
          OBVIOUS
        <4>. QED
          BY <4>1, <4>2, FS_EmptySet
      <3>. HIDE DEF F, f
      <3>2. Total(F(s), H) = 0
        BY <3>1, TotalZero
      <3>. QED
        BY <1>4, <2>1, <3>2, TotalEmpty
    <2>. QED
      BY <2>1
  <1>. DEFINE c == Chosen(s)
              t == s \ {c}
  <1>8. c \in s /\ IsFiniteSet(t) /\ Cardinality(t) < Cardinality(s)
    BY <1>4, <1>7, ChosenIn, ChosenSmaller
  <1>9. t \in SUBSET S /\ c \in S /\ g[c] \in H /\ w[g[c]] \in Int /\ f[c] = w[g[c]]
    BY <1>4, <1>8
  <1>10. Total(f, t) = Total(F(t), H)
    BY <1>3, <1>8, <1>9
  <1>11. Total(f, s) = f[c] + Total(f, t)
    <2>. HIDE DEF f
    <2>. QED
      BY <1>4, <1>7, TotalChosen
  <1>12. \A h \in H : h # g[c] => F(s)[h] = F(t)[h]
    <2>1. \A h \in H : h # g[c] => Class(g, s, h) = Class(g, t, h)
      BY DEF Class
    <2>. QED
      BY <2>1
  <1>13. F(s)[g[c]] = F(t)[g[c]] + w[g[c]]
    <2>. DEFINE A == Class(g, s, g[c])
                n == Cardinality(A)
    <2>1. c \in A /\ Class(g, t, g[c]) = A \ {c}
      BY <1>8 DEF Class
    <2>2. IsFiniteSet(A) /\ n \in Nat
      BY <1>4, <1>5, <1>9
    <2>. HIDE DEF A
    <2>3. Cardinality(A \ {c}) = n - 1
      BY <2>1, <2>2, FS_RemoveElement
    <2>4. /\ F(s)[g[c]] = w[g[c]] * n
          /\ F(t)[g[c]] = w[g[c]] * (n - 1)
      BY <1>9, <2>1, <2>3 DEF A
    <2>5. \A a \in Int, m \in Nat : a * m = a * (m - 1) + a
      OBVIOUS
    <2>. QED
      BY <1>9, <2>2, <2>4, <2>5
  <1>14. \A h \in H : F(s)[h] \in Int /\ F(t)[h] \in Int
    BY <1>4, <1>6, <1>9
  <1>. DEFINE Fs == F(s)
              Ft == F(t)
  <1>15. /\ Total(Ft, H) \in Int
         /\ Total(Fs, H) = Total(Ft, H) - Ft[g[c]] + Fs[g[c]]
    <2>1. /\ \A h \in H : Ft[h] \in Int /\ Fs[h] \in Int
          /\ \A h \in H : h # g[c] => Ft[h] = Fs[h]
          /\ g[c] \in H
      BY <1>9, <1>12, <1>14
    <2>. HIDE DEF Fs, Ft
    <2>. QED
      BY <2>1, TotalChange
  <1>16. Ft[g[c]] \in Int /\ Fs[g[c]] = Ft[g[c]] + w[g[c]]
    BY <1>9, <1>13, <1>14
  <1>17. Total(f, t) = Total(Ft, H) /\ Total(f, s) # Total(Fs, H)
    BY <1>4, <1>10
  <1>. HIDE DEF Fs, Ft, f, t, c
  <1>. QED
    BY <1>9, <1>11, <1>15, <1>16, <1>17

=============================================================================
