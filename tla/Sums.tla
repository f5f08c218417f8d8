---------------------------------- MODULE Sums ----------------------------------
(***************************************************************************)
(* Lemmas about MapThenSumSet, the sum of a function over a finite set,    *)
(* that the proofs about counts rest on.                                   *)
(*                                                                         *)
(* MapThenSumSet is a recursive function over the subsets of the set.  That *)
(* the function exists, and what it is, follows from the least subset of   *)
(* which it would not be so (Least), which needs no induction rule.        *)
(***************************************************************************)
EXTENDS Integers, FiniteSetsExt, FiniteSetTheorems, WellFoundedInduction, TLAPS

SumOf(f, S) == MapThenSumSet(LAMBDA x : f[x], S)

(* The element MapThenSumSet takes next. *)
Taken(s) == CHOOSE x \in s : TRUE

(* g sums f over the subsets of S. *)
Sums(g, f, S) ==
    g = [s \in SUBSET S |-> IF s = {} THEN 0 ELSE f[Taken(s)] + g[s \ {Taken(s)}]]

-------------------------------------------------------------------------------
(* The sum exists.                                                         *)

(* Among subsets of a finite set there is one without a smaller one.        *)
LEMMA Least ==
    ASSUME NEW S, IsFiniteSet(S), NEW T, T \subseteq SUBSET S, T # {}
    PROVE  \E m \in T : \A t \in T : t \subseteq m => t = m
<1>1. FiniteSubsetsOf(S) = SUBSET S
  BY FS_FiniteSubsetsOfFinite
<1>2. IsWellFoundedOn(StrictSubsetOrdering(S), SUBSET S)
  BY <1>1, FS_StrictSubsetOrderingWellFounded
<1>3. PICK m \in T : \A t \in T : ~ (<<t, m>> \in StrictSubsetOrdering(S))
  BY <1>2, WFMin
<1>4. \A t \in T : t \subseteq m => t = m
  BY <1>3 DEF StrictSubsetOrdering
<1> QED
  BY <1>4

LEMMA TakenIn == ASSUME NEW s, s # {} PROVE Taken(s) \in s
BY DEF Taken

LEMMA SumsUnique ==
    ASSUME NEW S, IsFiniteSet(S), NEW T \in SUBSET S, NEW f, NEW g, NEW h,
           Sums(g, f, S), Sums(h, f, T)
    PROVE  \A s \in SUBSET T : g[s] = h[s]
<1> DEFINE Bad == {s \in SUBSET T : g[s] # h[s]}
<1>1. SUFFICES ASSUME Bad # {} PROVE FALSE
  OBVIOUS
<1>a. Bad \subseteq SUBSET S
  OBVIOUS
<1>2. PICK m \in Bad : \A t \in Bad : t \subseteq m => t = m
  <2> HIDE DEF Bad
  <2> QED
    BY <1>1, <1>a, Least
<1>3. m \in SUBSET T /\ m \in SUBSET S /\ g[m] # h[m]
  BY <1>2
<1>4. /\ g[m] = IF m = {} THEN 0 ELSE f[Taken(m)] + g[m \ {Taken(m)}]
      /\ h[m] = IF m = {} THEN 0 ELSE f[Taken(m)] + h[m \ {Taken(m)}]
  BY <1>3 DEF Sums
<1>5. m # {} /\ g[m \ {Taken(m)}] # h[m \ {Taken(m)}]
  BY <1>3, <1>4
<1>6. m \ {Taken(m)} \in Bad
  BY <1>3, <1>5
<1> QED
  BY <1>2, <1>5, <1>6, TakenIn

LEMMA SumsExist == ASSUME NEW S, IsFiniteSet(S), NEW f PROVE \E g : Sums(g, f, S)
<1> DEFINE Bad == {s \in SUBSET S : ~ \E g : Sums(g, f, s)}
<1>1. SUFFICES ASSUME Bad # {} PROVE FALSE
  <2>1. IsFiniteSet(S) => S \in SUBSET S
    OBVIOUS
  <2> QED
    BY <2>1
<1>a. Bad \subseteq SUBSET S
  OBVIOUS
<1>2. PICK m \in Bad : \A t \in Bad : t \subseteq m => t = m
  <2> HIDE DEF Bad
  <2> QED
    BY <1>1, <1>a, Least
<1> DEFINE G(s) == CHOOSE g : Sums(g, f, s)
           top  == IF m = {} THEN 0 ELSE f[Taken(m)] + G(m \ {Taken(m)})[m \ {Taken(m)}]
           g    == [s \in SUBSET m |-> IF s = m THEN top ELSE G(s)[s]]
<1>3. \A s \in SUBSET m : s # m => Sums(G(s), f, s) /\ IsFiniteSet(s)
  <2> SUFFICES ASSUME NEW s \in SUBSET m, s # m PROVE Sums(G(s), f, s) /\ IsFiniteSet(s)
    OBVIOUS
  <2>1. s \in SUBSET S /\ s \notin Bad
    BY <1>2
  <2>2. \E h : Sums(h, f, s)
    BY <2>1
  <2> QED
    BY <2>1, <2>2, FS_Subset
<1> HIDE DEF G
<1>4. ASSUME NEW s \in SUBSET m
      PROVE  g[s] = IF s = {} THEN 0 ELSE f[Taken(s)] + g[s \ {Taken(s)}]
  <2>1. CASE s = {} /\ s # m
    <3>1. G(s)[s] = 0
      BY <1>3, <2>1 DEF Sums
    <3> QED
      BY <2>1, <3>1
  <2>2. CASE s # {} /\ s # m
    <3> DEFINE r == s \ {Taken(s)}
    <3>1. r \in SUBSET s /\ r # m /\ r # s /\ r \in SUBSET m
      BY <2>2, TakenIn
    <3>2. G(s)[s] = f[Taken(s)] + G(s)[r]
      BY <1>3, <2>2 DEF Sums
    <3>3. Sums(G(r), f, r) /\ Sums(G(s), f, s) /\ IsFiniteSet(s)
      BY <1>3, <2>2, <3>1
    <3>4. G(s)[r] = G(r)[r]
      BY <3>1, <3>3, SumsUnique
    <3> QED
      BY <2>2, <3>1, <3>2, <3>4
  <2>3. CASE s = m /\ m # {}
    <3>1. m \ {Taken(m)} \in SUBSET m /\ m \ {Taken(m)} # m
      BY <2>3, TakenIn
    <3> QED
      BY <2>3, <3>1
  <2>4. CASE s = m /\ m = {}
    BY <2>4
  <2> QED
    BY <2>1, <2>2, <2>3, <2>4
<1>5. Sums(g, f, m)
  <2>1. g = [s \in SUBSET m |-> g[s]]
    OBVIOUS
  <2> HIDE DEF g
  <2> QED
    BY <1>4, <2>1 DEF Sums
<1> QED
  BY <1>2, <1>5

-------------------------------------------------------------------------------
(* What the sum is.                                                        *)

(* The function MapThenSumSet chooses. *)
TheSum(f, S) == CHOOSE g : Sums(g, f, S)

LEMMA Unfold == ASSUME NEW f, NEW S PROVE SumOf(f, S) = TheSum(f, S)[S]
BY DEF SumOf, MapThenSumSet, MapThenFoldSet, TheSum, Sums, Taken

LEMMA TheSumSums == ASSUME NEW f, NEW S, IsFiniteSet(S) PROVE Sums(TheSum(f, S), f, S)
BY SumsExist DEF TheSum

LEMMA TheSumBelow ==
    ASSUME NEW f, NEW S, IsFiniteSet(S), NEW T \in SUBSET S
    PROVE  TheSum(f, S)[T] = SumOf(f, T)
<1>1. IsFiniteSet(T)
  BY FS_Subset
<1>2. Sums(TheSum(f, S), f, S) /\ Sums(TheSum(f, T), f, T)
  BY <1>1, TheSumSums
<1> HIDE DEF TheSum
<1>3. TheSum(f, S)[T] = TheSum(f, T)[T]
  BY <1>2, SumsUnique
<1> QED
  BY <1>3, Unfold

LEMMA SumEmpty == ASSUME NEW f PROVE SumOf(f, {}) = 0
<1>1. Sums(TheSum(f, {}), f, {})
  BY TheSumSums, FS_EmptySet
<1> QED
  BY <1>1, Unfold DEF Sums

LEMMA SumTaken ==
    ASSUME NEW f, NEW S, IsFiniteSet(S), S # {}
    PROVE  SumOf(f, S) = f[Taken(S)] + SumOf(f, S \ {Taken(S)})
<1>1. TheSum(f, S)[S] = f[Taken(S)] + TheSum(f, S)[S \ {Taken(S)}]
  <2>1. ASSUME NEW g, Sums(g, f, S) PROVE g[S] = f[Taken(S)] + g[S \ {Taken(S)}]
    BY <2>1 DEF Sums
  <2> QED
    BY <2>1, TheSumSums
<1>2. TheSum(f, S)[S \ {Taken(S)}] = SumOf(f, S \ {Taken(S)})
  BY TheSumBelow
<1> QED
  BY <1>1, <1>2, Unfold

(* The sum of integers is one. *)
LEMMA SumInt ==
    ASSUME NEW f, NEW S, IsFiniteSet(S), \A x \in S : f[x] \in Int
    PROVE  SumOf(f, S) \in Int
<1> DEFINE Bad == {T \in SUBSET S : SumOf(f, T) \notin Int}
<1>1. SUFFICES ASSUME Bad # {} PROVE FALSE
  OBVIOUS
<1>2. Bad \subseteq SUBSET S
  OBVIOUS
<1>3. PICK m \in Bad : \A t \in Bad : t \subseteq m => t = m
  <2> HIDE DEF Bad
  <2> QED
    BY <1>1, <1>2, Least
<1>4. m # {} /\ IsFiniteSet(m) /\ Taken(m) \in m /\ f[Taken(m)] \in Int
  <2>1. m \in SUBSET S /\ SumOf(f, m) \notin Int
    BY <1>3
  <2>2. m # {}
    BY <2>1, SumEmpty
  <2> QED
    BY <2>1, <2>2, FS_Subset, TakenIn
<1>5. SumOf(f, m \ {Taken(m)}) \in Int
  BY <1>3, <1>4
<1>6. SumOf(f, m) \in Int
  BY <1>4, <1>5, SumTaken
<1> QED
  BY <1>3, <1>6

(* Any element may be taken first. *)
LEMMA SumRemove ==
    ASSUME NEW f, NEW S, IsFiniteSet(S), \A x \in S : f[x] \in Int, NEW x \in S
    PROVE  SumOf(f, S) = f[x] + SumOf(f, S \ {x})
<1> DEFINE Good(T, y) == SumOf(f, T) = f[y] + SumOf(f, T \ {y})
           Bad == {T \in SUBSET S : \E y \in T : ~ Good(T, y)}
<1>1. SUFFICES ASSUME Bad # {} PROVE FALSE
  OBVIOUS
<1>2. Bad \subseteq SUBSET S
  OBVIOUS
<1>3. PICK m \in Bad : \A t \in Bad : t \subseteq m => t = m
  <2> HIDE DEF Bad
  <2> QED
    BY <1>1, <1>2, Least
<1>4. PICK y \in m : ~ Good(m, y)
  BY <1>3
<1> DEFINE z == Taken(m)
<1>5. m # {} /\ IsFiniteSet(m) /\ z \in m /\ m \in SUBSET S
  BY <1>3, <1>4, FS_Subset, TakenIn
<1>6. Good(m, z)
  BY <1>5, SumTaken
<1>7. y # z
  BY <1>4, <1>6
<1> HIDE DEF z
<1>8. Good(m \ {z}, y) /\ Good(m \ {y}, z)
  <2>1. m \ {z} \notin Bad /\ m \ {y} \notin Bad
    BY <1>3, <1>5
  <2>2. y \in m \ {z} /\ z \in m \ {y} /\ m \ {z} \in SUBSET S /\ m \ {y} \in SUBSET S
    BY <1>5, <1>7
  <2> QED
    BY <2>1, <2>2
<1>9. (m \ {z}) \ {y} = (m \ {y}) \ {z}
  OBVIOUS
<1>10. /\ f[y] \in Int /\ f[z] \in Int /\ SumOf(f, (m \ {z}) \ {y}) \in Int
  BY <1>5, FS_Subset, SumInt
<1>11. SumOf(f, m) = f[z] + (f[y] + SumOf(f, (m \ {z}) \ {y}))
  BY <1>6, <1>8
<1>12. SumOf(f, m \ {y}) = f[z] + SumOf(f, (m \ {z}) \ {y})
  BY <1>8, <1>9
<1>13. f[z] + (f[y] + SumOf(f, (m \ {z}) \ {y})) = f[y] + (f[z] + SumOf(f, (m \ {z}) \ {y}))
  BY <1>10
<1>14. Good(m, y)
  BY <1>11, <1>12, <1>13
<1> QED
  BY <1>4, <1>14

-------------------------------------------------------------------------------
(* Comparing sums.                                                         *)

(* Functions that agree on the set have the same sum. *)
LEMMA SumSame ==
    ASSUME NEW S, IsFiniteSet(S), NEW f, NEW g, \A x \in S : f[x] = g[x]
    PROVE  SumOf(f, S) = SumOf(g, S)
<1> DEFINE Bad == {T \in SUBSET S : SumOf(f, T) # SumOf(g, T)}
<1>1. SUFFICES ASSUME Bad # {} PROVE FALSE
  OBVIOUS
<1>2. Bad \subseteq SUBSET S
  OBVIOUS
<1>3. PICK m \in Bad : \A t \in Bad : t \subseteq m => t = m
  <2> HIDE DEF Bad
  <2> QED
    BY <1>1, <1>2, Least
<1>4. m \in SUBSET S /\ SumOf(f, m) # SumOf(g, m)
  BY <1>3
<1>5. m # {}
  BY <1>4, SumEmpty
<1>6. IsFiniteSet(m) /\ Taken(m) \in m
  BY <1>4, <1>5, FS_Subset, TakenIn
<1>7. SumOf(f, m \ {Taken(m)}) = SumOf(g, m \ {Taken(m)})
  BY <1>3, <1>4, <1>6
<1>8. f[Taken(m)] = g[Taken(m)]
  BY <1>4, <1>6
<1>9. SumOf(f, m) = SumOf(g, m)
  BY <1>5, <1>6, <1>7, <1>8, SumTaken
<1> QED
  BY <1>4, <1>9

(* What a change at one element changes. *)
LEMMA SumChange ==
    ASSUME NEW S, IsFiniteSet(S), NEW f, NEW g, NEW x \in S,
           \A y \in S : f[y] \in Int /\ g[y] \in Int,
           \A y \in S \ {x} : g[y] = f[y]
    PROVE  SumOf(g, S) = SumOf(f, S) + (g[x] - f[x])
<1>1. IsFiniteSet(S \ {x})
  BY FS_Subset
<1>2. SumOf(f, S \ {x}) = SumOf(g, S \ {x})
  BY <1>1, SumSame
<1>3. SumOf(f, S) = f[x] + SumOf(f, S \ {x}) /\ SumOf(g, S) = g[x] + SumOf(g, S \ {x})
  BY SumRemove
<1>4. SumOf(f, S \ {x}) \in Int /\ f[x] \in Int /\ g[x] \in Int
  BY <1>1, SumInt
<1> QED
  BY <1>2, <1>3, <1>4

(* Sums of natural numbers: they grow with the set and with the function.   *)
LEMMA SumGrows ==
    ASSUME NEW S, IsFiniteSet(S), NEW f, NEW g,
           \A x \in S : f[x] \in Nat /\ g[x] \in Nat /\ f[x] <= g[x]
    PROVE  SumOf(f, S) <= SumOf(g, S)
<1> DEFINE Bad == {T \in SUBSET S : ~ (SumOf(f, T) <= SumOf(g, T))}
<1>1. SUFFICES ASSUME Bad # {} PROVE FALSE
  <2>1. S \in SUBSET S
    OBVIOUS
  <2> QED
    BY <2>1
<1>2. Bad \subseteq SUBSET S
  OBVIOUS
<1>3. PICK m \in Bad : \A t \in Bad : t \subseteq m => t = m
  <2> HIDE DEF Bad
  <2> QED
    BY <1>1, <1>2, Least
<1>4. m \in SUBSET S /\ ~ (SumOf(f, m) <= SumOf(g, m))
  BY <1>3
<1>5. m # {}
  <2>1. SumOf(f, {}) = 0 /\ SumOf(g, {}) = 0
    BY SumEmpty
  <2> QED
    BY <1>4, <2>1
<1> DEFINE x == Taken(m)
           r == m \ {x}
<1>6. IsFiniteSet(m) /\ IsFiniteSet(r) /\ x \in m /\ x \in S /\ r \subseteq S
  BY <1>4, <1>5, FS_Subset, TakenIn
<1>7. SumOf(f, r) <= SumOf(g, r)
  BY <1>3, <1>4, <1>6
<1>8. SumOf(f, m) = f[x] + SumOf(f, r) /\ SumOf(g, m) = g[x] + SumOf(g, r)
  BY <1>5, <1>6, SumTaken
<1> HIDE DEF x, r
<1>9. SumOf(f, r) \in Int /\ SumOf(g, r) \in Int /\ f[x] \in Nat /\ g[x] \in Nat /\ f[x] <= g[x]
  BY <1>6, SumInt
<1> QED
  BY <1>4, <1>7, <1>8, <1>9

LEMMA SumZero == ASSUME NEW S, IsFiniteSet(S) PROVE SumOf([x \in S |-> 0], S) = 0
<1> DEFINE f == [x \in S |-> 0]
           Bad == {T \in SUBSET S : SumOf(f, T) # 0}
<1>1. SUFFICES ASSUME Bad # {} PROVE FALSE
  OBVIOUS
<1>2. Bad \subseteq SUBSET S
  OBVIOUS
<1>3. PICK m \in Bad : \A t \in Bad : t \subseteq m => t = m
  <2> HIDE DEF Bad
  <2> QED
    BY <1>1, <1>2, Least
<1>4. m \in SUBSET S /\ SumOf(f, m) # 0
  BY <1>3
<1>a. \A x \in S : f[x] = 0
  OBVIOUS
<1> HIDE DEF f
<1>5. m # {}
  BY <1>4, SumEmpty
<1>6. IsFiniteSet(m) /\ Taken(m) \in m
  BY <1>4, <1>5, FS_Subset, TakenIn
<1>7. SumOf(f, m \ {Taken(m)}) = 0 /\ f[Taken(m)] = 0
  BY <1>3, <1>4, <1>6, <1>a
<1>8. SumOf(f, m) = 0
  BY <1>5, <1>6, <1>7, SumTaken
<1> QED
  BY <1>4, <1>8

LEMMA SumNat ==
    ASSUME NEW S, IsFiniteSet(S), NEW f, \A x \in S : f[x] \in Nat
    PROVE  SumOf(f, S) \in Nat
<1> DEFINE z == [x \in S |-> 0]
<1>1. \A x \in S : z[x] \in Nat /\ z[x] <= f[x]
  OBVIOUS
<1>2. SumOf(z, S) = 0
  BY SumZero
<1> HIDE DEF z
<1>3. SumOf(z, S) <= SumOf(f, S)
  BY <1>1, SumGrows
<1>4. SumOf(f, S) \in Int
  BY SumInt
<1> QED
  BY <1>2, <1>3, <1>4

(* No term of the sum is greater than the sum. *)
LEMMA SumBounds ==
    ASSUME NEW S, IsFiniteSet(S), NEW f, \A x \in S : f[x] \in Nat, NEW x \in S
    PROVE  f[x] <= SumOf(f, S)
<1>1. IsFiniteSet(S \ {x}) /\ \A y \in S \ {x} : f[y] \in Nat
  BY FS_Subset
<1>2. SumOf(f, S \ {x}) \in Nat /\ f[x] \in Nat
  BY <1>1, SumNat
<1>3. SumOf(f, S) = f[x] + SumOf(f, S \ {x})
  BY SumRemove
<1> QED
  BY <1>2, <1>3

-------------------------------------------------------------------------------
(* Sums of sums.                                                           *)

LEMMA SumAdd ==
    ASSUME NEW S, IsFiniteSet(S), NEW f, NEW g, NEW h,
           \A x \in S : f[x] \in Int /\ g[x] \in Int /\ h[x] = f[x] + g[x]
    PROVE  SumOf(h, S) = SumOf(f, S) + SumOf(g, S)
<1> DEFINE Bad == {T \in SUBSET S : SumOf(h, T) # SumOf(f, T) + SumOf(g, T)}
<1>1. SUFFICES ASSUME Bad # {} PROVE FALSE
  OBVIOUS
<1>2. Bad \subseteq SUBSET S
  OBVIOUS
<1>3. PICK m \in Bad : \A t \in Bad : t \subseteq m => t = m
  <2> HIDE DEF Bad
  <2> QED
    BY <1>1, <1>2, Least
<1>4. m \in SUBSET S /\ SumOf(h, m) # SumOf(f, m) + SumOf(g, m)
  BY <1>3
<1>5. m # {}
  <2>1. SumOf(f, {}) = 0 /\ SumOf(g, {}) = 0 /\ SumOf(h, {}) = 0 /\ 0 = 0 + 0
    BY SumEmpty
  <2> QED
    BY <1>4, <2>1
<1> DEFINE x == Taken(m)
           r == m \ {x}
<1>6. IsFiniteSet(m) /\ IsFiniteSet(r) /\ x \in m /\ x \in S /\ r \subseteq S
  BY <1>4, <1>5, FS_Subset, TakenIn
<1>7. SumOf(h, r) = SumOf(f, r) + SumOf(g, r)
  BY <1>3, <1>4, <1>6
<1>8. /\ SumOf(f, m) = f[x] + SumOf(f, r) /\ SumOf(g, m) = g[x] + SumOf(g, r)
      /\ SumOf(h, m) = h[x] + SumOf(h, r)
  BY <1>5, <1>6, SumTaken
<1> HIDE DEF x, r
<1>9. SumOf(f, r) \in Int /\ SumOf(g, r) \in Int /\ f[x] \in Int /\ g[x] \in Int
      /\ h[x] = f[x] + g[x]
  BY <1>6, SumInt
<1> QED
  BY <1>4, <1>7, <1>8, <1>9

LEMMA SumConst ==
    ASSUME NEW S, IsFiniteSet(S), NEW c \in Int, NEW f, \A x \in S : f[x] = c
    PROVE  SumOf(f, S) = c * Cardinality(S)
<1> DEFINE Bad == {T \in SUBSET S : SumOf(f, T) # c * Cardinality(T)}
<1>1. SUFFICES ASSUME Bad # {} PROVE FALSE
  OBVIOUS
<1>2. Bad \subseteq SUBSET S
  OBVIOUS
<1>3. PICK m \in Bad : \A t \in Bad : t \subseteq m => t = m
  <2> HIDE DEF Bad
  <2> QED
    BY <1>1, <1>2, Least
<1>4. m \in SUBSET S /\ SumOf(f, m) # c * Cardinality(m)
  BY <1>3
<1>5. m # {}
  <2>1. SumOf(f, {}) = 0 /\ Cardinality({}) = 0 /\ c * 0 = 0
    BY SumEmpty, FS_EmptySet
  <2> QED
    BY <1>4, <2>1
<1> DEFINE x == Taken(m)
           r == m \ {x}
<1>6. IsFiniteSet(m) /\ IsFiniteSet(r) /\ x \in m /\ x \in S /\ r \subseteq S
  BY <1>4, <1>5, FS_Subset, TakenIn
<1>7. SumOf(f, r) = c * Cardinality(r)
  BY <1>3, <1>4, <1>6
<1>8. SumOf(f, m) = f[x] + SumOf(f, r)
  BY <1>5, <1>6, SumTaken
<1>9. Cardinality(r) = Cardinality(m) - 1 /\ Cardinality(m) \in Nat
  BY <1>6, FS_RemoveElement, FS_CardinalityType
<1> HIDE DEF x, r
<1>10. f[x] = c
  BY <1>6
<1>11. c * (Cardinality(m) - 1) = c * Cardinality(m) - c
  BY <1>9
<1>12. SumOf(f, m) = c + (c * Cardinality(m) - c)
  BY <1>7, <1>8, <1>9, <1>10, <1>11
<1>13. c * Cardinality(m) \in Int
  BY <1>9
<1> QED
  BY <1>4, <1>12, <1>13

(* The rows of a table sum to what its columns sum to. *)
LEMMA SumSwap ==
    ASSUME NEW S, IsFiniteSet(S), NEW T, IsFiniteSet(T), NEW F,
           \A x \in S, y \in T : F[x][y] \in Int
    PROVE  SumOf([x \in S |-> SumOf(F[x], T)], S)
              = SumOf([y \in T |-> SumOf([x \in S |-> F[x][y]], S)], T)
<1> DEFINE row    == [x \in S |-> SumOf(F[x], T)]
           at(y)  == [x \in S |-> F[x][y]]
           col(Q) == [y \in T |-> SumOf(at(y), Q)]
           Bad    == {Q \in SUBSET S : SumOf(row, Q) # SumOf(col(Q), T)}
<1>1. SUFFICES ASSUME Bad # {} PROVE FALSE
  OBVIOUS
<1>2. Bad \subseteq SUBSET S
  OBVIOUS
<1>3. PICK m \in Bad : \A t \in Bad : t \subseteq m => t = m
  <2> HIDE DEF Bad
  <2> QED
    BY <1>1, <1>2, Least
<1>4. m \in SUBSET S /\ SumOf(row, m) # SumOf(col(m), T)
  BY <1>3
<1>a. /\ \A x \in S : row[x] = SumOf(F[x], T)
      /\ \A x \in S, y \in T : at(y)[x] = F[x][y]
      /\ \A y \in T : \A Q : col(Q)[y] = SumOf(at(y), Q)
  OBVIOUS
<1> HIDE DEF row, at, col
<1>5. m # {}
  <2> DEFINE zero == [y \in T |-> 0]
  <2>1. \A y \in T : col({})[y] = zero[y]
    BY <1>a, SumEmpty
  <2>2. SumOf(zero, T) = 0
    BY SumZero
  <2> HIDE DEF zero
  <2>3. SumOf(col({}), T) = 0
    BY <2>1, <2>2, SumSame
  <2>4. SumOf(row, {}) = 0
    BY SumEmpty
  <2> QED
    BY <1>4, <2>3, <2>4
<1> DEFINE x == Taken(m)
           r == m \ {x}
<1>6. IsFiniteSet(m) /\ IsFiniteSet(r) /\ x \in m /\ x \in S /\ r \subseteq S
  BY <1>4, <1>5, FS_Subset, TakenIn
<1>7. SumOf(row, r) = SumOf(col(r), T)
  BY <1>3, <1>4, <1>6
<1>8. SumOf(row, m) = SumOf(F[x], T) + SumOf(row, r)
  BY <1>5, <1>6, <1>a, SumTaken
<1>9. ASSUME NEW y \in T
      PROVE  /\ F[x][y] \in Int /\ col(r)[y] \in Int
             /\ col(m)[y] = F[x][y] + col(r)[y]
  <2>1. SumOf(at(y), m) = at(y)[x] + SumOf(at(y), r)
    BY <1>5, <1>6, SumTaken
  <2>2. \A z \in r : at(y)[z] \in Int
    BY <1>6, <1>a
  <2>3. SumOf(at(y), r) \in Int
    BY <1>6, <2>2, SumInt
  <2> QED
    BY <1>6, <1>a, <2>1, <2>3
<1> HIDE DEF x, r
<1>10. SumOf(col(m), T) = SumOf(F[x], T) + SumOf(col(r), T)
  BY <1>9, SumAdd
<1> QED
  BY <1>4, <1>7, <1>8, <1>10

(* What each class has of a set makes up the set. *)
LEMMA SumOfClasses ==
    ASSUME NEW B, IsFiniteSet(B), NEW K, IsFiniteSet(K), NEW d, \A x \in B : d[x] \in K
    PROVE  SumOf([k \in K |-> Cardinality({x \in B : d[x] = k})], K) = Cardinality(B)
<1> DEFINE class(T, k) == {x \in T : d[x] = k}
           count(T)    == [k \in K |-> Cardinality(class(T, k))]
           Bad         == {T \in SUBSET B : SumOf(count(T), K) # Cardinality(T)}
<1>1. SUFFICES ASSUME Bad # {} PROVE FALSE
  OBVIOUS
<1>2. Bad \subseteq SUBSET B
  OBVIOUS
<1>3. PICK m \in Bad : \A t \in Bad : t \subseteq m => t = m
  <2> HIDE DEF Bad
  <2> QED
    BY <1>1, <1>2, Least
<1>4. m \in SUBSET B /\ SumOf(count(m), K) # Cardinality(m)
  BY <1>3
<1>a. \A T, k : k \in K => count(T)[k] = Cardinality(class(T, k))
  OBVIOUS
<1> HIDE DEF count
<1>5. m # {}
  <2> DEFINE zero == [k \in K |-> 0]
  <2>1. \A k \in K : count({})[k] = zero[k]
    <3> SUFFICES ASSUME NEW k \in K PROVE count({})[k] = 0
      OBVIOUS
    <3>1. class({}, k) = {}
      OBVIOUS
    <3> HIDE DEF class
    <3> QED
      BY <1>a, <3>1, FS_EmptySet
  <2>2. SumOf(zero, K) = 0
    BY SumZero
  <2> HIDE DEF zero
  <2>3. SumOf(count({}), K) = 0
    BY <2>1, <2>2, SumSame
  <2> QED
    BY <1>4, <2>3, FS_EmptySet
<1> DEFINE x == Taken(m)
           r == m \ {x}
<1>6. IsFiniteSet(m) /\ IsFiniteSet(r) /\ x \in m /\ d[x] \in K
  BY <1>4, <1>5, FS_Subset, TakenIn
<1>7. SumOf(count(r), K) = Cardinality(r)
  BY <1>3, <1>4, <1>6
<1>8. \A k \in K : IsFiniteSet(class(m, k)) /\ IsFiniteSet(class(r, k))
  BY <1>6, FS_Subset
<1>9. ASSUME NEW k \in K PROVE count(m)[k] \in Int /\ count(r)[k] \in Int
  <2> HIDE DEF class, x, r
  <2>1. Cardinality(class(m, k)) \in Nat /\ Cardinality(class(r, k)) \in Nat
    BY <1>8, FS_CardinalityType
  <2> QED
    BY <1>a, <2>1
<1>10. ASSUME NEW k \in K \ {d[x]} PROVE count(m)[k] = count(r)[k]
  <2>1. class(m, k) = class(r, k)
    OBVIOUS
  <2> HIDE DEF class, x, r
  <2> QED
    BY <1>a, <2>1
<1>11. count(r)[d[x]] = count(m)[d[x]] - 1
  <2>1. class(r, d[x]) = class(m, d[x]) \ {x} /\ x \in class(m, d[x])
    BY <1>6
  <2> HIDE DEF class, x, r
  <2>2. Cardinality(class(m, d[x]) \ {x}) = Cardinality(class(m, d[x])) - 1
    BY <1>6, <1>8, <2>1, FS_RemoveElement
  <2> QED
    BY <1>6, <1>a, <2>1, <2>2
<1>12. Cardinality(r) = Cardinality(m) - 1 /\ Cardinality(m) \in Nat
  BY <1>6, FS_RemoveElement, FS_CardinalityType
<1> HIDE DEF x, r
<1>13. SumOf(count(m), K) = SumOf(count(r), K) + (count(m)[d[x]] - count(r)[d[x]])
  <2> DEFINE f == count(r)
             g == count(m)
             z == d[x]
  <2>1. /\ z \in K
        /\ \A k \in K : f[k] \in Int /\ g[k] \in Int
        /\ \A k \in K \ {z} : g[k] = f[k]
    BY <1>6, <1>9, <1>10
  <2> HIDE DEF f, g, z
  <2>2. SumOf(g, K) = SumOf(f, K) + (g[z] - f[z])
    BY <2>1, SumChange
  <2> QED
    BY <2>2 DEF f, g, z
<1>14. count(m)[d[x]] - count(r)[d[x]] = 1
  BY <1>6, <1>9, <1>11
<1> QED
  BY <1>4, <1>7, <1>12, <1>13, <1>14
===============================================================================
