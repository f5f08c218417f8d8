------------------------------ MODULE ViewProofs ------------------------------
(***************************************************************************)
(* Theorems about View, for any plant, kit and order of the tables.        *)
(***************************************************************************)
EXTENDS View, Sums, SequenceTheorems

-------------------------------------------------------------------------------
(* Numbers and sequences.                                                  *)

LEMMA LeastNumber ==
    ASSUME NEW N \in Nat, NEW S \in SUBSET (1 .. N), S # {}
    PROVE  \E m \in S : \A k \in S : m <= k
<1> DEFINE T == {1 .. k : k \in S}
           U == 1 .. N
<1>1. IsFiniteSet(U)
  BY FS_Interval
<1>2. T \subseteq SUBSET U /\ T # {}
  <2>1. \A k \in S : 1 .. k \in SUBSET U
    OBVIOUS
  <2>2. \A t \in T : t \in SUBSET U
    BY <2>1, Zenon
  <2>3. PICK k : k \in S
    OBVIOUS
  <2>4. 1 .. k \in T
    BY <2>3
  <2> QED
    BY <2>2, <2>4, Zenon
<1>3. PICK t \in T : \A r \in T : r \subseteq t => r = t
  <2> HIDE DEF T, U
  <2> QED
    BY <1>1, <1>2, Least
<1>4. PICK m \in S : t = 1 .. m
  BY <1>3
<1>5. ASSUME NEW k \in S PROVE m <= k
  <2>1. 1 .. k \subseteq 1 .. m => 1 .. k = 1 .. m
    BY <1>3, <1>4
  <2>2. m \in 1 .. N /\ k \in 1 .. N
    OBVIOUS
  <2>3. 1 .. k = 1 .. m => m \in 1 .. k
    BY <2>2
  <2> QED
    BY <2>1, <2>2, <2>3
<1> QED
  BY <1>5

LEMMA GreatestNumber ==
    ASSUME NEW N \in Nat, NEW S \in SUBSET (1 .. N), S # {}
    PROVE  \E m \in S : \A k \in S : k <= m
<1> DEFINE R == {N + 1 - k : k \in S}
<1>1. R \in SUBSET (1 .. N) /\ R # {}
  <2>1. \A k \in S : N + 1 - k \in 1 .. N
    OBVIOUS
  <2> QED
    BY <2>1
<1>2. PICK r \in R : \A q \in R : r <= q
  <2> HIDE DEF R
  <2> QED
    BY <1>1, LeastNumber
<1>3. PICK m \in S : r = N + 1 - m
  BY <1>2
<1>4. ASSUME NEW k \in S PROVE k <= m
  <2>1. r <= N + 1 - k
    BY <1>2
  <2> QED
    BY <1>3, <2>1
<1> QED
  BY <1>4

(* A sequence of all elements of a finite set, each once.                   *)
LEMMA AllInSeq ==
    ASSUME NEW S, IsFiniteSet(S), NEW f \in SetToSeqs(S)
    PROVE  f \in Seq(S) /\ Len(f) = Cardinality(S) /\ ToSet(f) = S
<1> DEFINE n == Cardinality(S)
<1>1. n \in Nat
  BY FS_CardinalityType
<1>2. f \in [1 .. n -> S] /\ \A i, j \in 1 .. n : i # j => f[i] # f[j]
  BY DEF SetToSeqs
<1>3. f \in Injection(1 .. n, S)
  BY <1>2 DEF Injection, IsInjective
<1>4. Cardinality(1 .. n) = n
  BY <1>1, FS_Interval
<1>5. f \in Surjection(1 .. n, S)
  BY <1>3, <1>4, FS_Injection
<1>6. \A s \in S : \E i \in 1 .. n : f[i] = s
  BY <1>5 DEF Surjection
<1>7. f \in Seq(S) /\ Len(f) = n
  BY <1>1, <1>2
<1>8. ToSet(f) = S
  BY <1>2, <1>6 DEF ToSet
<1> QED
  BY <1>7, <1>8

(* A finite set can be numbered.                                            *)
LEMMA Numbering ==
    ASSUME NEW S, IsFiniteSet(S)
    PROVE  \E f \in [S -> 1 .. Cardinality(S)] : IsInjective(f)
<1>1. Cardinality(S) \in Nat
  BY FS_CardinalityType
<1>2. IsFiniteSet(1 .. Cardinality(S)) /\ Cardinality(1 .. Cardinality(S)) = Cardinality(S)
  BY <1>1, FS_Interval
<1>3. PICK f : f \in Bijection(S, 1 .. Cardinality(S))
  BY <1>2, FS_SameCardinalityBij DEF ExistsBijection
<1> QED
  BY <1>3 DEF Bijection, Injection, IsInjective

-------------------------------------------------------------------------------
(* Layouts.                                                                *)

LEMMA ChainInElements ==
    ASSUME NEW u \in Rules
    PROVE  /\ RtTracesOfAntecedents[u] \subseteq Elements
           /\ IsFiniteSet(RtTracesOfAntecedents[u])
           /\ u \in Sources /\ u \notin RtTracesOfAntecedents[u]
<1>1. RtTracesOfAntecedents[u] \subseteq Elements
  BY DEF RtTracesOfAntecedents, TabulateRealtimeAccessToAntecedents, LendRealtimeAccessTo
<1> QED
  BY <1>1, PlantAssumption, FS_Subset DEF Sources

(* A layout with the rule u alone on its first pane and each source of S on *)
(* one place of another, with sources of its axis and rate.                 *)
Shape(u, S, l) ==
    /\ l \in Seq(Seq(Sources)) /\ Len(l) >= 1 /\ l[1] = <<u>>
    /\ \A i \in 1 .. Len(l) : Len(l[i]) >= 1
    /\ \A i \in 2 .. Len(l) : \A j \in 1 .. Len(l[i]) :
          /\ l[i][j] \in S
          /\ Of(l[i][j]).axis = PaneOf(l[i]).axis /\ Of(l[i][j]).rate = PaneOf(l[i]).rate
    /\ \A s \in S : \E i \in 2 .. Len(l) : \E j \in 1 .. Len(l[i]) :
          \A h \in 2 .. Len(l) : \A k \in 1 .. Len(l[h]) :
             l[h][k] = s <=> i = h /\ j = k

LEMMA FirstLayout == ASSUME NEW u \in Rules PROVE Shape(u, {}, << <<u>> >>)
BY ChainInElements DEF Shape

LEMMA PlacedShape ==
    ASSUME NEW u \in Rules, NEW S \in SUBSET Elements, NEW s \in S, NEW l, Shape(u, S \ {s}, l),
           NEW p \in Placed(l, s)
    PROVE  Shape(u, S, p)
<1>0. u \in Sources /\ S \subseteq Sources /\ s \in Sources
  BY ChainInElements DEF Sources
<1>1. /\ l \in Seq(Seq(Sources)) /\ Len(l) >= 1 /\ l[1] = <<u>> /\ Len(l) \in Nat
      /\ \A i \in 1 .. Len(l) : l[i] \in Seq(Sources) /\ Len(l[i]) \in Nat /\ Len(l[i]) >= 1
  BY DEF Shape
<1>2. CASE p = Append(l, <<s>>)
  <2>1. /\ p \in Seq(Seq(Sources)) /\ Len(p) = Len(l) + 1
        /\ \A i \in 1 .. Len(l) : p[i] = l[i]
        /\ p[Len(p)] = <<s>> /\ Len(<<s>>) = 1 /\ <<s>>[1] = s
    <3> DEFINE new == <<s>>
    <3>1. new \in Seq(Sources) /\ Len(new) = 1 /\ new[1] = s
      BY <1>0
    <3>2. p = Append(l, new)
      BY <1>2
    <3> HIDE DEF new
    <3>3. /\ p \in Seq(Seq(Sources)) /\ Len(p) = Len(l) + 1
          /\ \A i \in 1 .. Len(l) : p[i] = l[i]
          /\ p[Len(l) + 1] = new
      BY <1>1, <3>1, <3>2
    <3> QED
      BY <3>1, <3>3 DEF new
  <2>2. ASSUME NEW i \in 1 .. Len(p) PROVE Len(p[i]) >= 1
    <3>1. CASE i \in 1 .. Len(l)
      BY <1>1, <2>1, <3>1
    <3>2. CASE i = Len(p)
      <4>1. p[i] = <<s>>
        BY <2>1, <3>2
      <4> QED
        BY <2>1, <4>1
    <3> QED
      BY <1>1, <2>1, <3>1, <3>2
  <2>3. ASSUME NEW i \in 2 .. Len(p), NEW j \in 1 .. Len(p[i])
        PROVE  /\ p[i][j] \in S
               /\ Of(p[i][j]).axis = PaneOf(p[i]).axis /\ Of(p[i][j]).rate = PaneOf(p[i]).rate
    <3>1. CASE i \in 2 .. Len(l)
      <4>1. p[i] = l[i]
        BY <1>1, <2>1, <3>1
      <4> QED
        BY <3>1, <4>1 DEF Shape
    <3>2. CASE i = Len(p)
      <4>1. p[i] = <<s>>
        BY <2>1, <3>2
      <4>2. j = 1
        BY <2>1, <4>1
      <4>3. p[i][j] = s /\ p[i][1] = s
        BY <2>1, <4>1, <4>2
      <4> QED
        BY <4>3 DEF PaneOf
    <3> QED
      BY <1>1, <2>1, <3>1, <3>2
  <2>4. ASSUME NEW t \in S
        PROVE  \E i \in 2 .. Len(p) : \E j \in 1 .. Len(p[i]) :
                  \A h \in 2 .. Len(p) : \A k \in 1 .. Len(p[h]) :
                     p[h][k] = t <=> i = h /\ j = k
    <3>0. /\ \A h \in 2 .. Len(p) : h \in 2 .. Len(l) \/ h = Len(p)
          /\ \A h \in 2 .. Len(l) : h # Len(p) /\ h \in 2 .. Len(p) /\ p[h] = l[h]
          /\ \A k \in 1 .. Len(p[Len(p)]) : k = 1
          /\ Len(p) \in 2 .. Len(p) /\ 1 \in 1 .. Len(p[Len(p)]) /\ p[Len(p)][1] = s
      BY <1>1, <2>1
    <3>1. CASE t = s
      <4>1. \A h \in 2 .. Len(l) : \A k \in 1 .. Len(l[h]) : l[h][k] # s
        BY DEF Shape
      <4>2. \A h \in 2 .. Len(p) : \A k \in 1 .. Len(p[h]) :
               p[h][k] = t <=> Len(p) = h /\ 1 = k
        BY <3>0, <3>1, <4>1
      <4> QED
        BY <3>0, <4>2
    <3>2. CASE t # s
      <4>0. PICK i \in 2 .. Len(l) : \E j \in 1 .. Len(l[i]) :
               \A h \in 2 .. Len(l) : \A k \in 1 .. Len(l[h]) : l[h][k] = t <=> i = h /\ j = k
        BY <3>2 DEF Shape
      <4>1. PICK j \in 1 .. Len(l[i]) :
               \A h \in 2 .. Len(l) : \A k \in 1 .. Len(l[h]) : l[h][k] = t <=> i = h /\ j = k
        BY <4>0
      <4>2. \A h \in 2 .. Len(p) : \A k \in 1 .. Len(p[h]) : p[h][k] = t <=> i = h /\ j = k
        BY <3>0, <3>2, <4>1
      <4>3. i \in 2 .. Len(p) /\ j \in 1 .. Len(p[i])
        BY <3>0, <4>1
      <4> QED
        BY <4>2, <4>3
    <3> QED
      BY <3>1, <3>2
  <2>5. p[1] = <<u>> /\ Len(p) >= 1
    BY <1>1, <2>1
  <2> QED
    BY <2>1, <2>2, <2>3, <2>4, <2>5 DEF Shape
<1>3. CASE \E i \in DOMAIN l : /\ AddTraceIfCompatible(l[i], s)
                               /\ p = [l EXCEPT ![i] = Append(l[i], s)]
  <2>1. PICK m \in DOMAIN l : /\ AddTraceIfCompatible(l[m], s)
                              /\ p = [l EXCEPT ![m] = Append(l[m], s)]
    BY <1>3
  <2>2. m \in 1 .. Len(l) /\ DOMAIN l = 1 .. Len(l)
    BY <1>1, <2>1
  <2>3. Of(s).axis = PaneOf(l[m]).axis /\ Of(s).rate = PaneOf(l[m]).rate
    BY <2>1 DEF AddTraceIfCompatible
  <2>4. m # 1
    <3>1. SUFFICES ASSUME m = 1 PROVE FALSE
      OBVIOUS
    <3>2. PaneOf(l[m]) = Of(u)
      BY <1>1, <3>1 DEF PaneOf
    <3>3. Of(s).kind = "rule"
      BY <1>0, <2>3, <3>2, TracesAssumption DEF Of
    <3>4. s \notin Rules /\ (s \in Facts \/ s \in Analogs)
      BY PlantAssumption DEF Elements
    <3> QED
      BY <3>3, <3>4, TracesAssumption DEF Of
  <2> DEFINE n == Len(l[m]) + 1
  <2>5. /\ p \in Seq(Seq(Sources)) /\ Len(p) = Len(l) /\ m \in 2 .. Len(p)
        /\ \A i \in 1 .. Len(l) : i # m => p[i] = l[i]
        /\ p[m] = Append(l[m], s)
    <3>1. Append(l[m], s) \in Seq(Sources)
      BY <1>0, <1>1, <2>2
    <3> QED
      BY <1>1, <2>1, <2>2, <2>4, <3>1
  <2>6. /\ n \in Nat /\ n > 1 /\ Len(p[m]) = n /\ p[m][n] = s
        /\ \A j \in 1 .. Len(l[m]) : p[m][j] = l[m][j]
        /\ p[m][1] = l[m][1]
        /\ \A j \in 1 .. Len(p[m]) : j = n \/ j \in 1 .. Len(l[m])
        /\ \A j \in 1 .. Len(l[m]) : j # n /\ j \in 1 .. Len(p[m])
    <3>1. l[m] \in Seq(Sources) /\ Len(l[m]) \in Nat /\ Len(l[m]) >= 1
      BY <1>1, <2>2
    <3> QED
      BY <1>0, <2>5, <3>1
  <2> HIDE DEF n
  <2>7. PaneOf(p[m]) = PaneOf(l[m])
    BY <2>6 DEF PaneOf
  <2>8. ASSUME NEW i \in 1 .. Len(p) PROVE Len(p[i]) >= 1
    <3>1. CASE i = m
      BY <2>6, <3>1
    <3>2. CASE i # m
      BY <1>1, <2>5, <3>2
    <3> QED
      BY <3>1, <3>2
  <2>9. ASSUME NEW i \in 2 .. Len(p), NEW j \in 1 .. Len(p[i])
        PROVE  /\ p[i][j] \in S
               /\ Of(p[i][j]).axis = PaneOf(p[i]).axis /\ Of(p[i][j]).rate = PaneOf(p[i]).rate
    <3>1. CASE i # m
      <4>1. p[i] = l[i] /\ i \in 2 .. Len(l)
        BY <1>1, <2>5, <3>1
      <4> QED
        BY <4>1 DEF Shape
    <3>2. CASE i = m /\ j = n
      BY <2>3, <2>6, <2>7, <3>2
    <3>3. CASE i = m /\ j # n
      <4>1. j \in 1 .. Len(l[m]) /\ p[i][j] = l[m][j] /\ m \in 2 .. Len(l)
        BY <2>5, <2>6, <3>3
      <4>2. /\ l[m][j] \in S
            /\ Of(l[m][j]).axis = PaneOf(l[m]).axis /\ Of(l[m][j]).rate = PaneOf(l[m]).rate
        BY <4>1 DEF Shape
      <4> QED
        BY <2>7, <3>3, <4>1, <4>2
    <3> QED
      BY <3>1, <3>2, <3>3
  <2>10. ASSUME NEW t \in S
         PROVE  \E i \in 2 .. Len(p) : \E j \in 1 .. Len(p[i]) :
                   \A h \in 2 .. Len(p) : \A k \in 1 .. Len(p[h]) :
                      p[h][k] = t <=> i = h /\ j = k
    <3>0. \A h \in 2 .. Len(p) : h \in 2 .. Len(l) /\ (h # m => p[h] = l[h])
      BY <1>1, <2>5
    <3>1. CASE t = s
      <4>1. \A h \in 2 .. Len(l) : \A k \in 1 .. Len(l[h]) : l[h][k] # s
        BY DEF Shape
      <4>2. ASSUME NEW h \in 2 .. Len(p), NEW k \in 1 .. Len(p[h])
            PROVE  p[h][k] = t <=> m = h /\ n = k
        <5>1. CASE h # m
          BY <3>0, <3>1, <4>1, <5>1
        <5>2. CASE h = m
          BY <2>6, <3>0, <3>1, <4>1, <5>2
        <5> QED
          BY <5>1, <5>2
      <4>3. n \in 1 .. Len(p[m])
        BY <2>6
      <4> QED
        BY <2>5, <4>2, <4>3
    <3>2. CASE t # s
      <4>0. PICK i \in 2 .. Len(l) : \E j \in 1 .. Len(l[i]) :
               \A h \in 2 .. Len(l) : \A k \in 1 .. Len(l[h]) : l[h][k] = t <=> i = h /\ j = k
        BY <3>2 DEF Shape
      <4>1. PICK j \in 1 .. Len(l[i]) :
               \A h \in 2 .. Len(l) : \A k \in 1 .. Len(l[h]) : l[h][k] = t <=> i = h /\ j = k
        BY <4>0
      <4>2. ASSUME NEW h \in 2 .. Len(p), NEW k \in 1 .. Len(p[h])
            PROVE  p[h][k] = t <=> i = h /\ j = k
        <5>1. CASE h # m
          BY <3>0, <4>1, <5>1
        <5>2. CASE h = m
          <6>1. CASE k = n
            <7>1. p[h][k] # t
              BY <2>6, <3>2, <5>2, <6>1
            <7>2. ~ (i = h /\ j = k)
              BY <2>6, <4>1, <5>2, <6>1
            <7> QED
              BY <7>1, <7>2
          <6>2. CASE k # n
            BY <2>6, <3>0, <4>1, <5>2, <6>2
          <6> QED
            BY <6>1, <6>2
        <5> QED
          BY <5>1, <5>2
      <4>3. i \in 2 .. Len(p) /\ j \in 1 .. Len(p[i])
        <5>1. CASE i = m
          BY <2>5, <2>6, <4>1, <5>1
        <5>2. CASE i # m
          BY <1>1, <2>5, <4>1, <5>2
        <5> QED
          BY <5>1, <5>2
      <4> QED
        BY <4>2, <4>3
    <3> QED
      BY <3>1, <3>2
  <2>11. p[1] = <<u>> /\ Len(p) >= 1
    BY <1>1, <2>4, <2>5
  <2> QED
    BY <2>5, <2>8, <2>9, <2>10, <2>11 DEF Shape
<1> QED
  BY <1>2, <1>3 DEF Placed

(* The layouts of S, by those of the sets with one source less.             *)
LaidOut(u, w, S) ==
    IF S = {} THEN {<< <<u>> >>}
    ELSE UNION {UNION {Placed(l, s) : l \in w[S \ {s}]} : s \in S}
Ways(w, u, T) == w = [S \in SUBSET T |-> LaidOut(u, w, S)]

LEMMA SameBelow ==
    ASSUME NEW u, NEW S, NEW v, NEW w, \A s \in S : v[S \ {s}] = w[S \ {s}]
    PROVE  LaidOut(u, v, S) = LaidOut(u, w, S)
<1> DEFINE a(s) == UNION {Placed(l, s) : l \in v[S \ {s}]}
           b(s) == UNION {Placed(l, s) : l \in w[S \ {s}]}
<1>1. \A s \in S : a(s) = b(s)
  OBVIOUS
<1>2. /\ LaidOut(u, v, S) = IF S = {} THEN {<< <<u>> >>} ELSE UNION {a(s) : s \in S}
      /\ LaidOut(u, w, S) = IF S = {} THEN {<< <<u>> >>} ELSE UNION {b(s) : s \in S}
  BY DEF LaidOut
<1> HIDE DEF a, b
<1>3. {a(s) : s \in S} = {b(s) : s \in S}
  BY <1>1
<1> QED
  BY <1>2, <1>3

LEMMA WaysUnique ==
    ASSUME NEW T, IsFiniteSet(T), NEW R \in SUBSET T, NEW u, NEW v, NEW w,
           Ways(v, u, T), Ways(w, u, R)
    PROVE  \A S \in SUBSET R : v[S] = w[S]
<1> DEFINE Bad == {S \in SUBSET R : v[S] # w[S]}
<1>1. SUFFICES ASSUME Bad # {} PROVE FALSE
  OBVIOUS
<1>2. Bad \subseteq SUBSET T
  OBVIOUS
<1>3. PICK m \in Bad : \A t \in Bad : t \subseteq m => t = m
  <2> HIDE DEF Bad
  <2> QED
    BY <1>1, <1>2, Least
<1>4. m \in SUBSET R /\ m \in SUBSET T /\ v[m] # w[m]
  BY <1>3
<1>5. \A s \in m : v[m \ {s}] = w[m \ {s}]
  <2>1. \A s \in m : m \ {s} \in SUBSET R /\ m \ {s} \subseteq m /\ m \ {s} # m
    BY <1>4
  <2> QED
    BY <1>3, <2>1
<1>6. v[m] = LaidOut(u, v, m) /\ w[m] = LaidOut(u, w, m)
  BY <1>4 DEF Ways
<1> QED
  BY <1>4, <1>5, <1>6, SameBelow

LEMMA WaysExist == ASSUME NEW T, IsFiniteSet(T), NEW u PROVE \E w : Ways(w, u, T)
<1> DEFINE Bad == {S \in SUBSET T : ~ \E w : Ways(w, u, S)}
<1>1. SUFFICES ASSUME Bad # {} PROVE FALSE
  <2>1. T \in SUBSET T
    OBVIOUS
  <2> QED
    BY <2>1
<1>2. Bad \subseteq SUBSET T
  OBVIOUS
<1>3. PICK m \in Bad : \A t \in Bad : t \subseteq m => t = m
  <2> HIDE DEF Bad
  <2> QED
    BY <1>1, <1>2, Least
<1> DEFINE G(S) == CHOOSE w : Ways(w, u, S)
           low == [S \in SUBSET m |-> G(S)[S]]
           w   == [S \in SUBSET m |-> IF S = m THEN LaidOut(u, low, m) ELSE G(S)[S]]
<1>4. ASSUME NEW S \in SUBSET m, S # m PROVE Ways(G(S), u, S) /\ IsFiniteSet(S)
  <2>1. S \in SUBSET T /\ S \notin Bad
    BY <1>3, <1>4
  <2>2. \E v : Ways(v, u, S)
    BY <2>1
  <2> QED
    BY <2>1, <2>2, FS_Subset
<1> HIDE DEF G
<1>5. ASSUME NEW S \in SUBSET m PROVE w[S] = LaidOut(u, w, S)
  <2>1. \A s \in S : S \ {s} \in SUBSET m /\ S \ {s} # m /\ S \ {s} \in SUBSET S
    OBVIOUS
  <2>2. \A s \in S : w[S \ {s}] = G(S \ {s})[S \ {s}]
    BY <2>1
  <2>3. CASE S = m
    <3>1. \A s \in S : w[S \ {s}] = low[S \ {s}]
      BY <2>1, <2>2
    <3>2. w[S] = LaidOut(u, low, S)
      BY <2>3
    <3> HIDE DEF w, low
    <3> QED
      BY <3>1, <3>2, SameBelow
  <2>4. CASE S # m
    <3>1. w[S] = G(S)[S] /\ S \in SUBSET S
      BY <2>4
    <3> HIDE DEF w, low
    <3>2. Ways(G(S), u, S) /\ IsFiniteSet(S)
      BY <1>4, <2>4
    <3>3. G(S)[S] = LaidOut(u, G(S), S)
      BY <3>1, <3>2 DEF Ways
    <3>4. \A s \in S : G(S)[S \ {s}] = G(S \ {s})[S \ {s}]
      <4> SUFFICES ASSUME NEW s \in S PROVE G(S)[S \ {s}] = G(S \ {s})[S \ {s}]
        OBVIOUS
      <4>1. Ways(G(S \ {s}), u, S \ {s})
        BY <1>4, <2>1
      <4> QED
        BY <2>1, <3>2, <4>1, WaysUnique
    <3>5. \A s \in S : G(S)[S \ {s}] = w[S \ {s}]
      BY <2>2, <3>4
    <3> QED
      BY <3>1, <3>3, <3>5, SameBelow
  <2> QED
    BY <2>3, <2>4
<1>6. Ways(w, u, m)
  <2>1. w = [S \in SUBSET m |-> w[S]]
    OBVIOUS
  <2> HIDE DEF w
  <2> QED
    BY <1>5, <2>1 DEF Ways
<1> QED
  BY <1>3, <1>6

LEMMA WaysShape ==
    ASSUME NEW u \in Rules, NEW T \in SUBSET Elements, IsFiniteSet(T), NEW w, Ways(w, u, T)
    PROVE  \A S \in SUBSET T : \A l \in w[S] : Shape(u, S, l)
<1> DEFINE Bad == {S \in SUBSET T : ~ \A l \in w[S] : Shape(u, S, l)}
<1>1. SUFFICES ASSUME Bad # {} PROVE FALSE
  OBVIOUS
<1>2. Bad \subseteq SUBSET T
  OBVIOUS
<1>3. PICK m \in Bad : \A t \in Bad : t \subseteq m => t = m
  <2> HIDE DEF Bad
  <2> QED
    BY <1>1, <1>2, Least
<1>4. PICK l \in w[m] : ~ Shape(u, m, l)
  BY <1>3
<1>5. m \in SUBSET Elements /\ l \in LaidOut(u, w, m)
  BY <1>3, <1>4 DEF Ways
<1>6. CASE m = {}
  <2>1. l = << <<u>> >>
    BY <1>5, <1>6 DEF LaidOut
  <2> QED
    BY <1>4, <1>6, <2>1, FirstLayout
<1>7. CASE m # {}
  <2>1. PICK s \in m : \E k \in w[m \ {s}] : l \in Placed(k, s)
    BY <1>5, <1>7 DEF LaidOut
  <2>2. PICK k \in w[m \ {s}] : l \in Placed(k, s)
    BY <2>1
  <2>3. m \ {s} \in SUBSET T /\ m \ {s} \notin Bad
    BY <1>3, <2>1
  <2>4. Shape(u, m \ {s}, k)
    BY <2>2, <2>3
  <2> QED
    BY <1>4, <1>5, <2>1, <2>2, <2>4, PlacedShape
<1> QED
  BY <1>6, <1>7

LEMMA LayoutShape ==
    ASSUME NEW u \in Rules, NEW l \in LayoutsOf[u]
    PROVE  Shape(u, RtTracesOfAntecedents[u], l)
<1> DEFINE T == RtTracesOfAntecedents[u]
           ways == CHOOSE w : Ways(w, u, T)
<1>2. l \in Layouts(u)
  BY DEF LayoutsOf
<1>3. Layouts(u) = ways[T]
  BY DEF Layouts, Ways, LaidOut
<1>4. T \in SUBSET Elements /\ IsFiniteSet(T)
  BY ChainInElements
<1> HIDE DEF T
<1>5. Ways(ways, u, T)
  BY <1>4, WaysExist
<1> HIDE DEF ways
<1>6. T \in SUBSET T
  OBVIOUS
<1> QED
  BY <1>2, <1>3, <1>4, <1>5, <1>6, WaysShape DEF T

-------------------------------------------------------------------------------
(* The pane of all rules.                                                  *)

WithRule(pane, n) ==
    IF n = 1 THEN <<RuleOrder[1]>>
    ELSE IF AddTraceIfCompatible(pane[n - 1], RuleOrder[n])
         THEN Append(pane[n - 1], RuleOrder[n])
         ELSE pane[n - 1]
Panes(pane) == pane = [n \in 1 .. Len(RuleOrder) |-> WithRule(pane, n)]

(* The first n rules.                                                       *)
FirstRules == [n \in 1 .. Len(RuleOrder) |-> SubSeq(RuleOrder, 1, n)]

LEMMA RulesInOrder ==
    /\ Len(RuleOrder) \in Nat \ {0} /\ DOMAIN RuleOrder = 1 .. Len(RuleOrder)
    /\ \A n \in 1 .. Len(RuleOrder) : RuleOrder[n] \in Rules
BY PlantAssumption DEF Rules, ToSet

LEMMA FirstRulesStep ==
    ASSUME NEW pane, NEW n \in 1 .. Len(RuleOrder),
           n # 1 => pane[n - 1] = SubSeq(RuleOrder, 1, n - 1)
    PROVE  WithRule(pane, n) = SubSeq(RuleOrder, 1, n)
<1>0. RuleOrder \in Seq(Rules) /\ Len(RuleOrder) \in Nat /\ n \in Nat /\ n >= 1
  BY PlantAssumption, RulesInOrder
<1>1. CASE n = 1
  <2>1. SubSeq(RuleOrder, 1, 1) = <<RuleOrder[1]>>
    <3> DEFINE q == SubSeq(RuleOrder, 1, 1)
    <3>1. q \in Seq(Rules) /\ Len(q) = 1 /\ q[1] = RuleOrder[1]
      BY <1>0, <1>1
    <3> HIDE DEF q
    <3>2. q = <<q[1]>>
      BY <3>1
    <3> QED
      BY <3>1, <3>2 DEF q
  <2> QED
    BY <1>1, <2>1 DEF WithRule
<1>2. CASE n # 1
  <2> DEFINE p == SubSeq(RuleOrder, 1, n - 1)
  <2>1. /\ p \in Seq(Rules) /\ Len(p) = n - 1 /\ p[1] = RuleOrder[1]
        /\ Append(p, RuleOrder[n]) = SubSeq(RuleOrder, 1, n)
    BY <1>0, <1>2
  <2>2. RuleOrder[1] \in Rules /\ RuleOrder[n] \in Rules
    BY <1>0, RulesInOrder
  <2> HIDE DEF p
  <2>3. PaneOf(p) = KitTrace /\ Of(RuleOrder[n]) = KitTrace
    BY <2>1, <2>2 DEF PaneOf, Of
  <2>4. Len(p) <= MaxTraces[KitTrace.kind]
    BY <1>0, <2>1, TracesAssumption
  <2>5. AddTraceIfCompatible(p, RuleOrder[n])
    BY <2>3, <2>4 DEF AddTraceIfCompatible
  <2>6. pane[n - 1] = p
    BY <1>2 DEF p
  <2> QED
    BY <1>2, <2>1, <2>5, <2>6 DEF WithRule
<1> QED
  BY <1>1, <1>2

LEMMA PanesExist == Panes(FirstRules)
<1>1. ASSUME NEW n \in 1 .. Len(RuleOrder) PROVE FirstRules[n] = WithRule(FirstRules, n)
  <2>1. n # 1 => FirstRules[n - 1] = SubSeq(RuleOrder, 1, n - 1)
    BY RulesInOrder DEF FirstRules
  <2> QED
    BY <2>1, FirstRulesStep DEF FirstRules
<1>2. FirstRules = [n \in 1 .. Len(RuleOrder) |-> FirstRules[n]]
  BY DEF FirstRules
<1> QED
  BY <1>1, <1>2 DEF Panes

LEMMA PanesUnique ==
    ASSUME NEW pane, Panes(pane)
    PROVE  \A n \in 1 .. Len(RuleOrder) : pane[n] = SubSeq(RuleOrder, 1, n)
<1> DEFINE N == Len(RuleOrder)
           Bad == {n \in 1 .. N : pane[n] # SubSeq(RuleOrder, 1, n)}
<1>1. SUFFICES ASSUME Bad # {} PROVE FALSE
  OBVIOUS
<1>2. N \in Nat /\ Bad \in SUBSET (1 .. N)
  BY RulesInOrder
<1>3. PICK n \in Bad : \A k \in Bad : n <= k
  <2> HIDE DEF Bad, N
  <2> QED
    BY <1>1, <1>2, LeastNumber
<1>4. n \in 1 .. N /\ pane[n] # SubSeq(RuleOrder, 1, n)
  BY <1>3
<1>5. n # 1 => pane[n - 1] = SubSeq(RuleOrder, 1, n - 1)
  <2>1. n # 1 => n - 1 \in 1 .. N /\ ~ n <= n - 1
    BY <1>2, <1>4
  <2> QED
    BY <1>3, <2>1
<1>6. pane[n] = WithRule(pane, n)
  BY <1>4 DEF Panes
<1> QED
  BY <1>4, <1>5, <1>6, FirstRulesStep

LEMMA AllRulesOnPane == ResultsPane = RuleOrder
<1> DEFINE pane == CHOOSE p : Panes(p)
<1>1. ResultsPane = pane[Len(RuleOrder)]
  BY DEF ResultsPane, Panes, WithRule
<1>2. Panes(pane)
  BY PanesExist
<1> HIDE DEF pane
<1>3. pane[Len(RuleOrder)] = SubSeq(RuleOrder, 1, Len(RuleOrder))
  BY <1>2, PanesUnique, RulesInOrder
<1>4. SubSeq(RuleOrder, 1, Len(RuleOrder)) = RuleOrder
  BY PlantAssumption
<1> QED
  BY <1>1, <1>3, <1>4

-------------------------------------------------------------------------------
(* Boards.                                                                 *)

(* The order of panes has each pane once; in real time, when the top one    *)
(* alone is of rules, facts come before what is not one.                    *)
LEMMA Arrangement ==
    ASSUME NEW mode \in {"realtime", "snapshot"}, NEW owned, IsFiniteSet(DOMAIN owned),
           NEW top \in DOMAIN owned, NEW o \in Arranged(mode, owned, top),
           \A k \in DOMAIN owned : PaneOf(owned[k]).kind = "rule" <=> k = top
    PROVE  /\ o \in Seq(DOMAIN owned) /\ Len(o) >= 1 /\ o[1] = top
           /\ ToSet(o) = DOMAIN owned
           /\ mode = "realtime" =>
                /\ Len(o) = Cardinality(DOMAIN owned)
                /\ \A i \in 1 .. Len(o) : 1 < i => o[i] # top
                /\ \A i, j \in 1 .. Len(o) :
                      1 < i /\ i < j /\ PaneOf(owned[o[j]]).kind = "fact"
                        => PaneOf(owned[o[i]]).kind = "fact"
<1> DEFINE K       == DOMAIN owned
           type    == [k \in K |-> <<mode, PaneOf(owned[k]).kind>>]
           facts   == {k \in K : type[k] = <<"realtime", "fact">>}
           analogs == {k \in K \ facts : type[k] # <<"realtime", "rule">>}
<1>0. Arranged(mode, owned, top) =
        {<<top>> \o f \o a : f \in SetToSeqs(facts), a \in SetToSeqs(analogs)}
  BY DEF Arranged
<1>1. \E f \in SetToSeqs(facts) : \E a \in SetToSeqs(analogs) : o = <<top>> \o f \o a
  <2> HIDE DEF facts, analogs
  <2> QED
    BY <1>0
<1>2. PICK f \in SetToSeqs(facts) : \E a \in SetToSeqs(analogs) : o = <<top>> \o f \o a
  BY <1>1, Zenon
<1>3. PICK a \in SetToSeqs(analogs) : o = <<top>> \o f \o a
  BY <1>2, Zenon
<1> DEFINE FactPane(k) == type[k] = <<"realtime", "fact">>
           RulePane(k) == type[k] = <<"realtime", "rule">>
<1>4. ASSUME NEW k \in K
      PROVE  /\ FactPane(k) <=> mode = "realtime" /\ PaneOf(owned[k]).kind = "fact"
             /\ RulePane(k) <=> mode = "realtime" /\ k = top
  <2>1. type[k] = <<mode, PaneOf(owned[k]).kind>>
    OBVIOUS
  <2>2. PaneOf(owned[k]).kind = "rule" <=> k = top
    OBVIOUS
  <2> HIDE DEF type
  <2> QED
    BY <2>1, <2>2
<1>5. facts = {k \in K : FactPane(k)} /\ analogs = {k \in K \ facts : ~ RulePane(k)}
  OBVIOUS
<1> HIDE DEF FactPane, RulePane, type, facts, analogs
<1>6. /\ facts \subseteq K /\ analogs \subseteq K /\ facts \cap analogs = {}
      /\ mode = "snapshot" => facts = {} /\ analogs = K
      /\ mode = "realtime" =>
            /\ facts = {k \in K : PaneOf(owned[k]).kind = "fact"}
            /\ analogs = {k \in K \ facts : k # top}
  <2>1. "snapshot" # "realtime"
    OBVIOUS
  <2>2. \A k : /\ k \in facts <=> k \in K /\ mode = "realtime" /\ PaneOf(owned[k]).kind = "fact"
               /\ k \in analogs <=> k \in K /\ k \notin facts /\ ~ (mode = "realtime" /\ k = top)
    BY <1>4, <1>5
  <2> QED
    BY <2>1, <2>2
<1>7. IsFiniteSet(facts) /\ IsFiniteSet(analogs) /\ IsFiniteSet(K)
  BY <1>6, FS_Subset
<1>8. /\ f \in Seq(facts) /\ Len(f) = Cardinality(facts) /\ ToSet(f) = facts
      /\ a \in Seq(analogs) /\ Len(a) = Cardinality(analogs) /\ ToSet(a) = analogs
  BY <1>3, <1>7, AllInSeq
<1> DEFINE n == Len(f)
           m == Len(a)
<1>9. n \in Nat /\ m \in Nat /\ f \in Seq(K) /\ a \in Seq(K)
  BY <1>6, <1>8
<1>10. /\ o \in Seq(K) /\ Len(o) = 1 + n + m /\ o[1] = top
       /\ \A i \in 1 .. n : o[1 + i] = f[i]
       /\ \A i \in 1 .. m : o[1 + n + i] = a[i]
  <2> DEFINE t == <<top>>
  <2>1. t \in Seq(K) /\ Len(t) = 1 /\ t[1] = top
    OBVIOUS
  <2> HIDE DEF t
  <2>2. o = (t \o f) \o a
    BY <1>3 DEF t
  <2> DEFINE tf == t \o f
  <2>4. o = tf \o a
    BY <2>2, Zenon
  <2>3. /\ tf \in Seq(K) /\ Len(tf) = 1 + n /\ tf[1] = top
        /\ \A i \in 1 .. n : tf[1 + i] = f[i]
    <3>1. /\ tf \in Seq(K) /\ Len(tf) = Len(t) + Len(f)
          /\ \A i \in 1 .. Len(t) + Len(f) :
                tf[i] = IF i <= Len(t) THEN t[i] ELSE f[i - Len(t)]
      BY <1>9, <2>1, ConcatProperties
    <3> HIDE DEF tf
    <3> QED
      BY <1>9, <2>1, <3>1
  <2> HIDE DEF tf, n, m
  <2>5. /\ o \in Seq(K) /\ Len(o) = Len(tf) + Len(a)
        /\ \A i \in 1 .. Len(tf) + Len(a) :
              o[i] = IF i <= Len(tf) THEN tf[i] ELSE a[i - Len(tf)]
    BY <1>9, <2>3, <2>4, ConcatProperties
  <2>6. Len(f) = n /\ Len(a) = m
    BY DEF n, m
  <2> QED
    BY <1>9, <2>3, <2>5, <2>6
<1>11. /\ \A i \in 1 .. n : f[i] \in facts
       /\ \A i \in 1 .. m : a[i] \in analogs
       /\ \A k \in facts : \E i \in 1 .. n : f[i] = k
       /\ \A k \in analogs : \E i \in 1 .. m : a[i] = k
  BY <1>8, <1>9 DEF ToSet
<1> HIDE DEF n, m
<1>12. ToSet(o) = K
  <2>1. \A i \in 1 .. Len(o) : o[i] \in K
    BY <1>9, <1>10
  <2>2. ASSUME NEW k \in K PROVE \E i \in 1 .. Len(o) : o[i] = k
    <3>1. CASE k = top
      <4>1. 1 \in 1 .. Len(o)
        BY <1>9, <1>10
      <4> QED
        BY <1>10, <3>1, <4>1
    <3>2. CASE k \in facts
      <4>1. PICK i \in 1 .. n : f[i] = k
        BY <1>11, <3>2
      <4>2. 1 + i \in 1 .. Len(o)
        BY <1>9, <1>10
      <4> QED
        BY <1>10, <4>1, <4>2
    <3>3. CASE k \in analogs
      <4>1. PICK i \in 1 .. m : a[i] = k
        BY <1>11, <3>3
      <4>2. 1 + n + i \in 1 .. Len(o)
        BY <1>9, <1>10
      <4> QED
        BY <1>10, <4>1, <4>2
    <3> QED
      BY <1>6, <3>1, <3>2, <3>3
  <2>3. DOMAIN o = 1 .. Len(o)
    BY <1>10
  <2> QED
    BY <2>1, <2>2, <2>3 DEF ToSet
<1>13. ASSUME mode = "realtime"
       PROVE  /\ Len(o) = Cardinality(K)
              /\ \A i \in 1 .. Len(o) : 1 < i => o[i] # top
              /\ \A i, j \in 1 .. Len(o) :
                    1 < i /\ i < j /\ PaneOf(owned[o[j]]).kind = "fact"
                      => PaneOf(owned[o[i]]).kind = "fact"
  <2>1. top \notin facts /\ top \notin analogs /\ K = (facts \cup analogs) \cup {top}
    BY <1>6, <1>13
  <2>2. Cardinality(facts \cup analogs) = n + m /\ IsFiniteSet(facts \cup analogs)
    <3>1. Cardinality(facts \cap analogs) = 0
      BY <1>6, FS_EmptySet
    <3>2. Cardinality(facts) = n /\ Cardinality(analogs) = m
      BY <1>8 DEF n, m
    <3>3. /\ IsFiniteSet(facts \cup analogs)
          /\ Cardinality(facts \cup analogs) =
                Cardinality(facts) + Cardinality(analogs) - Cardinality(facts \cap analogs)
      BY <1>7, FS_Union
    <3> QED
      BY <1>9, <3>1, <3>2, <3>3
  <2>3. Cardinality(K) = n + m + 1
    BY <2>1, <2>2, FS_AddElement
  <2>4. ASSUME NEW i \in 1 .. Len(o), NEW j \in 1 .. Len(o), 1 < i, i < j,
               PaneOf(owned[o[j]]).kind = "fact"
        PROVE  PaneOf(owned[o[i]]).kind = "fact"
    <3>1. o[j] \in K
      BY <1>10
    <3>2. o[j] \in facts
      BY <1>6, <1>13, <2>4, <3>1
    <3>3. j <= 1 + n
      <4>1. SUFFICES ASSUME ~ j <= 1 + n PROVE FALSE
        OBVIOUS
      <4>2. j - 1 - n \in 1 .. m /\ 1 + n + (j - 1 - n) = j
        BY <1>9, <1>10, <4>1
      <4>3. o[j] = a[j - 1 - n]
        BY <1>10, <4>2
      <4> QED
        BY <1>6, <1>11, <3>2, <4>2, <4>3
    <3>4. i - 1 \in 1 .. n /\ 1 + (i - 1) = i
      BY <1>9, <2>4, <3>3
    <3>5. o[i] = f[i - 1]
      BY <1>10, <3>4
    <3> QED
      BY <1>6, <1>11, <1>13, <3>4, <3>5
  <2>5. ASSUME NEW i \in 1 .. Len(o), 1 < i PROVE o[i] # top
    <3>1. CASE i <= 1 + n
      <4>1. i - 1 \in 1 .. n /\ 1 + (i - 1) = i
        BY <1>9, <2>5, <3>1
      <4>2. o[i] = f[i - 1]
        BY <1>10, <4>1
      <4> QED
        BY <1>11, <2>1, <4>1, <4>2
    <3>2. CASE ~ i <= 1 + n
      <4>1. i - 1 - n \in 1 .. m /\ 1 + n + (i - 1 - n) = i
        BY <1>9, <1>10, <3>2
      <4>2. o[i] = a[i - 1 - n]
        BY <1>10, <4>1
      <4> QED
        BY <1>11, <2>1, <4>1, <4>2
    <3> QED
      BY <3>1, <3>2
  <2> QED
    BY <1>9, <1>10, <2>3, <2>4, <2>5
<1> QED
  BY <1>9, <1>10, <1>12, <1>13

(* What a board holds when it is built from a layout of panes, the first of *)
(* which alone is of rules, with keys from k on.                            *)
LaidBoard(b, mode, case, l, keys, k) ==
    /\ b.krono = k + Len(l) /\ b.knob = k + Len(l) + 1 /\ b.case = case /\ b.key = keys
    /\ DOMAIN b.panes = k .. (k + Len(l) - 1)
    /\ \A i \in DOMAIN b.panes : b.panes[i] = l[i - k + 1]
    /\ b.order \in Seq(DOMAIN b.panes) /\ Len(b.order) >= 1 /\ b.order[1] = k
    /\ ToSet(b.order) = DOMAIN b.panes
    /\ mode = "realtime" =>
          /\ Len(b.order) = Cardinality(DOMAIN b.panes)
          /\ \A i \in 1 .. Len(b.order) : 1 < i => b.order[i] # k
          /\ \A i, j \in 1 .. Len(b.order) :
                1 < i /\ i < j /\ PaneOf(b.panes[b.order[j]]).kind = "fact"
                  => PaneOf(b.panes[b.order[i]]).kind = "fact"

LEMMA NewBoard ==
    ASSUME NEW mode \in {"realtime", "snapshot"}, NEW case, NEW keys, NEW k \in Nat,
           NEW l \in Seq(Seq(Sources)), Len(l) >= 1,
           \A i \in 1 .. Len(l) : PaneOf(l[i]).kind = "rule" <=> i = 1,
           NEW b \in Boards(mode, case, l, keys, k)
    PROVE  LaidBoard(b, mode, case, l, keys, k)
<1> DEFINE owned == [i \in k .. (k + Len(l) - 1) |-> l[i - k + 1]]
           K     == DOMAIN owned
           board(o) == [krono |-> k + Len(l), knob |-> k + Len(l) + 1, case |-> case,
                        order |-> o, panes |-> owned, key |-> keys]
<1>0. Boards(mode, case, l, keys, k) = {board(o) : o \in Arranged(mode, owned, k)}
  BY DEF Boards
<1>1. PICK o \in Arranged(mode, owned, k) : b = board(o)
  <2> HIDE DEF board, owned
  <2> QED
    BY <1>0
<1>2. Len(l) \in Nat
  OBVIOUS
<1>3. K = k .. (k + Len(l) - 1)
  OBVIOUS
<1>4. IsFiniteSet(K) /\ k \in K
  BY <1>2, <1>3, FS_Interval
<1>5. \A i \in K : i - k + 1 \in 1 .. Len(l) /\ owned[i] = l[i - k + 1]
  BY <1>2, <1>3
<1> HIDE DEF K
<1>6. \A i \in K : PaneOf(owned[i]).kind = "rule" <=> i = k
  <2> SUFFICES ASSUME NEW i \in K PROVE PaneOf(owned[i]).kind = "rule" <=> i = k
    OBVIOUS
  <2>1. PaneOf(l[i - k + 1]).kind = "rule" <=> i - k + 1 = 1
    BY <1>5
  <2>2. i - k + 1 = 1 <=> i = k
    BY <1>2, <1>3
  <2> QED
    BY <1>5, <2>1, <2>2
<1>7. K = DOMAIN owned
  BY DEF K
<1> HIDE DEF owned
<1>8. /\ IsFiniteSet(DOMAIN owned) /\ k \in DOMAIN owned
      /\ \A i \in DOMAIN owned : PaneOf(owned[i]).kind = "rule" <=> i = k
  BY <1>4, <1>6, <1>7
<1>9. /\ o \in Seq(K) /\ Len(o) >= 1 /\ o[1] = k /\ ToSet(o) = K
      /\ mode = "realtime" =>
           /\ Len(o) = Cardinality(K)
           /\ \A i \in 1 .. Len(o) : 1 < i => o[i] # k
           /\ \A i, j \in 1 .. Len(o) :
                 1 < i /\ i < j /\ PaneOf(owned[o[j]]).kind = "fact"
                   => PaneOf(owned[o[i]]).kind = "fact"
  <2> HIDE DEF board
  <2>1. /\ o \in Seq(DOMAIN owned) /\ Len(o) >= 1 /\ o[1] = k /\ ToSet(o) = DOMAIN owned
        /\ mode = "realtime" =>
             /\ Len(o) = Cardinality(DOMAIN owned)
             /\ \A i \in 1 .. Len(o) : 1 < i => o[i] # k
             /\ \A i, j \in 1 .. Len(o) :
                   1 < i /\ i < j /\ PaneOf(owned[o[j]]).kind = "fact"
                     => PaneOf(owned[o[i]]).kind = "fact"
    BY <1>1, <1>8, Arrangement
  <2> QED
    BY <1>7, <2>1
<1>10. /\ b.krono = k + Len(l) /\ b.knob = k + Len(l) + 1 /\ b.case = case /\ b.key = keys
       /\ b.order = o /\ b.panes = owned
  BY <1>1
<1> QED
  BY <1>3, <1>5, <1>7, <1>9, <1>10 DEF LaidBoard

(* A board laid out by the chain of a rule shows it.                        *)
LEMMA ChainShown ==
    ASSUME NEW u \in Rules, NEW l \in LayoutsOf[u], NEW k \in Nat,
           NEW mode \in {"realtime", "snapshot"}, NEW case, NEW keys,
           NEW b \in Boards(mode, case, l, keys, k)
    PROVE  /\ LaidBoard(b, mode, case, l, keys, k) /\ Len(l) \in Nat
           /\ OnPanes(b) \subseteq {u} \cup RtTracesOfAntecedents[u]
           /\ ShowsChain(u, b)
           /\ mode = "realtime" => FactsAbove(b)
<1> DEFINE S == RtTracesOfAntecedents[u]
<1>0. S \subseteq Elements
  BY ChainInElements
<1> HIDE DEF S
<1>1. Shape(u, S, l)
  BY LayoutShape DEF S
<1>2. /\ l \in Seq(Seq(Sources)) /\ Len(l) >= 1 /\ l[1] = <<u>> /\ Len(l) \in Nat
      /\ \A i \in 1 .. Len(l) : l[i] \in Seq(Sources) /\ Len(l[i]) >= 1 /\ Len(l[i]) \in Nat
  BY <1>1 DEF Shape
<1>3. \A s \in S : Of(s).kind \in {"fact", "analog"}
  <2> SUFFICES ASSUME NEW s \in S PROVE Of(s).kind \in {"fact", "analog"}
    OBVIOUS
  <2>1. s \notin Rules /\ (s \in Facts \/ s \in Analogs)
    BY <1>0, PlantAssumption DEF Elements
  <2> QED
    BY <2>1, TracesAssumption DEF Of
<1>4. PaneOf(l[1]).kind = "rule"
  <2>1. PaneOf(l[1]) = KitTrace
    BY <1>2 DEF PaneOf, Of
  <2> QED
    BY <2>1, TracesAssumption
<1>5. \A i \in 2 .. Len(l) : l[i][1] \in S /\ PaneOf(l[i]).kind \in {"fact", "analog"}
  <2> SUFFICES ASSUME NEW i \in 2 .. Len(l)
               PROVE  l[i][1] \in S /\ PaneOf(l[i]).kind \in {"fact", "analog"}
    OBVIOUS
  <2>1. i \in 1 .. Len(l) /\ 1 \in 1 .. Len(l[i])
    BY <1>2
  <2>2. l[i][1] \in S
    BY <1>1, <2>1 DEF Shape
  <2> QED
    BY <1>3, <2>2 DEF PaneOf
<1>6. \A i \in 1 .. Len(l) : PaneOf(l[i]).kind = "rule" <=> i = 1
  BY <1>2, <1>4, <1>5
<1>7. LaidBoard(b, mode, case, l, keys, k)
  BY <1>2, <1>6, NewBoard
<1>8. /\ DOMAIN b.panes = k .. (k + Len(l) - 1) /\ b.order[1] = k
      /\ \A i \in DOMAIN b.panes :
            b.panes[i] = l[i - k + 1] /\ i - k + 1 \in 1 .. Len(l) /\ i \in Int
  <2>1. /\ DOMAIN b.panes = k .. (k + Len(l) - 1) /\ b.order[1] = k
        /\ \A i \in DOMAIN b.panes : b.panes[i] = l[i - k + 1]
    BY <1>7 DEF LaidBoard
  <2>2. \A i \in k .. (k + Len(l) - 1) : i - k + 1 \in 1 .. Len(l) /\ i \in Int
    BY <1>2
  <2> QED
    BY <2>1, <2>2
<1> DEFINE rest == DOMAIN b.panes \ {k}
           q    == b.panes
<1>9. \A i : i \in rest <=> i \in DOMAIN q /\ i # k
  OBVIOUS
<1>10. q = b.panes
  OBVIOUS
<1> HIDE DEF rest, q
<1>11. /\ \A i \in rest : i - k + 1 \in 2 .. Len(l) /\ q[i] = l[i - k + 1] /\ i \in Int
       /\ \A i \in 2 .. Len(l) : i + k - 1 \in rest /\ q[i + k - 1] = l[i]
                                  /\ (i + k - 1) - k + 1 = i
  <2>1. ASSUME NEW i \in rest
        PROVE  i - k + 1 \in 2 .. Len(l) /\ q[i] = l[i - k + 1] /\ i \in Int
    <3>1. /\ i # k /\ q[i] = l[i - k + 1] /\ i - k + 1 \in 1 .. Len(l) /\ i \in Int
      BY <1>8, <1>9, <1>10
    <3> QED
      BY <1>2, <3>1
  <2>2. \A i \in 2 .. Len(l) : i + k - 1 \in rest /\ (i + k - 1) - k + 1 = i
    BY <1>2, <1>8, <1>9, <1>10
  <2> QED
    BY <2>1, <2>2
<1>12. \A i \in 1 .. Len(l) : DOMAIN l[i] = 1 .. Len(l[i])
  BY <1>2
<1>13. \A i \in rest : DOMAIN q[i] = 1 .. Len(q[i])
  <2> SUFFICES ASSUME NEW i \in rest PROVE DOMAIN q[i] = 1 .. Len(q[i])
    OBVIOUS
  <2>1. i - k + 1 \in 1 .. Len(l) /\ q[i] = l[i - k + 1]
    BY <1>2, <1>11
  <2> QED
    BY <1>12, <2>1
<1>14. q[k] = <<u>> /\ b.order[1] = k
  <2>1. k \in DOMAIN q
    BY <1>2, <1>8, <1>10
  <2>2. q[k] = l[k - k + 1] /\ k - k + 1 = 1
    BY <1>8, <1>10, <2>1
  <2> QED
    BY <1>2, <1>8, <2>2
<1>15. OnPanes(b) \subseteq {u} \cup S
  <2> SUFFICES ASSUME NEW i \in DOMAIN q, NEW j \in DOMAIN q[i] PROVE q[i][j] \in {u} \cup S
    BY <1>10 DEF OnPanes, ToSet
  <2>1. CASE i = k
    <3>1. q[i] = <<u>>
      BY <1>14, <2>1
    <3> QED
      BY <3>1
  <2>2. CASE i # k
    <3>1. i \in rest
      BY <1>9, <2>2
    <3>2. i - k + 1 \in 2 .. Len(l) /\ q[i] = l[i - k + 1] /\ j \in 1 .. Len(q[i])
      BY <1>11, <1>13, <3>1
    <3>3. l[i - k + 1][j] \in S
      BY <1>1, <3>2 DEF Shape
    <3> QED
      BY <3>2, <3>3
  <2> QED
    BY <2>1, <2>2
<1>16. ASSUME NEW s \in S
       PROVE  \E g \in rest : \E i \in DOMAIN q[g] :
                 \A h \in rest : \A j \in DOMAIN q[h] : q[h][j] = s <=> g = h /\ i = j
  <2>1. PICK g \in 2 .. Len(l) : \E i \in 1 .. Len(l[g]) :
           \A h \in 2 .. Len(l) : \A j \in 1 .. Len(l[h]) : l[h][j] = s <=> g = h /\ i = j
    BY <1>1, <1>16 DEF Shape
  <2>2. PICK i \in 1 .. Len(l[g]) :
           \A h \in 2 .. Len(l) : \A j \in 1 .. Len(l[h]) : l[h][j] = s <=> g = h /\ i = j
    BY <2>1
  <2>3. g + k - 1 \in rest /\ q[g + k - 1] = l[g]
    BY <1>11
  <2>4. i \in DOMAIN q[g + k - 1]
    BY <1>13, <2>3
  <2>5. ASSUME NEW h \in rest, NEW j \in DOMAIN q[h]
        PROVE  q[h][j] = s <=> g + k - 1 = h /\ i = j
    <3>1. h - k + 1 \in 2 .. Len(l) /\ q[h] = l[h - k + 1] /\ h \in Int
      BY <1>11
    <3>2. j \in 1 .. Len(l[h - k + 1])
      BY <1>13, <3>1
    <3>3. l[h - k + 1][j] = s <=> g = h - k + 1 /\ i = j
      BY <2>2, <3>1, <3>2
    <3>4. g = h - k + 1 <=> g + k - 1 = h
      BY <3>1
    <3> QED
      BY <3>1, <3>3, <3>4
  <2> QED
    BY <2>3, <2>4, <2>5
<1>17. ASSUME NEW g \in rest, NEW i \in DOMAIN q[g]
       PROVE  /\ Of(q[g][i]).kind = PaneOf(q[g]).kind /\ Of(q[g][i]).axis = PaneOf(q[g]).axis
              /\ Of(q[g][i]).rate = PaneOf(q[g]).rate
  <2>1. g - k + 1 \in 2 .. Len(l) /\ q[g] = l[g - k + 1] /\ i \in 1 .. Len(q[g])
    BY <1>11, <1>13, <1>17
  <2>2. /\ q[g][i] \in S
        /\ Of(q[g][i]).axis = PaneOf(q[g]).axis /\ Of(q[g][i]).rate = PaneOf(q[g]).rate
    BY <1>1, <2>1 DEF Shape
  <2>3. q[g][1] \in S
    BY <1>5, <2>1
  <2>4. q[g][i] \in Sources /\ q[g][1] \in Sources
    BY <1>0, <2>2, <2>3 DEF Sources
  <2>5. Of(q[g][i]).kind = PaneOf(q[g]).kind
    BY <2>2, <2>4, TracesAssumption DEF PaneOf
  <2> QED
    BY <2>2, <2>5
<1>18. ShowsChain(u, b)
  BY <1>14, <1>16, <1>17 DEF ShowsChain, S, rest, q
<1>19. ASSUME mode = "realtime" PROVE FactsAbove(b)
  <2>1. /\ Len(b.order) = Cardinality(DOMAIN q) /\ b.order \in Seq(DOMAIN q)
        /\ \A i \in 1 .. Len(b.order) : 1 < i => b.order[i] # k
        /\ \A i, j \in 1 .. Len(b.order) :
              1 < i /\ i < j /\ PaneOf(q[b.order[j]]).kind = "fact"
                => PaneOf(q[b.order[i]]).kind = "fact"
    BY <1>7, <1>19, <1>10 DEF LaidBoard
  <2>2. ASSUME NEW i \in DOMAIN b.order, NEW j \in DOMAIN b.order, 1 < i, i < j,
               PaneOf(q[b.order[i]]).kind = "analog"
        PROVE  PaneOf(q[b.order[j]]).kind = "analog"
    <3> DEFINE o == b.order
    <3>1. i \in 1 .. Len(o) /\ j \in 1 .. Len(o) /\ 1 < j
      BY <2>1, <2>2
    <3>2. o[j] \in rest
      BY <1>9, <2>1, <3>1
    <3> HIDE DEF o
    <3>3. PaneOf(q[o[j]]).kind \in {"fact", "analog"}
      BY <1>5, <1>11, <3>2
    <3>4. PaneOf(q[o[j]]).kind = "fact" => PaneOf(q[o[i]]).kind = "fact"
      BY <2>1, <2>2, <3>1 DEF o
    <3> QED
      BY <2>2, <3>3, <3>4 DEF o
  <2> QED
    BY <1>10, <2>1, <2>2 DEF FactsAbove
<1> QED
  BY <1>2, <1>7, <1>15, <1>18, <1>19 DEF S

-------------------------------------------------------------------------------
(* The tables and what is shown.                                           *)

Old == {KeyOf[s] : s \in Sources}
TracesOf(b) == {b.key[s] : s \in DOMAIN b.key}

(* The keys given to a board, its knob and the traces of its case.          *)
GivenTo(b) ==
    ({b.krono, b.knob, b.case} \ {0}) \cup DOMAIN b.panes
      \cup (IF b.case = 0 THEN {} ELSE TracesOf(b))

BoardOk(b, n) ==
    /\ \A k \in GivenTo(b) : k \in 1 .. (n - 1) /\ k \notin Old
    /\ ToSet(b.order) = DOMAIN b.panes
    /\ OnPanes(b) \subseteq DOMAIN b.key
    /\ b.case = 0 => b.key = KeyOf

Apart(B) == \A b, d \in B : b # d => GivenTo(b) \cap GivenTo(d) = {}

Lists(kr, kn, pa, B) ==
    /\ kr = {b.krono : b \in B} \ {0}
    /\ kn = {b.knob : b \in B} \ {0}
    /\ pa = UNION {DOMAIN b.panes : b \in B}

IInv ==
    /\ nextKey \in Nat /\ \A k \in Old : k \in 1 .. (nextKey - 1)
    /\ \A b \in Shown : BoardOk(b, nextKey)
    /\ Apart(Shown)
    /\ Lists(kronos, knobs, panes, Shown)
    /\ kit.board.case = 0 /\ \A u \in DOMAIN cases : cases[u].case # 0
    /\ \A u, v \in DOMAIN cases : cases[u] = cases[v] => u = v
    /\ caseKeys = {cases[u].case : u \in DOMAIN cases}
    /\ traces = Old \cup UNION {TracesOf(cases[u]) : u \in DOMAIN cases}
    /\ KronoShowsChain

(* What is shown after a step was shown before it or has keys of its own.   *)
Grows ==
    /\ nextKey' \in Nat /\ nextKey' >= nextKey
    /\ \A b \in Shown' : b \in Shown \/ \A k \in GivenTo(b) : k >= nextKey

LEMMA NothingGiven ==
    /\ Nothing.krono = 0 /\ Nothing.knob = 0 /\ Nothing.case = 0 /\ Nothing.key = KeyOf
    /\ Nothing.order = <<>> /\ DOMAIN Nothing.panes = {} /\ GivenTo(Nothing) = {}
    /\ \A n : BoardOk(Nothing, n)
<1>1. /\ Nothing.krono = 0 /\ Nothing.knob = 0 /\ Nothing.case = 0 /\ Nothing.key = KeyOf
      /\ Nothing.order = <<>> /\ Nothing.panes = <<>>
  BY DEF Nothing
<1>2. DOMAIN Nothing.panes = {} /\ ToSet(Nothing.order) = {}
  BY <1>1 DEF ToSet
<1>3. GivenTo(Nothing) = {}
  BY <1>1, <1>2 DEF GivenTo
<1>4. OnPanes(Nothing) = {}
  BY <1>2 DEF OnPanes
<1> QED
  BY <1>1, <1>2, <1>3, <1>4 DEF BoardOk

LEMMA RealtimeGiven ==
    ASSUME NEW k \in Nat \ {0}, NEW l, Len(l) \in Nat, NEW b,
           LaidBoard(b, "realtime", 0, l, KeyOf, k)
    PROVE  \A j \in GivenTo(b) : j \in k .. (k + Len(l) + 1)
BY DEF LaidBoard, GivenTo

LEMMA SnapshotGiven ==
    ASSUME NEW c \in Nat \ {0}, NEW n \in Nat, NEW l, Len(l) \in Nat, NEW b, NEW keys,
           \A s \in DOMAIN keys : keys[s] \in (c + 1) .. (c + 1 + n),
           LaidBoard(b, "snapshot", c, l, keys, c + n + 2)
    PROVE  \A j \in GivenTo(b) : j \in c .. (c + n + Len(l) + 3)
<1>1. /\ b.krono = c + n + 2 + Len(l) /\ b.knob = c + n + 2 + Len(l) + 1 /\ b.case = c
      /\ b.key = keys /\ DOMAIN b.panes = (c + n + 2) .. (c + n + 2 + Len(l) - 1)
  BY DEF LaidBoard
<1>2. \A j \in TracesOf(b) : j \in (c + 1) .. (c + 1 + n)
  BY <1>1 DEF TracesOf
<1> QED
  BY <1>1, <1>2 DEF GivenTo

LEMMA JoinApart ==
    ASSUME NEW B, NEW n \in Nat, NEW m \in Nat, n <= m,
           \A b \in B : BoardOk(b, n), Apart(B),
           NEW new, BoardOk(new, m), \A k \in GivenTo(new) : k >= n
    PROVE  (\A b \in B \cup {new} : BoardOk(b, m)) /\ Apart(B \cup {new})
<1>1. \A b \in B : \A k \in GivenTo(b) : k \in 1 .. (n - 1)
  BY DEF BoardOk
<1>2. \A b \in B : BoardOk(b, m)
  BY DEF BoardOk
<1>3. \A b \in B : GivenTo(b) \cap GivenTo(new) = {}
  BY <1>1
<1> QED
  BY <1>2, <1>3 DEF Apart

LEMMA Relisted ==
    ASSUME NEW kr, NEW kn, NEW pa, NEW B, NEW old, NEW new,
           Lists(kr, kn, pa, B \cup {old}),
           \A b \in B : GivenTo(b) \cap GivenTo(old) = {}
    PROVE  Lists((kr \ {old.krono}) \cup ({new.krono} \ {0}),
                 (kn \ {old.knob}) \cup ({new.knob} \ {0}),
                 (pa \ DOMAIN old.panes) \cup DOMAIN new.panes, B \cup {new})
<1>1. \A b \in B : /\ b.krono = old.krono => b.krono = 0
                   /\ b.knob = old.knob => b.knob = 0
                   /\ DOMAIN b.panes \cap DOMAIN old.panes = {}
  BY DEF GivenTo
<1>2. (kr \ {old.krono}) \cup ({new.krono} \ {0}) = {b.krono : b \in B \cup {new}} \ {0}
  BY <1>1 DEF Lists
<1>3. (kn \ {old.knob}) \cup ({new.knob} \ {0}) = {b.knob : b \in B \cup {new}} \ {0}
  BY <1>1 DEF Lists
<1>4. (pa \ DOMAIN old.panes) \cup DOMAIN new.panes = UNION {DOMAIN b.panes : b \in B \cup {new}}
  <2>1. \A k : k \in pa <=> k \in DOMAIN old.panes \/ \E b \in B : k \in DOMAIN b.panes
    BY DEF Lists
  <2> QED
    BY <1>1, <2>1
<1> QED
  BY <1>2, <1>3, <1>4 DEF Lists

(* Nothing stands in no table.                                              *)
LEMMA NothingListed ==
    ASSUME NEW kr, NEW kn, NEW pa, NEW B
    PROVE  Lists(kr, kn, pa, B \cup {Nothing}) <=> Lists(kr, kn, pa, B)
<1>1. {b.krono : b \in B \cup {Nothing}} \ {0} = {b.krono : b \in B} \ {0}
  BY NothingGiven
<1>2. {b.knob : b \in B \cup {Nothing}} \ {0} = {b.knob : b \in B} \ {0}
  BY NothingGiven
<1>3. UNION {DOMAIN b.panes : b \in B \cup {Nothing}} = UNION {DOMAIN b.panes : b \in B}
  BY NothingGiven
<1> QED
  BY <1>1, <1>2, <1>3 DEF Lists

LEMMA InitIInv == Init => IInv
<1> SUFFICES ASSUME Init PROVE IInv
  OBVIOUS
<1>1. Old \in SUBSET (1 .. (MaxKey - 1)) /\ Old # {} /\ MaxKey - 1 \in Nat
  <2>1. PICK u \in Rules : TRUE
    BY RulesInOrder
  <2>2. KeyOf[u] \in Old /\ KeyOf[u] \in 1 .. (MaxKey - 1)
    BY <2>1, KeysAssumption DEF Old, Sources
  <2>3. Old \subseteq 1 .. (MaxKey - 1)
    BY KeysAssumption DEF Old
  <2> QED
    BY <2>2, <2>3, KeysAssumption
<1>2. \E m \in Old : \A k \in Old : k <= m
  BY <1>1, GreatestNumber
<1>3. nextKey \in Nat /\ \A k \in Old : k \in 1 .. (nextKey - 1)
  <2> DEFINE top == CHOOSE m \in Old : \A s \in Sources : KeyOf[s] <= m
  <2>1. \E m \in Old : \A s \in Sources : KeyOf[s] <= m
    BY <1>2 DEF Old
  <2>2. top \in Old /\ \A s \in Sources : KeyOf[s] <= top
    BY <2>1
  <2>3. nextKey = 1 + top
    BY DEF Init, Old
  <2> HIDE DEF top
  <2>4. \A k \in Old : k <= top
    BY <2>2 DEF Old
  <2> QED
    BY <1>1, <2>2, <2>3, <2>4
<1>4. /\ kit.board = Nothing /\ kit.one = NoRule /\ kit.all = FALSE /\ DOMAIN cases = {}
      /\ Shown = {Nothing}
  BY DEF Init, Shown
<1>5. Lists(kronos, knobs, panes, Shown)
  <2>1. Lists({}, {}, {}, {})
    BY DEF Lists
  <2>2. Lists({}, {}, {}, {} \cup {Nothing})
    BY <2>1, NothingListed
  <2> QED
    BY <1>4, <2>2 DEF Init
<1>6. /\ caseKeys = {cases[u].case : u \in DOMAIN cases}
      /\ traces = Old \cup UNION {TracesOf(cases[u]) : u \in DOMAIN cases}
  BY <1>4 DEF Init, Old
<1>7. Apart(Shown) /\ \A b \in Shown : BoardOk(b, nextKey)
  BY <1>4, NothingGiven DEF Apart
<1>8. KronoShowsChain
  BY <1>4 DEF KronoShowsChain
<1> QED
  BY <1>3, <1>4, <1>5, <1>6, <1>7, <1>8, NothingGiven DEF IInv

(* The kit takes another board for its krono in real time.                  *)
LEMMA KitStep ==
    ASSUME IInv, nextKey' \in Nat, nextKey' >= nextKey,
           NEW new, BoardOk(new, nextKey'), new.case = 0, \A k \in GivenTo(new) : k >= nextKey,
           ReplaceKrono(kit.board, new), kit'.board = new,
           UNCHANGED <<traces, caseKeys, cases>>, KronoShowsChain'
    PROVE  IInv' /\ Grows
<1> DEFINE B   == {cases[u] : u \in DOMAIN cases}
           old == kit.board
           n   == nextKey'
<1>1. Shown = B \cup {old} /\ Shown' = B \cup {new}
  BY DEF Shown
<1>2. /\ nextKey \in Nat /\ (\A k \in Old : k \in 1 .. (nextKey - 1))
      /\ (\A b \in Shown : BoardOk(b, nextKey)) /\ Apart(Shown)
      /\ Lists(kronos, knobs, panes, Shown) /\ old.case = 0
      /\ \A u \in DOMAIN cases : cases[u].case # 0
      /\ \A u, v \in DOMAIN cases : cases[u] = cases[v] => u = v
      /\ caseKeys = {cases[u].case : u \in DOMAIN cases}
      /\ traces = Old \cup UNION {TracesOf(cases[u]) : u \in DOMAIN cases}
  BY DEF IInv
<1>3. \A b \in B : b.case # 0
  BY <1>2
<1>4. n \in Nat /\ nextKey <= n /\ BoardOk(new, n)
  BY <1>2
<1>5. /\ kronos' = (kronos \ {old.krono}) \cup ({new.krono} \ {0})
      /\ knobs' = (knobs \ {old.knob}) \cup ({new.knob} \ {0})
      /\ panes' = (panes \ DOMAIN old.panes) \cup DOMAIN new.panes
  BY DEF ReplaceKrono, LoseKrono
<1> HIDE DEF B, old, n
<1>6. (\A b \in B \cup {new} : BoardOk(b, n)) /\ Apart(B \cup {new})
  <2>1. (\A b \in B : BoardOk(b, nextKey)) /\ Apart(B)
    BY <1>1, <1>2 DEF Apart
  <2> QED
    BY <1>2, <1>4, <2>1, JoinApart
<1>7. Lists(kronos', knobs', panes', B \cup {new})
  <2>1. \A b \in B : GivenTo(b) \cap GivenTo(old) = {}
    <3>1. \A b \in B : b # old
      BY <1>2, <1>3
    <3> QED
      BY <1>1, <1>2, <3>1 DEF Apart
  <2> QED
    BY <1>1, <1>2, <1>5, <2>1, Relisted
<1>8. /\ nextKey' \in Nat /\ (\A k \in Old : k \in 1 .. (nextKey' - 1))
      /\ (\A b \in Shown' : BoardOk(b, nextKey')) /\ Apart(Shown')
      /\ Lists(kronos', knobs', panes', Shown')
  BY <1>1, <1>2, <1>4, <1>6, <1>7 DEF n
<1>9. IInv'
  BY <1>2, <1>8 DEF IInv
<1>10. Grows
  BY <1>1 DEF Grows
<1> QED
  BY <1>9, <1>10

(* Everything a realtime board needs to stand in the kit.                   *)
LEMMA RealtimeOk ==
    ASSUME IInv, NEW l, Len(l) \in Nat, nextKey' = nextKey + Len(l) + 2,
           NEW b, LaidBoard(b, "realtime", 0, l, KeyOf, nextKey), OnPanes(b) \subseteq Sources
    PROVE  /\ nextKey' \in Nat /\ nextKey' >= nextKey /\ BoardOk(b, nextKey') /\ b.case = 0
           /\ \A k \in GivenTo(b) : k >= nextKey
<1> DEFINE k == nextKey
           n == nextKey'
<1>1. k \in Nat \ {0} /\ \A j \in Old : j \in 1 .. (k - 1)
  <2>1. nextKey \in Nat /\ \A j \in Old : j \in 1 .. (nextKey - 1)
    BY DEF IInv
  <2>2. PICK j \in Old : TRUE
    <3>1. PICK u \in Rules : TRUE
      BY RulesInOrder
    <3> QED
      BY <3>1 DEF Old, Sources
  <2> QED
    BY <2>1, <2>2
<1>2. n = k + Len(l) + 2
  OBVIOUS
<1>3. LaidBoard(b, "realtime", 0, l, KeyOf, k)
  OBVIOUS
<1> HIDE DEF k, n
<1>4. \A j \in GivenTo(b) : j \in k .. (k + Len(l) + 1)
  BY <1>1, <1>3, RealtimeGiven
<1>5. \A j \in GivenTo(b) : j \in 1 .. (n - 1) /\ j \notin Old /\ j >= k
  BY <1>1, <1>2, <1>4
<1>6. ToSet(b.order) = DOMAIN b.panes /\ b.key = KeyOf /\ b.case = 0
  BY <1>3 DEF LaidBoard
<1>7. BoardOk(b, n)
  BY <1>5, <1>6, KeysAssumption DEF BoardOk
<1>8. n \in Nat /\ n >= k
  BY <1>1, <1>2
<1> QED
  BY <1>5, <1>6, <1>7, <1>8 DEF k, n

LEMMA RuleStep ==
    ASSUME IInv, NEW u \in Rules, LoadRealtimeKronoWithLogicChainOfRule(u)
    PROVE  IInv' /\ Grows
<1>1. PICK l \in LayoutsOf[u] :
        /\ Given(Len(l) + 2)
        /\ \E new \in Boards("realtime", 0, l, KeyOf, Fresh) :
             /\ kit' = [board |-> new, one |-> u, all |-> FALSE]
             /\ ReplaceKrono(kit.board, new)
  BY DEF LoadRealtimeKronoWithLogicChainOfRule
<1>2. PICK new \in Boards("realtime", 0, l, KeyOf, nextKey) :
             /\ kit' = [board |-> new, one |-> u, all |-> FALSE]
             /\ ReplaceKrono(kit.board, new)
  BY <1>1 DEF Fresh
<1>3. nextKey \in Nat
  BY DEF IInv
<1>4. /\ LaidBoard(new, "realtime", 0, l, KeyOf, nextKey) /\ Len(l) \in Nat
      /\ OnPanes(new) \subseteq {u} \cup RtTracesOfAntecedents[u]
      /\ ShowsChain(u, new) /\ FactsAbove(new)
  <2>1. "realtime" \in {"realtime", "snapshot"}
    OBVIOUS
  <2> QED
    BY <1>2, <1>3, <2>1, ChainShown
<1>5. OnPanes(new) \subseteq Sources
  BY <1>4, ChainInElements DEF Sources
<1>6. nextKey' = nextKey + Len(l) + 2
  BY <1>1, <1>3, <1>4 DEF Given, Fresh
<1>7. UNCHANGED <<traces, caseKeys, cases>>
  BY DEF LoadRealtimeKronoWithLogicChainOfRule
<1>8. kit'.board = new /\ kit'.one = u /\ kit'.all = FALSE
  BY <1>2
<1>9. KronoShowsChain'
  <2>1. \A v \in DOMAIN cases : ShowsChain(v, cases[v])
    BY DEF IInv, KronoShowsChain
  <2> QED
    BY <1>4, <1>7, <1>8, <2>1 DEF KronoShowsChain
<1>10. /\ nextKey' \in Nat /\ nextKey' >= nextKey /\ BoardOk(new, nextKey') /\ new.case = 0
       /\ \A k \in GivenTo(new) : k >= nextKey
  BY <1>4, <1>5, <1>6, RealtimeOk
<1> QED
  BY <1>2, <1>7, <1>8, <1>9, <1>10, KitStep

LEMMA AllStep ==
    ASSUME IInv, LoadRealtimeKronoWithResultsFromAllRulesInKit
    PROVE  IInv' /\ Grows
<1> DEFINE l == <<ResultsPane>>
<1>1. PICK new \in Boards("realtime", 0, l, KeyOf, nextKey) :
             /\ kit' = [board |-> new, one |-> NoRule, all |-> TRUE]
             /\ ReplaceKrono(kit.board, new)
  BY DEF LoadRealtimeKronoWithResultsFromAllRulesInKit, Fresh
<1>2. l \in Seq(Seq(Sources)) /\ Len(l) = 1 /\ l[1] = RuleOrder
  <2>1. RuleOrder \in Seq(Sources)
    BY PlantAssumption DEF Sources
  <2> QED
    BY <2>1, AllRulesOnPane
<1>3. \A i \in 1 .. Len(l) : PaneOf(l[i]).kind = "rule" <=> i = 1
  <2>1. PaneOf(RuleOrder) = KitTrace
    BY RulesInOrder DEF PaneOf, Of
  <2> QED
    BY <1>2, <2>1, TracesAssumption
<1> HIDE DEF l
<1>4. nextKey \in Nat /\ nextKey' = nextKey + Len(l) + 2
  BY <1>2 DEF IInv, LoadRealtimeKronoWithResultsFromAllRulesInKit, Given, Fresh
<1>5. LaidBoard(new, "realtime", 0, l, KeyOf, nextKey)
  <2>1. "realtime" \in {"realtime", "snapshot"} /\ Len(l) >= 1
    BY <1>2
  <2> QED
    BY <1>1, <1>2, <1>3, <1>4, <2>1, NewBoard
<1>6. /\ DOMAIN new.panes = {nextKey} /\ new.panes[nextKey] = RuleOrder
      /\ new.order[1] = nextKey
  <2>1. /\ DOMAIN new.panes = nextKey .. (nextKey + Len(l) - 1) /\ new.order[1] = nextKey
        /\ \A i \in DOMAIN new.panes : new.panes[i] = l[i - nextKey + 1]
    BY <1>5 DEF LaidBoard
  <2>2. nextKey .. (nextKey + Len(l) - 1) = {nextKey} /\ nextKey - nextKey + 1 = 1
    BY <1>2, <1>4
  <2> QED
    BY <1>2, <2>1, <2>2
<1>7. OnPanes(new) \subseteq Sources
  BY <1>6 DEF OnPanes, Sources, Rules
<1>8. UNCHANGED <<traces, caseKeys, cases>>
  BY DEF LoadRealtimeKronoWithResultsFromAllRulesInKit
<1>9. kit'.board = new /\ kit'.one = NoRule /\ kit'.all = TRUE
  BY <1>1
<1>10. KronoShowsChain'
  <2>1. \A v \in DOMAIN cases : ShowsChain(v, cases[v])
    BY DEF IInv, KronoShowsChain
  <2> QED
    BY <1>6, <1>8, <1>9, <2>1 DEF KronoShowsChain
<1>11. /\ nextKey' \in Nat /\ nextKey' >= nextKey /\ BoardOk(new, nextKey') /\ new.case = 0
       /\ \A k \in GivenTo(new) : k >= nextKey
  <2>1. Len(l) \in Nat
    BY <1>2
  <2> QED
    BY <1>4, <1>5, <1>7, <2>1, RealtimeOk
<1> QED
  BY <1>1, <1>8, <1>9, <1>10, <1>11, KitStep

LEMMA ClearStep ==
    ASSUME IInv, ClearKitOfRealtimeKronoParts
    PROVE  IInv' /\ Grows
<1>1. /\ kit'.board = Nothing /\ kit'.one = NoRule /\ kit'.all = FALSE
      /\ ReplaceKrono(kit.board, Nothing) /\ nextKey' = nextKey
      /\ UNCHANGED <<traces, caseKeys, cases>>
  BY DEF ClearKitOfRealtimeKronoParts
<1>2. nextKey' \in Nat /\ nextKey' >= nextKey
  BY <1>1 DEF IInv
<1>3. KronoShowsChain'
  <2>1. \A v \in DOMAIN cases : ShowsChain(v, cases[v])
    BY DEF IInv, KronoShowsChain
  <2> QED
    BY <1>1, <2>1 DEF KronoShowsChain
<1> QED
  BY <1>1, <1>2, <1>3, NothingGiven, KitStep

(* A case opens with keys of its own.                                       *)
LEMMA CaseStep ==
    ASSUME IInv, NEW u \in Rules, CCase(u)
    PROVE  IInv' /\ Grows
<1> DEFINE chain  == RtTracesOfAntecedents[u]
           c      == nextKey
           n      == Cardinality(chain)
           number == CHOOSE f \in [chain -> 1 .. n] : IsInjective(f)
           keys   == [s \in {u} \cup chain |-> IF s = u THEN c + 1 ELSE c + 1 + number[s]]
           B      == {cases[v] : v \in DOMAIN cases}
           m      == nextKey'
<1>1. PICK l \in LayoutsOf[u] :
        /\ Given(Len(l) + n + 4)
        /\ \E new \in Boards("snapshot", c, l, keys, c + n + 2) :
             /\ cases' = [r \in {u} \cup DOMAIN cases |-> IF r = u THEN new ELSE cases[r]]
             /\ ReplaceKrono(Nothing, new)
  BY DEF CCase, Fresh
<1>2. PICK new \in Boards("snapshot", c, l, keys, c + n + 2) :
             /\ cases' = [r \in {u} \cup DOMAIN cases |-> IF r = u THEN new ELSE cases[r]]
             /\ ReplaceKrono(Nothing, new)
  BY <1>1
<1>3. /\ u \notin DOMAIN cases /\ traces' = traces \cup {keys[s] : s \in DOMAIN keys}
      /\ caseKeys' = caseKeys \cup {c} /\ kit' = kit
  BY DEF CCase, Fresh
<1>4. chain \subseteq Elements /\ IsFiniteSet(chain) /\ u \notin chain
  BY ChainInElements
<1> HIDE DEF chain
<1>5. n \in Nat
  BY <1>4, FS_CardinalityType
<1>6. number \in [chain -> 1 .. n]
  BY <1>4, Numbering
<1> HIDE DEF n, number
<1>7. DOMAIN keys = {u} \cup chain
  OBVIOUS
<1>8. /\ nextKey \in Nat /\ (\A k \in Old : k \in 1 .. (nextKey - 1))
      /\ (\A b \in Shown : BoardOk(b, nextKey)) /\ Apart(Shown)
      /\ Lists(kronos, knobs, panes, Shown) /\ kit.board.case = 0
      /\ \A v \in DOMAIN cases : cases[v].case # 0
      /\ \A v, w \in DOMAIN cases : cases[v] = cases[w] => v = w
      /\ caseKeys = {cases[v].case : v \in DOMAIN cases}
      /\ traces = Old \cup UNION {TracesOf(cases[v]) : v \in DOMAIN cases}
      /\ KronoShowsChain
  BY DEF IInv
<1>9. c \in Nat \ {0} /\ \A j \in Old : j \in 1 .. (c - 1)
  <2>1. PICK j \in Old : TRUE
    <3>1. PICK v \in Rules : TRUE
      BY RulesInOrder
    <3> QED
      BY <3>1 DEF Old, Sources
  <2> QED
    BY <1>8, <2>1
<1>10. \A s \in DOMAIN keys : keys[s] \in (c + 1) .. (c + 1 + n)
  <2> SUFFICES ASSUME NEW s \in {u} \cup chain PROVE keys[s] \in (c + 1) .. (c + 1 + n)
    BY <1>7
  <2>1. keys[s] = IF s = u THEN c + 1 ELSE c + 1 + number[s]
    OBVIOUS
  <2>2. s # u => number[s] \in 1 .. n
    BY <1>6
  <2> HIDE DEF keys
  <2> QED
    BY <1>5, <1>9, <2>1, <2>2
<1> HIDE DEF keys
<1>11. /\ LaidBoard(new, "snapshot", c, l, keys, c + n + 2) /\ Len(l) \in Nat
       /\ OnPanes(new) \subseteq {u} \cup chain /\ ShowsChain(u, new)
  <2>1. "snapshot" \in {"realtime", "snapshot"} /\ c + n + 2 \in Nat
    BY <1>5, <1>9
  <2> HIDE DEF c
  <2> QED
    BY <1>2, <2>1, ChainShown DEF chain
<1>12. m = c + Len(l) + n + 4
  <2>1. Given(Len(l) + n + 4)
    BY <1>1
  <2> QED
    BY <1>5, <1>9, <1>11, <2>1 DEF Given, Fresh
<1>13. /\ kronos' = (kronos \ {0}) \cup ({new.krono} \ {0})
       /\ knobs' = (knobs \ {0}) \cup ({new.knob} \ {0})
       /\ panes' = (panes \ {}) \cup DOMAIN new.panes
  BY <1>2, NothingGiven DEF ReplaceKrono, LoseKrono
<1>14. DOMAIN cases' = {u} \cup DOMAIN cases /\ cases'[u] = new
       /\ \A v \in DOMAIN cases : cases'[v] = cases[v] /\ v # u
  BY <1>2, <1>3
<1>15. Shown = {kit.board} \cup B /\ Shown' = Shown \cup {new}
  BY <1>3, <1>14 DEF Shown
<1>16. m \in Nat /\ m >= c
  BY <1>5, <1>9, <1>11, <1>12
<1> HIDE DEF c, m, B
<1>17. \A j \in GivenTo(new) : j \in c .. (c + n + Len(l) + 3)
  BY <1>5, <1>9, <1>10, <1>11, SnapshotGiven
<1>18. new.case = c /\ new.key = keys /\ ToSet(new.order) = DOMAIN new.panes
  BY <1>11 DEF LaidBoard
<1>19. BoardOk(new, m) /\ \A k \in GivenTo(new) : k >= c
  <2>1. \A j \in GivenTo(new) : j \in 1 .. (m - 1) /\ j \notin Old /\ j >= c
    BY <1>5, <1>9, <1>11, <1>12, <1>17
  <2> QED
    BY <1>7, <1>9, <1>11, <1>18, <2>1 DEF BoardOk
<1>20. (\A b \in Shown \cup {new} : BoardOk(b, m)) /\ Apart(Shown \cup {new})
  BY <1>8, <1>9, <1>16, <1>19, JoinApart DEF c
<1>21. Lists(kronos', knobs', panes', Shown \cup {new})
  <2>1. Lists(kronos, knobs, panes, Shown \cup {Nothing})
    BY <1>8, NothingListed
  <2>2. \A b \in Shown : GivenTo(b) \cap GivenTo(Nothing) = {}
    BY NothingGiven
  <2>3. Lists((kronos \ {Nothing.krono}) \cup ({new.krono} \ {0}),
              (knobs \ {Nothing.knob}) \cup ({new.knob} \ {0}),
              (panes \ DOMAIN Nothing.panes) \cup DOMAIN new.panes, Shown \cup {new})
    BY <2>1, <2>2, Relisted
  <2> QED
    BY <1>13, <2>3, NothingGiven
<1>22. \A v \in DOMAIN cases : cases[v] # new
  <2>1. new.case \in GivenTo(new)
    BY <1>9, <1>18 DEF GivenTo
  <2>2. \A v \in DOMAIN cases : cases[v] \in Shown
    BY DEF Shown
  <2>3. \A b \in Shown : new.case \notin GivenTo(b)
    BY <1>8, <1>9, <1>18 DEF BoardOk, c
  <2> QED
    BY <2>1, <2>2, <2>3
<1>23. /\ \A v \in DOMAIN cases' : cases'[v].case # 0
       /\ \A v, w \in DOMAIN cases' : cases'[v] = cases'[w] => v = w
  BY <1>8, <1>9, <1>14, <1>18, <1>22
<1>24. caseKeys' = {cases'[v].case : v \in DOMAIN cases'}
  BY <1>3, <1>8, <1>14, <1>18
<1>25. traces' = Old \cup UNION {TracesOf(cases'[v]) : v \in DOMAIN cases'}
  <2>1. TracesOf(new) = {keys[s] : s \in DOMAIN keys}
    BY <1>18 DEF TracesOf
  <2>2. UNION {TracesOf(cases'[v]) : v \in DOMAIN cases'} =
          TracesOf(new) \cup UNION {TracesOf(cases[v]) : v \in DOMAIN cases}
    BY <1>14
  <2> QED
    BY <1>3, <1>8, <2>1, <2>2
<1>26. KronoShowsChain'
  BY <1>3, <1>8, <1>11, <1>14 DEF KronoShowsChain
<1>27. IInv'
  <2>1. /\ nextKey' \in Nat /\ (\A k \in Old : k \in 1 .. (nextKey' - 1))
        /\ (\A b \in Shown' : BoardOk(b, nextKey')) /\ Apart(Shown')
        /\ Lists(kronos', knobs', panes', Shown')
    BY <1>9, <1>15, <1>16, <1>20, <1>21 DEF m
  <2>2. kit'.board.case = 0
    BY <1>3, <1>8
  <2> QED
    BY <1>23, <1>24, <1>25, <1>26, <2>1, <2>2 DEF IInv
<1>28. Grows
  BY <1>15, <1>16, <1>19 DEF Grows, m, c
<1> QED
  BY <1>27, <1>28

(* A case closes with all it owns.                                          *)
LEMMA CloseStep ==
    ASSUME IInv, NEW u \in Rules, CloseCase(u)
    PROVE  IInv' /\ Grows
<1> DEFINE old  == cases[u]
           rest == DOMAIN cases \ {u}
           B    == {kit.board} \cup {cases[v] : v \in rest}
<1>1. /\ u \in DOMAIN cases /\ cases' = [r \in rest |-> cases[r]]
      /\ ReplaceKrono(old, Nothing) /\ traces' = traces \ TracesOf(old)
      /\ caseKeys' = caseKeys \ {old.case} /\ nextKey' = nextKey /\ kit' = kit
  BY DEF CloseCase, TracesOf
<1>2. /\ nextKey \in Nat /\ (\A k \in Old : k \in 1 .. (nextKey - 1))
      /\ (\A b \in Shown : BoardOk(b, nextKey)) /\ Apart(Shown)
      /\ Lists(kronos, knobs, panes, Shown) /\ kit.board.case = 0
      /\ \A v \in DOMAIN cases : cases[v].case # 0
      /\ \A v, w \in DOMAIN cases : cases[v] = cases[w] => v = w
      /\ caseKeys = {cases[v].case : v \in DOMAIN cases}
      /\ traces = Old \cup UNION {TracesOf(cases[v]) : v \in DOMAIN cases}
      /\ KronoShowsChain
  BY DEF IInv
<1>3. DOMAIN cases' = rest /\ \A v \in rest : cases'[v] = cases[v]
  BY <1>1
<1>4. Shown = B \cup {old} /\ Shown' = B
  BY <1>1, <1>3 DEF Shown
<1>5. /\ kronos' = (kronos \ {old.krono}) \cup ({Nothing.krono} \ {0})
      /\ knobs' = (knobs \ {old.knob}) \cup ({Nothing.knob} \ {0})
      /\ panes' = (panes \ DOMAIN old.panes) \cup DOMAIN Nothing.panes
  BY <1>1 DEF ReplaceKrono, LoseKrono
<1>6. \A v \in rest : cases[v] \in B /\ cases[v] # old /\ cases[v] \in Shown
  BY <1>1, <1>2, <1>4
<1>7. old.case # 0 /\ kit.board # old /\ old \in Shown
  BY <1>1, <1>2, <1>4
<1>8. \A b \in B : b # old
  BY <1>6, <1>7
<1> HIDE DEF B, old
<1>9. \A b \in B : GivenTo(b) \cap GivenTo(old) = {}
  BY <1>2, <1>4, <1>8 DEF Apart
<1>10. Lists(kronos', knobs', panes', B)
  <2>1. Lists(kronos', knobs', panes', B \cup {Nothing})
    BY <1>2, <1>4, <1>5, <1>9, Relisted
  <2> QED
    BY <2>1, NothingListed
<1>11. TracesOf(old) \subseteq GivenTo(old) /\ old.case \in GivenTo(old)
  BY <1>7 DEF GivenTo
<1>12. caseKeys' = {cases'[v].case : v \in DOMAIN cases'}
  <2>1. \A v \in rest : cases[v].case # old.case
    <3> SUFFICES ASSUME NEW v \in rest PROVE cases[v].case # old.case
      OBVIOUS
    <3>1. cases[v].case \in GivenTo(cases[v])
      BY <1>2 DEF GivenTo
    <3> QED
      BY <1>6, <1>9, <1>11, <3>1
  <2>2. {cases[v].case : v \in DOMAIN cases} = {cases[v].case : v \in rest} \cup {old.case}
    BY <1>1 DEF old
  <2>3. {cases'[v].case : v \in DOMAIN cases'} = {cases[v].case : v \in rest}
    BY <1>3
  <2> DEFINE left == {cases[v].case : v \in rest}
  <2>4. old.case \notin left
    BY <2>1
  <2>5. caseKeys = left \cup {old.case} /\ caseKeys' = caseKeys \ {old.case}
    BY <1>1, <1>2, <2>2
  <2> HIDE DEF left
  <2>6. caseKeys' = left
    BY <2>4, <2>5
  <2> QED
    BY <2>3, <2>6 DEF left
<1>13. traces' = Old \cup UNION {TracesOf(cases'[v]) : v \in DOMAIN cases'}
  <2>1. \A v \in rest : TracesOf(cases[v]) \cap TracesOf(old) = {}
    <3> SUFFICES ASSUME NEW v \in rest PROVE TracesOf(cases[v]) \cap TracesOf(old) = {}
      OBVIOUS
    <3>1. TracesOf(cases[v]) \subseteq GivenTo(cases[v])
      BY <1>2 DEF GivenTo
    <3> QED
      BY <1>6, <1>9, <1>11, <3>1
  <2>2. Old \cap TracesOf(old) = {}
    BY <1>2, <1>7, <1>11 DEF BoardOk
  <2> DEFINE left == UNION {TracesOf(cases[v]) : v \in rest}
             all  == UNION {TracesOf(cases[v]) : v \in DOMAIN cases}
             next == UNION {TracesOf(cases'[v]) : v \in DOMAIN cases'}
  <2>3. /\ \A k : k \in left <=> \E v \in rest : k \in TracesOf(cases[v])
        /\ \A k : k \in all <=> \E v \in DOMAIN cases : k \in TracesOf(cases[v])
        /\ \A k : k \in next <=> \E v \in DOMAIN cases' : k \in TracesOf(cases'[v])
    OBVIOUS
  <2>4. traces = Old \cup all /\ traces' = traces \ TracesOf(old)
    BY <1>1, <1>2
  <2> HIDE DEF left, all, next
  <2>5. all = left \cup TracesOf(old)
    BY <1>1, <2>3 DEF old
  <2>6. next = left
    BY <1>3, <2>3
  <2>7. left \cap TracesOf(old) = {}
    BY <2>1, <2>3
  <2>8. traces' = Old \cup next
    BY <2>2, <2>4, <2>5, <2>6, <2>7
  <2> QED
    BY <2>8 DEF next
<1>14. KronoShowsChain'
  BY <1>1, <1>2, <1>3 DEF KronoShowsChain
<1>15. /\ \A v \in DOMAIN cases' : cases'[v].case # 0
       /\ \A v, w \in DOMAIN cases' : cases'[v] = cases'[w] => v = w
  BY <1>2, <1>3
<1>16. IInv'
  <2>1. /\ nextKey' \in Nat /\ (\A k \in Old : k \in 1 .. (nextKey' - 1))
        /\ (\A b \in Shown' : BoardOk(b, nextKey')) /\ Apart(Shown')
        /\ Lists(kronos', knobs', panes', Shown') /\ kit'.board.case = 0
    BY <1>1, <1>2, <1>4, <1>10 DEF Apart
  <2> QED
    BY <1>12, <1>13, <1>14, <1>15, <2>1 DEF IInv
<1>17. Grows
  BY <1>1, <1>2, <1>4 DEF Grows
<1> QED
  BY <1>16, <1>17

LEMMA NextIInv == IInv /\ [Next]_vars => IInv' /\ Grows
<1> SUFFICES ASSUME IInv, [Next]_vars PROVE IInv' /\ Grows
  OBVIOUS
<1>1. ASSUME UNCHANGED <<nextKey, tables, kit, cases>> PROVE IInv' /\ Grows
  <2>1. Shown' = Shown
    BY <1>1 DEF Shown
  <2>2. IInv'
    BY <1>1, <2>1 DEF IInv, KronoShowsChain, tables
  <2>3. Grows
    BY <1>1, <2>1 DEF Grows, IInv
  <2> QED
    BY <2>2, <2>3
<1>2. ASSUME NEW b \in Shown, Look(b) PROVE IInv' /\ Grows
  BY <1>1, <1>2 DEF Look
<1>3. CASE UNCHANGED vars
  BY <1>1, <1>3 DEF vars
<1> QED
  BY <1>2, <1>3, RuleStep, CaseStep, CloseStep, AllStep, ClearStep DEF Next

LEMMA IInvTables == IInv => TablesMatchOwners
<1> SUFFICES ASSUME IInv PROVE TablesMatchOwners
  OBVIOUS
<1>1. /\ Lists(kronos, knobs, panes, Shown) /\ Apart(Shown)
      /\ \A b \in Shown : BoardOk(b, nextKey)
      /\ caseKeys = {cases[u].case : u \in DOMAIN cases}
      /\ traces = Old \cup UNION {TracesOf(cases[u]) : u \in DOMAIN cases}
      /\ kit.board.case = 0
  BY DEF IInv
<1>2. TracesOf(kit.board) = Old
  <2>1. kit.board.key = KeyOf
    BY <1>1 DEF BoardOk, Shown
  <2> QED
    BY <2>1, KeysAssumption DEF TracesOf, Old
<1>3. \A k : k \in traces <=> \E b \in Shown : k \in TracesOf(b)
  BY <1>1, <1>2 DEF Shown
<1>4. traces = UNION {TracesOf(b) : b \in Shown}
  BY <1>3
<1>5. \A b \in Shown : \A k \in DOMAIN b.panes : ToSet(PaneKeys(b, k)) \subseteq traces
  <2> SUFFICES ASSUME NEW b \in Shown, NEW k \in DOMAIN b.panes, NEW i \in DOMAIN b.panes[k]
               PROVE  b.key[b.panes[k][i]] \in traces
    BY DEF PaneKeys, ToSet
  <2>1. b.panes[k][i] \in OnPanes(b)
    BY DEF OnPanes, ToSet
  <2>2. b.panes[k][i] \in DOMAIN b.key
    BY <1>1, <2>1 DEF BoardOk
  <2> QED
    BY <1>3, <2>2 DEF TracesOf
<1>6. \A b, d \in Shown : b # d => DOMAIN b.panes \cap DOMAIN d.panes = {}
  BY <1>1 DEF Apart, GivenTo
<1>7. \A b \in Shown : ToSet(b.order) = DOMAIN b.panes
  BY <1>1 DEF BoardOk
<1>8. /\ kronos = {b.krono : b \in Shown} \ {0} /\ knobs = {b.knob : b \in Shown} \ {0}
      /\ panes = UNION {DOMAIN b.panes : b \in Shown}
  BY <1>1 DEF Lists
<1> QED
  BY <1>1, <1>4, <1>5, <1>6, <1>7, <1>8 DEF TablesMatchOwners, TracesOf

(* The tables of the view and the controller hold what the kit and its      *)
(* cases own, whatever was selected, opened and closed in between.          *)
THEOREM Tables == Spec => []TablesMatchOwners
<1>1. IInv /\ [Next]_vars => IInv'
  BY NextIInv
<1> QED
  BY <1>1, InitIInv, IInvTables, PTL DEF Spec

(* The krono of a rule, or of a case, shows the whole logic chain, each     *)
(* antecedent once, for any plant and any order of the tables.              *)
THEOREM Chain == Spec => []KronoShowsChain
<1>1. IInv /\ [Next]_vars => IInv'
  BY NextIInv
<1>2. IInv => KronoShowsChain
  BY DEF IInv
<1> QED
  BY <1>1, <1>2, InitIInv, PTL DEF Spec

-------------------------------------------------------------------------------
(* The keys of a client.                                                   *)

(* A key read from a pack is that of a trace in real time, or is listed by  *)
(* a board still shown, or is dead for good.                                *)
HeldOk(k, pack) ==
    /\ k \in 1 .. (nextKey - 1)
    /\ \/ k \in Old /\ \E s \in Sources : KeyOf[s] = k /\ pack = CTraceRealtime(s)
       \/ k \notin Old /\ \E b \in Shown : k \in Keys(b) /\ pack = PacksOf(b)[k]
       \/ k \notin Old /\ \A b \in Shown : k \notin GivenTo(b)

HInv == \A k \in DOMAIN seen : HeldOk(k, seen[k])

LEMMA KeysGiven ==
    ASSUME NEW b, NEW n, BoardOk(b, n), NEW k \in Keys(b)
    PROVE  k \in GivenTo(b) \/ (b.case = 0 /\ \E s \in OnPanes(b) : b.key[s] = k)
<1>1. CASE \E s \in OnPanes(b) : b.key[s] = k
  <2>1. OnPanes(b) \subseteq DOMAIN b.key
    BY DEF BoardOk
  <2>2. k \in TracesOf(b)
    BY <1>1, <2>1 DEF TracesOf
  <2> QED
    BY <1>1, <2>2 DEF GivenTo
<1>2. CASE k \in ({b.krono, b.case} \ {0}) \cup DOMAIN b.panes
  BY <1>2 DEF GivenTo
<1> QED
  BY <1>1, <1>2 DEF Keys

LEMMA HeldStep ==
    ASSUME IInv, HInv, Grows, seen' = seen
    PROVE  HInv'
<1>0. HInv' <=> \A k \in DOMAIN seen' : HeldOk(k, seen[k])'
  BY DEF HInv
<1> SUFFICES ASSUME NEW k \in DOMAIN seen PROVE HeldOk(k, seen[k])'
  BY <1>0
<1>1. HeldOk(k, seen[k]) /\ seen'[k] = seen[k]
  BY DEF HInv
<1>2. /\ nextKey \in Nat /\ Apart(Shown) /\ \A b \in Shown : BoardOk(b, nextKey)
      /\ nextKey' \in Nat /\ nextKey' >= nextKey
      /\ \A b \in Shown' : b \in Shown \/ \A j \in GivenTo(b) : j >= nextKey
  BY DEF IInv, Grows
<1>3. k \in 1 .. (nextKey - 1) /\ k \in 1 .. (nextKey' - 1)
  BY <1>1, <1>2 DEF HeldOk
<1>4. CASE k \in Old /\ \E s \in Sources : KeyOf[s] = k /\ seen[k] = CTraceRealtime(s)
  BY <1>1, <1>3, <1>4 DEF HeldOk
<1>5. CASE k \notin Old /\ \E b \in Shown : k \in Keys(b) /\ seen[k] = PacksOf(b)[k]
  <2>1. PICK b \in Shown : k \in Keys(b) /\ seen[k] = PacksOf(b)[k]
    BY <1>5
  <2>2. CASE b \in Shown'
    BY <1>1, <1>3, <1>5, <2>1, <2>2 DEF HeldOk
  <2>3. CASE b \notin Shown'
    <3>1. k \in GivenTo(b)
      <4>1. k \in GivenTo(b) \/ (b.case = 0 /\ \E s \in OnPanes(b) : b.key[s] = k)
        BY <1>2, <2>1, KeysGiven
      <4>2. b.case = 0 => b.key = KeyOf /\ OnPanes(b) \subseteq Sources
        BY <1>2, KeysAssumption DEF BoardOk
      <4> QED
        BY <1>5, <4>1, <4>2 DEF Old
    <3>2. ASSUME NEW d \in Shown' PROVE k \notin GivenTo(d)
      <4>1. CASE d \in Shown
        BY <1>2, <2>3, <3>1, <4>1 DEF Apart
      <4>2. CASE \A j \in GivenTo(d) : j >= nextKey
        BY <1>2, <1>3, <4>2
      <4> QED
        BY <1>2, <4>1, <4>2
    <3> QED
      BY <1>3, <1>5, <3>2 DEF HeldOk
  <2> QED
    BY <2>2, <2>3
<1>6. CASE k \notin Old /\ \A b \in Shown : k \notin GivenTo(b)
  <2>1. \A d \in Shown' : k \notin GivenTo(d)
    BY <1>2, <1>3, <1>6
  <2> QED
    BY <1>3, <1>6, <2>1 DEF HeldOk
<1> QED
  BY <1>1, <1>4, <1>5, <1>6 DEF HeldOk

LEMMA LookStep ==
    ASSUME IInv, NEW b \in Shown, Look(b)
    PROVE  HInv'
<1>1. /\ seen' = PacksOf(b) /\ nextKey' = nextKey /\ Shown' = Shown
  BY DEF Look, Shown
<1>2. BoardOk(b, nextKey) /\ nextKey \in Nat /\ \A j \in Old : j \in 1 .. (nextKey - 1)
  BY DEF IInv
<1>3. DOMAIN seen' = Keys(b)
  BY <1>1 DEF PacksOf
<1> SUFFICES ASSUME NEW k \in Keys(b) PROVE HeldOk(k, PacksOf(b)[k])'
  BY <1>1, <1>3 DEF HInv
<1>4. k \in GivenTo(b) \/ (b.case = 0 /\ \E s \in OnPanes(b) : b.key[s] = k)
  BY <1>2, KeysGiven
<1>5. b.case = 0 => b.key = KeyOf /\ OnPanes(b) \subseteq Sources
  BY <1>2, KeysAssumption DEF BoardOk
<1>6. k \in 1 .. (nextKey - 1)
  BY <1>2, <1>4, <1>5 DEF BoardOk, Old
<1>7. CASE k \notin Old
  BY <1>1, <1>6, <1>7 DEF HeldOk
<1>8. CASE k \in Old
  <2>1. k \notin GivenTo(b)
    BY <1>2, <1>8 DEF BoardOk
  <2>2. b.case = 0 /\ b.key = KeyOf /\ OnPanes(b) \subseteq Sources
        /\ \E s \in OnPanes(b) : b.key[s] = k
    BY <1>4, <1>5, <2>1
  <2>3. k # b.krono /\ k # b.case /\ k \notin DOMAIN b.panes
    <3>1. k # 0
      BY <1>6
    <3> QED
      BY <2>1, <2>2, <3>1 DEF GivenTo
  <2> DEFINE src == CHOOSE s \in OnPanes(b) : b.key[s] = k
  <2>4. src \in OnPanes(b) /\ b.key[src] = k
    BY <2>2
  <2>5. PacksOf(b)[k] = SayFullGuiPackFromTrace(b, src)
    BY <2>3 DEF PacksOf
  <2> HIDE DEF src
  <2>6. PacksOf(b)[k] = CTraceRealtime(src)
    BY <2>2, <2>5 DEF SayFullGuiPackFromTrace
  <2>7. src \in Sources /\ KeyOf[src] = k
    BY <2>2, <2>4
  <2> QED
    BY <1>1, <1>6, <1>8, <2>6, <2>7 DEF HeldOk
<1> QED
  BY <1>7, <1>8

LEMMA HeldAnswers == IInv /\ HInv => HeldKeysHold
<1> SUFFICES ASSUME IInv, HInv, NEW k \in DOMAIN seen, Answers(k) PROVE Pack(k) = seen[k]
  BY DEF HeldKeysHold
<1>1. HeldOk(k, seen[k])
  BY DEF HInv
<1>2. /\ Apart(Shown) /\ (\A b \in Shown : BoardOk(b, nextKey)) /\ TablesMatchOwners
      /\ \A u \in DOMAIN cases : cases[u].case # 0
      /\ traces = Old \cup UNION {TracesOf(cases[u]) : u \in DOMAIN cases}
  BY IInvTables DEF IInv
<1>3. k \in Old <=> \E s \in Sources : KeyOf[s] = k
  BY DEF Old
<1>4. CASE k \in Old
  <2>1. PICK s \in Sources : KeyOf[s] = k /\ seen[k] = CTraceRealtime(s)
    BY <1>1, <1>4 DEF HeldOk
  <2> DEFINE t == CHOOSE t \in Sources : KeyOf[t] = k
  <2>2. t \in Sources /\ KeyOf[t] = k
    BY <2>1
  <2>3. t = s
    BY <2>1, <2>2, KeysAssumption
  <2>4. Pack(k) = CTraceRealtime(t)
    BY <2>1 DEF Pack
  <2> QED
    BY <2>1, <2>3, <2>4
<1>5. CASE k \notin Old
  <2>1. \E d \in Shown : k \in GivenTo(d)
    <3>1. CASE k \in kronos
      BY <1>2, <1>1, <3>1 DEF TablesMatchOwners, GivenTo, HeldOk
    <3>2. CASE k \in panes
      BY <1>2, <3>2 DEF TablesMatchOwners, GivenTo
    <3>3. CASE k \in traces
      <4>1. PICK u \in DOMAIN cases : k \in TracesOf(cases[u])
        BY <1>2, <1>5, <3>3
      <4>2. k \in GivenTo(cases[u])
        BY <1>2, <4>1 DEF GivenTo
      <4> QED
        BY <4>2 DEF Shown
    <3>4. CASE k \in caseKeys
      <4>1. PICK u \in DOMAIN cases : k = cases[u].case
        BY <1>2, <3>4 DEF TablesMatchOwners
      <4>2. k \in GivenTo(cases[u])
        BY <1>2, <4>1 DEF GivenTo
      <4> QED
        BY <4>2 DEF Shown
    <3> QED
      BY <3>1, <3>2, <3>3, <3>4 DEF Answers
  <2>2. PICK b \in Shown : k \in Keys(b) /\ seen[k] = PacksOf(b)[k]
    BY <1>1, <1>5, <2>1 DEF HeldOk
  <2>3. \A d \in Shown : k \in Keys(d) => k \in GivenTo(d)
    <3> SUFFICES ASSUME NEW d \in Shown, k \in Keys(d) PROVE k \in GivenTo(d)
      OBVIOUS
    <3>1. k \in GivenTo(d) \/ (d.case = 0 /\ \E s \in OnPanes(d) : d.key[s] = k)
      BY <1>2, KeysGiven
    <3>2. d.case = 0 => d.key = KeyOf /\ OnPanes(d) \subseteq Sources
      BY <1>2, KeysAssumption DEF BoardOk
    <3> QED
      BY <1>3, <1>5, <3>1, <3>2
  <2> DEFINE c == CHOOSE d \in Shown : k \in Keys(d)
  <2>4. c \in Shown /\ k \in Keys(c)
    BY <2>2
  <2>5. Pack(k) = PacksOf(c)[k]
    BY <1>3, <1>5 DEF Pack
  <2> HIDE DEF c
  <2>6. c = b
    BY <1>2, <2>2, <2>3, <2>4 DEF Apart
  <2> QED
    BY <2>2, <2>5, <2>6
<1> QED
  BY <1>4, <1>5

LEMMA NextHInv == IInv /\ HInv /\ [Next]_vars => HInv'
<1> SUFFICES ASSUME IInv, HInv, [Next]_vars PROVE HInv'
  OBVIOUS
<1>1. CASE seen' = seen
  BY <1>1, NextIInv, HeldStep
<1>2. CASE \E b \in Shown : Look(b)
  BY <1>2, LookStep
<1>3. CASE UNCHANGED vars
  BY <1>1, <1>3 DEF vars
<1> QED
  BY <1>1, <1>2, <1>3
  DEF Next, LoadRealtimeKronoWithLogicChainOfRule, CCase, CloseCase,
      LoadRealtimeKronoWithResultsFromAllRulesInKit, ClearKitOfRealtimeKronoParts

(* A key a client holds is refused or answered with what it was given for.  *)
THEOREM HeldKeys == Spec => []HeldKeysHold
<1>1. Init => IInv /\ HInv
  <2>1. Init => HInv
    BY DEF Init, HInv
  <2> QED
    BY <2>1, InitIInv
<1>2. IInv /\ HInv /\ [Next]_vars => IInv' /\ HInv'
  BY NextIInv, NextHInv
<1> QED
  BY <1>1, <1>2, HeldAnswers, PTL DEF Spec
===============================================================================
