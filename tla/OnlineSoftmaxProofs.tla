------------------------- MODULE OnlineSoftmaxProofs -------------------------
(***************************************************************************)
(* Proofs about the arithmetic of the flash-attention kernels: the halving *)
(* sum of a warp is the sum over all dimensions, for every power of two of *)
(* lanes and every width of a row.                                         *)
(*                                                                         *)
(* Sums and halvings are defined by recursion; what they compute is proved *)
(* by looking at the least counterexample.                                 *)
(***************************************************************************)
EXTENDS OnlineSoftmax, FiniteSetTheorems, WellFoundedInduction, TLAPS

LEMMA LeastNumber ==
  ASSUME NEW T \in SUBSET Nat, T # {}
  PROVE  \E n \in T : \A m \in T : n <= m
  <1>1. IsWellFoundedOn(OpToRel(<, Nat), Nat)
    BY NatLessThanWellFounded
  <1>2. PICK n \in T : \A m \in T : ~ (<<m, n>> \in OpToRel(<, Nat))
    BY <1>1, WFMin
  <1>3. ASSUME NEW m \in T PROVE n <= m
    <2>1. ~ (m < n)
      BY <1>2 DEF OpToRel
    <2> QED
      BY <2>1
  <1> QED
    BY <1>3
-----------------------------------------------------------------------------
(* Sums over sets of dimensions.  The recursion of MapThenSumSet takes one *)
(* element after another out of a set.                                     *)

Picked(s) == CHOOSE d \in s : TRUE
Ordinary(q, k, S) == IsFiniteSet(S) /\ \A d \in S : q[d] * k[d] \in Int

IsIteration(f, q, k, sets) ==
  f = [s \in sets |-> IF s = {} THEN 0
                      ELSE q[Picked(s)] * k[Picked(s)] + f[s \ {Picked(s)}]]

UpTo(S, n) == {s \in SUBSET S : Cardinality(s) <= n}

LEMMA PickedOne ==
  ASSUME NEW s, s # {}, IsFiniteSet(s)
  PROVE  /\ Picked(s) \in s /\ IsFiniteSet(s \ {Picked(s)})
         /\ Cardinality(s \ {Picked(s)}) = Cardinality(s) - 1 /\ Cardinality(s) \in Nat
  <1>1. Picked(s) \in s
    BY DEF Picked
  <1> QED
    BY <1>1, FS_RemoveElement, FS_CardinalityType

LEMMA IterationExists ==
  ASSUME NEW q, NEW k, NEW S, IsFiniteSet(S)
  PROVE  \A n \in Nat : \E f : IsIteration(f, q, k, UpTo(S, n))
  <1> DEFINE T == {n \in Nat : ~ \E f : IsIteration(f, q, k, UpTo(S, n))}
  <1>1. SUFFICES ASSUME T # {} PROVE FALSE
    OBVIOUS
  <1>2. PICK n \in T : \A m \in T : n <= m
    BY <1>1, LeastNumber
  <1>3. n \in Nat
    OBVIOUS
  <1>4. \A s \in SUBSET S : IsFiniteSet(s) /\ Cardinality(s) \in Nat
    BY FS_Subset, FS_CardinalityType
  <1>5. CASE n = 0
    <2>1. UpTo(S, n) = {{}}
      BY <1>4, <1>5, FS_EmptySet DEF UpTo
    <2>2. IsIteration([s \in {{}} |-> 0], q, k, UpTo(S, n))
      BY <2>1 DEF IsIteration
    <2> QED
      BY <2>2
  <1>6. CASE n > 0
    <2>1. n - 1 \in Nat /\ n - 1 \notin T
      BY <1>2, <1>3, <1>6
    <2>2. PICK f : IsIteration(f, q, k, UpTo(S, n - 1))
      BY <2>1
    <2> DEFINE g == [s \in UpTo(S, n) |->
                       IF s = {} THEN 0 ELSE q[Picked(s)] * k[Picked(s)] + f[s \ {Picked(s)}]]
    <2>3. ASSUME NEW s \in UpTo(S, n), s # {} PROVE g[s \ {Picked(s)}] = f[s \ {Picked(s)}]
      <3>1. s \ {Picked(s)} \in UpTo(S, n - 1) /\ s \ {Picked(s)} \in UpTo(S, n)
        BY <1>3, <1>4, <2>1, <2>3, PickedOne DEF UpTo
      <3> QED
        BY <2>2, <3>1 DEF IsIteration
    <2>4. g = [s \in UpTo(S, n) |-> IF s = {} THEN 0
                                    ELSE q[Picked(s)] * k[Picked(s)] + g[s \ {Picked(s)}]]
      BY <2>3
    <2>5. IsIteration(g, q, k, UpTo(S, n))
      BY <2>4 DEF IsIteration
    <2> QED
      BY <2>5
  <1> QED
    BY <1>3, <1>5, <1>6

\* The recursion of the library's fold is such a function, on all subsets.
LEMMA ProductIterates ==
  ASSUME NEW q, NEW k, NEW S, IsFiniteSet(S)
  PROVE  \E f : IsIteration(f, q, k, SUBSET S) /\ Product(q, k, S) = f[S]
  <1> DEFINE f == CHOOSE f : IsIteration(f, q, k, SUBSET S)
  <1>1. UpTo(S, Cardinality(S)) = SUBSET S /\ Cardinality(S) \in Nat
    BY FS_Subset, FS_CardinalityType DEF UpTo
  <1>2. IsIteration(f, q, k, SUBSET S)
    <2>1. \E g : IsIteration(g, q, k, UpTo(S, Cardinality(S)))
      BY <1>1, IterationExists
    <2>2. \E g : IsIteration(g, q, k, SUBSET S)
      BY <1>1, <2>1
    <2> QED
      BY <2>2, Zenon
  <1>3. Product(q, k, S) = f[S]
    BY DEF Product, MapThenSumSet, MapThenFoldSet, IsIteration, Picked
  <1> QED
    BY <1>2, <1>3

LEMMA ProductOfNone == ASSUME NEW q, NEW k PROVE Product(q, k, {}) = 0
  <1>1. PICK f : IsIteration(f, q, k, SUBSET {}) /\ Product(q, k, {}) = f[{}]
    BY FS_EmptySet, ProductIterates
  <1> QED
    BY <1>1 DEF IsIteration

\* An iteration on the subsets of a set agrees with one on those of a smaller set.
LEMMA SameIteration ==
  ASSUME NEW q, NEW k, NEW S, IsFiniteSet(S), NEW T \in SUBSET S,
         NEW f, IsIteration(f, q, k, SUBSET S)
  PROVE  Product(q, k, T) = f[T]
  <1>0. IsFiniteSet(T)
    BY FS_Subset
  <1>1. PICK g : IsIteration(g, q, k, SUBSET T) /\ Product(q, k, T) = g[T]
    BY <1>0, ProductIterates
  <1> DEFINE Sizes == {n \in Nat : \E s \in SUBSET T : Cardinality(s) = n /\ g[s] # f[s]}
  <1>2. SUFFICES ASSUME Sizes # {} PROVE FALSE
    <2>1. Cardinality(T) \in Nat
      BY <1>0, FS_CardinalityType
    <2> QED
      BY <1>1, <2>1
  <1>3. PICK n \in Sizes : \A m \in Sizes : n <= m
    BY <1>2, LeastNumber
  <1>4. PICK s \in SUBSET T : Cardinality(s) = n /\ g[s] # f[s]
    OBVIOUS
  <1>5. s \in SUBSET S /\ IsFiniteSet(s)
    BY <1>0, FS_Subset
  <1>6. s # {}
    BY <1>1, <1>4, <1>5 DEF IsIteration
  <1>7. PICK d : d = Picked(s)
    OBVIOUS
  <1>8. d \in s /\ Cardinality(s \ {d}) = n - 1 /\ n \in Nat /\ n - 1 \in Nat
    <2>1. IsFiniteSet(s \ {d})
      BY <1>5, <1>6, <1>7, PickedOne
    <2>2. Cardinality(s \ {d}) \in Nat
      BY <2>1, FS_CardinalityType
    <2> QED
      BY <1>4, <1>5, <1>6, <1>7, <2>2, PickedOne
  <1>9. g[s \ {d}] = f[s \ {d}]
    <2>1. n - 1 \notin Sizes
      BY <1>3, <1>8
    <2> QED
      BY <1>8, <2>1
  <1>10. g[s] = q[d] * k[d] + g[s \ {d}] /\ f[s] = q[d] * k[d] + f[s \ {d}]
    BY <1>1, <1>5, <1>6, <1>7 DEF IsIteration
  <1> QED
    BY <1>4, <1>9, <1>10

LEMMA ProductTakesOne ==
  ASSUME NEW q, NEW k, NEW S, IsFiniteSet(S), S # {}
  PROVE  Product(q, k, S) = q[Picked(S)] * k[Picked(S)] + Product(q, k, S \ {Picked(S)})
  <1>1. PICK f : IsIteration(f, q, k, SUBSET S) /\ Product(q, k, S) = f[S]
    BY ProductIterates
  <1>2. f[S] = q[Picked(S)] * k[Picked(S)] + f[S \ {Picked(S)}]
    BY <1>1 DEF IsIteration
  <1>3. Product(q, k, S \ {Picked(S)}) = f[S \ {Picked(S)}]
    BY <1>1, SameIteration
  <1> QED
    BY <1>1, <1>2, <1>3

\* Sums are integers, and every element may be the one taken out.
LEMMA ProductTakesAny ==
  ASSUME NEW q, NEW k, NEW S, Ordinary(q, k, S)
  PROVE  /\ Product(q, k, S) \in Int
         /\ \A d \in S : Product(q, k, S) = q[d] * k[d] + Product(q, k, S \ {d})
  <1> DEFINE Good(s) == /\ Product(q, k, s) \in Int
                        /\ \A d \in s : Product(q, k, s) = q[d] * k[d] + Product(q, k, s \ {d})
             Sizes == {n \in Nat : \E s \in SUBSET S : Cardinality(s) = n /\ ~ Good(s)}
  <1>0. IsFiniteSet(S) /\ \A s \in SUBSET S : IsFiniteSet(s) /\ Cardinality(s) \in Nat
    BY FS_Subset, FS_CardinalityType DEF Ordinary
  <1>1. SUFFICES ASSUME Sizes # {} PROVE FALSE
    <2>1. S \in SUBSET S /\ Cardinality(S) \in Nat
      BY <1>0
    <2> QED
      BY <2>1
  <1>2. PICK n \in Sizes : \A m \in Sizes : n <= m
    BY <1>1, LeastNumber
  <1>3. PICK s \in SUBSET S : Cardinality(s) = n /\ ~ Good(s)
    OBVIOUS
  <1>4. ASSUME NEW t \in SUBSET s, t # s PROVE Good(t)
    <2>1. Cardinality(t) <= n /\ Cardinality(t) # n /\ t \in SUBSET S
      BY <1>0, <1>3, <1>4, FS_Subset
    <2>2. Cardinality(t) \notin Sizes /\ Cardinality(t) \in Nat
      BY <1>0, <1>2, <2>1
    <2> QED
      BY <2>1, <2>2
  <1>5. s # {}
    <2>1. Product(q, k, {}) = 0
      BY ProductOfNone
    <2>2. Good({})
      BY <2>1
    <2> QED
      BY <1>3, <2>2
  <1>6. PICK y : y = Picked(s)
    OBVIOUS
  <1>7. y \in s /\ Product(q, k, s) = q[y] * k[y] + Product(q, k, s \ {y})
    BY <1>0, <1>5, <1>6, PickedOne, ProductTakesOne
  <1>8. \A d \in s : q[d] * k[d] \in Int
    BY DEF Ordinary
  <1>9. Product(q, k, s) \in Int
    <2>1. Product(q, k, s \ {y}) \in Int
      BY <1>4, <1>7
    <2> QED
      BY <1>7, <1>8, <2>1
  <1>10. ASSUME NEW d \in s PROVE Product(q, k, s) = q[d] * k[d] + Product(q, k, s \ {d})
    <2>1. CASE d = y
      BY <1>7, <2>1
    <2>2. CASE d # y
      <3>1. PICK A, B, C : A = Product(q, k, s \ {y}) /\ B = Product(q, k, s \ {d})
                           /\ C = Product(q, k, (s \ {y}) \ {d})
        OBVIOUS
      <3>2. (s \ {y}) \ {d} = (s \ {d}) \ {y} /\ d \in s \ {y} /\ y \in s \ {d}
        BY <1>7, <2>2
      <3>3. Good(s \ {y}) /\ Good(s \ {d})
        <4>1. s \ {y} \in SUBSET s /\ s \ {y} # s /\ s \ {d} \in SUBSET s /\ s \ {d} # s
          BY <1>7
        <4> QED
          BY <1>4, <4>1
      <3>4. A = q[d] * k[d] + C /\ A \in Int /\ B = q[y] * k[y] + C /\ B \in Int
        BY <3>1, <3>2, <3>3
      <3>5. C \in Int
        <4>1. (s \ {y}) \ {d} \in SUBSET s /\ (s \ {y}) \ {d} # s
          BY <1>7
        <4> QED
          BY <1>4, <3>1, <4>1
      <3>6. PICK a, b \in Int : a = q[d] * k[d] /\ b = q[y] * k[y]
        BY <1>7, <1>8
      <3>7. Product(q, k, s) = b + A /\ A = a + C /\ B = b + C
        BY <1>7, <3>1, <3>4, <3>6
      <3>8. b + (a + C) = a + (b + C)
        BY <3>5, <3>6
      <3> QED
        BY <3>1, <3>6, <3>7, <3>8
    <2> QED
      BY <2>1, <2>2
  <1> QED
    BY <1>3, <1>9, <1>10

LEMMA ProductOfUnion ==
  ASSUME NEW q, NEW k, NEW S, Ordinary(q, k, S), NEW A \in SUBSET S, NEW B \in SUBSET S,
         A \cap B = {}
  PROVE  Product(q, k, A \cup B) = Product(q, k, A) + Product(q, k, B)
  <1> DEFINE Adds(s) == Product(q, k, A \cup s) = Product(q, k, A) + Product(q, k, s)
             Sizes == {n \in Nat : \E s \in SUBSET B : Cardinality(s) = n /\ ~ Adds(s)}
  <1>0. \A s \in SUBSET S : IsFiniteSet(s) /\ Cardinality(s) \in Nat /\ Ordinary(q, k, s)
    BY FS_Subset, FS_CardinalityType DEF Ordinary
  <1>1. SUFFICES ASSUME Sizes # {} PROVE FALSE
    <2>1. B \in SUBSET B /\ Cardinality(B) \in Nat
      BY <1>0
    <2> QED
      BY <2>1
  <1>2. PICK n \in Sizes : \A m \in Sizes : n <= m
    BY <1>1, LeastNumber
  <1>3. PICK s \in SUBSET B : Cardinality(s) = n /\ ~ Adds(s)
    OBVIOUS
  <1>4. Product(q, k, A) \in Int /\ Product(q, k, s) \in Int
    BY <1>0, ProductTakesAny
  <1>5. CASE s = {}
    <2>1. A \cup s = A /\ Product(q, k, s) = 0
      BY <1>5, ProductOfNone
    <2> QED
      BY <1>3, <1>4, <2>1
  <1>6. CASE s # {}
    <2>1. PICK d \in s : TRUE
      BY <1>6
    <2>2. Cardinality(s \ {d}) = n - 1 /\ n \in Nat /\ n - 1 \in Nat
      <3>1. IsFiniteSet(s) /\ IsFiniteSet(s \ {d}) /\ Cardinality(s \ {d}) = Cardinality(s) - 1
        BY <1>0, FS_RemoveElement
      <3> QED
        BY <1>3, <3>1, FS_CardinalityType
    <2>3. Adds(s \ {d})
      <3>1. n - 1 \notin Sizes
        BY <1>2, <2>2
      <3> QED
        BY <2>2, <3>1
    <2>4. d \in S /\ d \notin A /\ A \cup s \in SUBSET S /\ (A \cup s) \ {d} = A \cup (s \ {d})
          /\ s \ {d} \in SUBSET S
      OBVIOUS
    <2>5. PICK p \in Int : p = q[d] * k[d]
      BY <2>4 DEF Ordinary
    <2>6. PICK a, c, t \in Int : /\ a = Product(q, k, A) /\ c = Product(q, k, s \ {d})
                                 /\ t = Product(q, k, A \cup (s \ {d}))
      <3>1. A \cup (s \ {d}) \in SUBSET S
        BY <2>4
      <3> QED
        BY <1>0, <2>4, <3>1, ProductTakesAny
    <2>7. Product(q, k, s) = p + c
      <3>1. Ordinary(q, k, s)
        BY <1>0
      <3>2. Product(q, k, s) = q[d] * k[d] + Product(q, k, s \ {d})
        BY <3>1, ProductTakesAny
      <3> QED
        BY <2>5, <2>6, <3>2
    <2>8. Product(q, k, A \cup s) = p + t
      <3>1. PICK u : u = A \cup s
        OBVIOUS
      <3>2. Ordinary(q, k, u) /\ d \in u
        BY <1>0, <2>4, <3>1
      <3>3. \A e \in u : Product(q, k, u) = q[e] * k[e] + Product(q, k, u \ {e})
        BY <3>2, ProductTakesAny
      <3>4. Product(q, k, u) = p + Product(q, k, u \ {d})
        BY <2>5, <3>2, <3>3
      <3> QED
        BY <2>4, <2>6, <3>1, <3>4
    <2>9. t = a + c
      BY <2>3, <2>6
    <2>10. p + (a + c) = a + (p + c)
      BY <2>5, <2>6
    <2> QED
      BY <1>3, <2>6, <2>7, <2>8, <2>9, <2>10
  <1> QED
    BY <1>5, <1>6
-----------------------------------------------------------------------------
(* The halvings.  When the offset has come down to m, the lanes below m    *)
(* hold the sums over the dimensions that are their number modulo m.       *)

Class(m, lane, D) == {d \in 0..(D - 1) : \E t \in Nat : d = lane + t * m}

LaneClasses(x, m, q, k, D) ==
  /\ x \in [Lanes -> Int]
  /\ \A lane \in 0..(m - 1) : x[lane] = Product(q, k, Class(m, lane, D))

\* The turn of the loop with offset o.
Halved(x, o) == [lane \in Lanes |-> x[lane] + ShflDown(x, o)[lane]]

LEMMA OffsetsDouble ==
  ASSUME NEW o \in Offsets, o # WarpSize
  PROVE  2 * o \in Offsets /\ o \in Nat \ {0} /\ 2 * o <= WarpSize
  <1>0. WarpSize \in Nat \ {0}
    BY WarpAssumption
  <1>1. PICK e \in 1..WarpSize : WarpSize = o * e
    BY DEF Offsets
  <1>2. o \in 1..WarpSize /\ o \in Nat \ {0} /\ e \in Nat \ {0}
    BY <1>0 DEF Offsets
  <1>3. e # 1
    BY <1>1, <1>2
  <1>4. WarpSize = e * o
    BY <1>1, <1>2
  <1>5. e % 2 = 0
    BY <1>2, <1>3, <1>4, PowerAssumption
  <1>6. PICK h \in Nat \ {0} : e = 2 * h
    <2>1. e = 2 * (e \div 2) /\ e \div 2 \in Nat \ {0}
      BY <1>2, <1>5
    <2> QED
      BY <2>1
  <1>7. WarpSize = (2 * o) * h
    BY <1>1, <1>2, <1>6
  <1>8. 2 * o \in 1..WarpSize /\ h \in 1..WarpSize
    <2>1. h <= e
      BY <1>6
    <2>2. 2 * o <= (2 * o) * h
      BY <1>2, <1>6
    <2> QED
      BY <1>0, <1>1, <1>2, <1>6, <1>7, <2>1, <2>2
  <1> QED
    BY <1>0, <1>2, <1>7, <1>8 DEF Offsets

LEMMA ClassSplits ==
  ASSUME NEW o \in Nat \ {0}, NEW lane \in 0..(o - 1), NEW D \in Nat
  PROVE  /\ Class(o, lane, D) = Class(2 * o, lane, D) \cup Class(2 * o, lane + o, D)
         /\ Class(2 * o, lane, D) \cap Class(2 * o, lane + o, D) = {}
  <1>1. ASSUME NEW d \in Class(o, lane, D)
        PROVE  d \in Class(2 * o, lane, D) \cup Class(2 * o, lane + o, D)
    <2>1. PICK t \in Nat : d = lane + t * o
      BY DEF Class
    <2>2. PICK u \in Nat : t = 2 * u \/ t = 2 * u + 1
      <3>1. t = 2 * (t \div 2) \/ t = 2 * (t \div 2) + 1
        OBVIOUS
      <3>2. t \div 2 \in Nat
        OBVIOUS
      <3> QED
        BY <3>1, <3>2
    <2>3. CASE t = 2 * u
      <3>1. d = lane + u * (2 * o)
        BY <2>1, <2>3
      <3> QED
        BY <3>1 DEF Class
    <2>4. CASE t = 2 * u + 1
      <3>1. t * o = o + u * (2 * o)
        BY <2>4
      <3>2. d = (lane + o) + u * (2 * o)
        BY <2>1, <3>1
      <3> QED
        BY <3>2 DEF Class
    <2> QED
      BY <2>2, <2>3, <2>4
  <1>2. ASSUME NEW d \in Class(2 * o, lane, D) PROVE d \in Class(o, lane, D)
    <2>1. PICK u \in Nat : d = lane + u * (2 * o)
      BY DEF Class
    <2>2. d = lane + (2 * u) * o /\ 2 * u \in Nat
      BY <2>1
    <2> QED
      BY <2>2 DEF Class
  <1>3. ASSUME NEW d \in Class(2 * o, lane + o, D) PROVE d \in Class(o, lane, D)
    <2>1. PICK u \in Nat : d = (lane + o) + u * (2 * o)
      BY DEF Class
    <2>2. o + u * (2 * o) = (2 * u + 1) * o /\ 2 * u + 1 \in Nat
      OBVIOUS
    <2>3. d = lane + (2 * u + 1) * o
      BY <2>1, <2>2
    <2> QED
      BY <2>2, <2>3 DEF Class
  <1>4. ASSUME NEW d \in Class(2 * o, lane, D), d \in Class(2 * o, lane + o, D) PROVE FALSE
    <2>1. PICK u \in Nat : d = lane + u * (2 * o)
      BY DEF Class
    <2>2. PICK v \in Nat : d = (lane + o) + v * (2 * o)
      BY <1>4 DEF Class
    <2>3. u * (2 * o) = o + v * (2 * o)
      <3>1. PICK a, b \in Int : a = u * (2 * o) /\ b = v * (2 * o)
        OBVIOUS
      <3>2. d = lane + a /\ d = (lane + o) + b
        BY <2>1, <2>2, <3>1
      <3>3. lane \in Int /\ o \in Int
        OBVIOUS
      <3>4. a = o + b
        BY <3>2, <3>3
      <3> QED
        BY <3>1, <3>4
    <2>4. (2 * u - 2 * v - 1) * o = 0
      BY <2>3
    <2>5. 2 * u - 2 * v - 1 = 0
      BY <2>4
    <2> QED
      BY <2>5
  <1> QED
    BY <1>1, <1>2, <1>3, <1>4

\* A lane below the offset takes what the lane an offset above it has.
LEMMA HalvedClasses ==
  ASSUME NEW q, NEW k, NEW D \in Nat, Ordinary(q, k, 0..(D - 1)),
         NEW o \in Nat \ {0}, 2 * o <= WarpSize, NEW x, LaneClasses(x, 2 * o, q, k, D)
  PROVE  LaneClasses(Halved(x, o), o, q, k, D)
  <1>1. /\ x \in [Lanes -> Int]
        /\ \A lane \in 0..(2 * o - 1) : x[lane] = Product(q, k, Class(2 * o, lane, D))
    BY DEF LaneClasses
  <1>2. PICK y : y = [lane \in Lanes |-> x[lane] + ShflDown(x, o)[lane]]
    OBVIOUS
  <1>3. \A lane \in Lanes : ShflDown(x, o)[lane] \in Int
    <2>1. \A lane \in Lanes : lane + o < WarpSize => lane + o \in Lanes
      BY WarpAssumption DEF Lanes
    <2> QED
      BY <1>1, <2>1 DEF ShflDown
  <1>4. y \in [Lanes -> Int]
    BY <1>1, <1>2, <1>3
  <1>5. ASSUME NEW lane \in 0..(o - 1) PROVE y[lane] = Product(q, k, Class(o, lane, D))
    <2>1. /\ lane \in Lanes /\ lane \in 0..(2 * o - 1) /\ lane + o \in 0..(2 * o - 1)
          /\ lane + o < WarpSize /\ lane + o \in Lanes
      BY WarpAssumption DEF Lanes
    <2>2. y[lane] = x[lane] + x[lane + o]
      BY <1>2, <2>1 DEF ShflDown
    <2>3. /\ x[lane] = Product(q, k, Class(2 * o, lane, D))
          /\ x[lane + o] = Product(q, k, Class(2 * o, lane + o, D))
      BY <1>1, <2>1
    <2>4. /\ Class(o, lane, D) = Class(2 * o, lane, D) \cup Class(2 * o, lane + o, D)
          /\ Class(2 * o, lane, D) \cap Class(2 * o, lane + o, D) = {}
      BY ClassSplits
    <2>5. /\ Class(2 * o, lane, D) \in SUBSET (0..(D - 1))
          /\ Class(2 * o, lane + o, D) \in SUBSET (0..(D - 1))
      BY DEF Class
    <2> QED
      BY <2>2, <2>3, <2>4, <2>5, ProductOfUnion
  <1> QED
    BY <1>2, <1>4, <1>5 DEF LaneClasses, Halved

\* The recursion of WarpReduceSum, down to an offset.
Above(n) == {o \in Offsets : o >= WarpSize - n}
IsHalvings(f, x, offsets) ==
  f = [o \in offsets |-> IF o = WarpSize THEN x ELSE Halved(f[2 * o], o)]

LEMMA HalvingsExist == ASSUME NEW x PROVE \A n \in Nat : \E f : IsHalvings(f, x, Above(n))
  <1> DEFINE T == {n \in Nat : ~ \E f : IsHalvings(f, x, Above(n))}
  <1>0. WarpSize \in Nat \ {0} /\ Offsets \in SUBSET (1..WarpSize)
    BY WarpAssumption DEF Offsets
  <1>1. SUFFICES ASSUME T # {} PROVE FALSE
    OBVIOUS
  <1>2. PICK n \in T : \A m \in T : n <= m
    BY <1>1, LeastNumber
  <1>3. n \in Nat
    OBVIOUS
  <1>4. CASE n = 0
    <2>1. \A o \in Above(n) : o = WarpSize
      BY <1>0, <1>4 DEF Above
    <2>2. IsHalvings([o \in Above(n) |-> x], x, Above(n))
      BY <2>1 DEF IsHalvings
    <2> QED
      BY <2>2
  <1>5. CASE n > 0
    <2>1. n - 1 \in Nat /\ n - 1 \notin T
      BY <1>2, <1>3, <1>5
    <2>2. PICK f : IsHalvings(f, x, Above(n - 1))
      BY <2>1
    <2> DEFINE g == [o \in Above(n) |-> IF o = WarpSize THEN x ELSE Halved(f[2 * o], o)]
    <2>3. ASSUME NEW o \in Above(n), o # WarpSize PROVE g[2 * o] = f[2 * o]
      <3>1. 2 * o \in Above(n - 1) /\ 2 * o \in Above(n)
        BY <1>0, <1>3, <2>3, OffsetsDouble DEF Above
      <3> QED
        BY <2>2, <3>1 DEF IsHalvings
    <2>4. g = [o \in Above(n) |-> IF o = WarpSize THEN x ELSE Halved(g[2 * o], o)]
      BY <2>3
    <2>5. IsHalvings(g, x, Above(n))
      BY <2>4 DEF IsHalvings
    <2> QED
      BY <2>5
  <1> QED
    BY <1>3, <1>4, <1>5

LEMMA ReduceHalves ==
  ASSUME NEW x
  PROVE  \E f : IsHalvings(f, x, Offsets) /\ WarpReduceSum(x) = f[1][0]
  <1> DEFINE f == CHOOSE f : IsHalvings(f, x, Offsets)
  <1>1. Above(WarpSize) = Offsets /\ WarpSize \in Nat
    BY WarpAssumption DEF Above, Offsets
  <1>2. \E g : IsHalvings(g, x, Offsets)
    <2>1. \E g : IsHalvings(g, x, Above(WarpSize))
      BY <1>1, HalvingsExist
    <2> QED
      BY <1>1, <2>1
  <1>3. IsHalvings(f, x, Offsets)
    BY <1>2, Zenon
  <1>4. WarpReduceSum(x) = f[1][0]
    BY DEF WarpReduceSum, IsHalvings, Halved
  <1> QED
    BY <1>3, <1>4

LEMMA HalvingsClasses ==
  ASSUME NEW q, NEW k, NEW D \in Nat, Ordinary(q, k, 0..(D - 1)),
         NEW x, LaneClasses(x, WarpSize, q, k, D), NEW f, IsHalvings(f, x, Offsets)
  PROVE  \A o \in Offsets : LaneClasses(f[o], o, q, k, D)
  <1> DEFINE Good(o) == LaneClasses(f[o], o, q, k, D)
             T == {n \in Nat : \E o \in Offsets : n = WarpSize - o /\ ~ Good(o)}
  <1>0. WarpSize \in Nat \ {0} /\ \A o \in Offsets : o \in 1..WarpSize /\ WarpSize - o \in Nat
    BY WarpAssumption DEF Offsets
  <1>1. SUFFICES ASSUME T # {} PROVE FALSE
    BY <1>0
  <1>2. PICK n \in T : \A m \in T : n <= m
    BY <1>1, LeastNumber
  <1>3. PICK o \in Offsets : n = WarpSize - o /\ ~ Good(o)
    OBVIOUS
  <1>4. o # WarpSize
    BY <1>3 DEF IsHalvings
  <1>5. 2 * o \in Offsets /\ o \in Nat \ {0} /\ 2 * o <= WarpSize
    BY <1>4, OffsetsDouble
  <1>6. Good(2 * o)
    <2>1. PICK j \in Nat : j = WarpSize - 2 * o
      BY <1>0, <1>5
    <2>2. j < n /\ n \in Nat
      BY <1>0, <1>3, <1>5, <2>1
    <2>3. j \notin T
      BY <1>2, <2>2
    <2> QED
      BY <1>5, <2>1, <2>3
  <1>7. f[o] = Halved(f[2 * o], o)
    BY <1>4 DEF IsHalvings
  <1> QED
    BY <1>3, <1>5, <1>6, <1>7, HalvedClasses

\* The loop begins with every lane's own dimensions.
LEMMA LanesBegin ==
  ASSUME NEW D \in Nat, D <= MaxD, NEW lane \in Lanes
  PROVE  LaneDims(lane, D) = Class(WarpSize, lane, D)
  <1>1. WarpSize \in Nat \ {0} /\ MaxD \in Nat /\ lane \in Nat
    BY WarpAssumption DEF Lanes
  <1>2. PICK p \in Nat : /\ p = MaxDPerLane
                         /\ MaxD + WarpSize - 1 < (p + 1) * WarpSize
    <2>1. MaxDPerLane = (MaxD + WarpSize - 1) \div WarpSize
      BY DEF MaxDPerLane
    <2>2. MaxD + WarpSize - 1 \in Nat
      BY <1>1
    <2> QED
      BY <1>1, <2>1, <2>2
  <1>3. ASSUME NEW d \in LaneDims(lane, D) PROVE d \in Class(WarpSize, lane, D)
    <2>1. PICK t \in 0..(p - 1) : d = lane + t * WarpSize /\ d < D
      BY <1>2 DEF LaneDims
    <2>2. t \in Nat /\ d \in Nat /\ d \in 0..(D - 1)
      BY <1>1, <1>2, <2>1
    <2> QED
      BY <2>1, <2>2 DEF Class
  <1>4. ASSUME NEW d \in Class(WarpSize, lane, D) PROVE d \in LaneDims(lane, D)
    <2>1. PICK t \in Nat : d = lane + t * WarpSize
      BY DEF Class
    <2>2. d \in Nat /\ d < D
      BY DEF Class
    <2>3. PICK a \in Nat : a = t * WarpSize
      BY <1>1
    <2>4. a <= MaxD - 1
      BY <1>1, <2>1, <2>2, <2>3
    <2>5. (t + 1) * WarpSize = a + WarpSize
      BY <1>1, <2>3
    <2>6. (t + 1) * WarpSize < (p + 1) * WarpSize
      BY <1>1, <1>2, <2>3, <2>4, <2>5
    <2>7. t + 1 < p + 1
      BY <1>1, <2>6
    <2>8. t \in 0..(p - 1)
      BY <2>7
    <2> QED
      BY <1>2, <2>1, <2>2, <2>8 DEF LaneDims
  <1> QED
    BY <1>3, <1>4

(* warp_reduce_sum() of the lanes' parts is the product of the two rows,   *)
(* once each dimension: for every power of two of lanes, and rows narrower *)
(* than a warp, wider, or of a width that is no multiple of one.           *)
THEOREM WarpSumIsProduct ==
  ASSUME NEW q, NEW k, NEW D \in Nat, D <= MaxD, \A d \in 0..(D - 1) : q[d] * k[d] \in Int
  PROVE  Dot(q, k, D) = Product(q, k, 0..(D - 1)) /\ Product(q, k, 0..(D - 1)) \in Int
  <1>0. WarpSize \in Nat \ {0}
    BY WarpAssumption
  <1>1. Ordinary(q, k, 0..(D - 1))
    BY FS_Interval DEF Ordinary
  <1>2. PICK x : x = [lane \in Lanes |-> Product(q, k, LaneDims(lane, D))]
    OBVIOUS
  <1>3. LaneClasses(x, WarpSize, q, k, D)
    <2>1. ASSUME NEW lane \in Lanes
          PROVE  x[lane] = Product(q, k, Class(WarpSize, lane, D)) /\ x[lane] \in Int
      <3>1. x[lane] = Product(q, k, Class(WarpSize, lane, D))
        BY <1>2, LanesBegin
      <3>2. Class(WarpSize, lane, D) \in SUBSET (0..(D - 1))
        BY DEF Class
      <3>3. Ordinary(q, k, Class(WarpSize, lane, D))
        BY <1>1, <3>2, FS_Subset DEF Ordinary
      <3> QED
        BY <3>1, <3>3, ProductTakesAny
    <2> QED
      BY <1>2, <2>1 DEF LaneClasses, Lanes
  <1>4. PICK f : IsHalvings(f, x, Offsets) /\ WarpReduceSum(x) = f[1][0]
    BY ReduceHalves
  <1>5. 1 \in Offsets
    <2>1. WarpSize = 1 * WarpSize
      BY <1>0
    <2> QED
      BY <1>0, <2>1 DEF Offsets
  <1>6. LaneClasses(f[1], 1, q, k, D)
    BY <1>1, <1>3, <1>4, <1>5, HalvingsClasses
  <1>7. f[1][0] = Product(q, k, Class(1, 0, D))
    BY <1>6 DEF LaneClasses
  <1>8. Class(1, 0, D) = 0..(D - 1)
    <2>1. \A d \in 0..(D - 1) : d \in Nat /\ d = 0 + d * 1
      OBVIOUS
    <2> QED
      BY <2>1 DEF Class
  <1>9. Product(q, k, 0..(D - 1)) \in Int
    BY <1>1, ProductTakesAny
  <1> QED
    BY <1>2, <1>4, <1>7, <1>8, <1>9 DEF Dot
=============================================================================
