--------------------------- MODULE WireCodecProofs ---------------------------
(***************************************************************************)
(* Proofs about the codec, for every width of group, half and word: every  *)
(* variable has its type whatever the payload, and what is decoded of an   *)
(* encoding, whole, cut, followed by another or with fields of a later     *)
(* schema in it, is the message that was encoded.                          *)
(*                                                                         *)
(* The recursive functions of the codec are shown to exist and to meet     *)
(* their equations by looking at the least number for which they do not.   *)
(***************************************************************************)
EXTENDS WireCodec, SequenceTheorems, WellFoundedInduction, TLAPS

LEMMA LeastNumber ==
  ASSUME NEW T \in SUBSET Nat, T # {}
  PROVE  \E n \in T : \A m \in T : n <= m
  <1>1. IsWellFoundedOn(OpToRel(<, Nat), Nat)
    BY NatLessThanWellFounded
  <1>2. PICK n \in T : \A m \in T : ~ (<<m, n>> \in OpToRel(<, Nat))
    BY <1>1, WFMin
  <1>3. ASSUME NEW m \in T PROVE n <= m
    <2>1. ~ (m < n)
      BY <1>2 DEF OpToRel
    <2> QED
      BY <2>1
  <1> QED
    BY <1>3

LEMMA MinProperties ==
  ASSUME NEW T \in SUBSET Nat, T # {}
  PROVE  Min(T) \in T /\ \A m \in T : Min(T) <= m
  <1>1. \E n \in T : \A m \in T : n <= m
    BY LeastNumber
  <1>2. Min(T) = CHOOSE n \in T : \A m \in T : n <= m
    BY DEF Min
  <1> QED
    BY <1>1, <1>2, Zenon

LEMMA MinIs ==
  ASSUME NEW T \in SUBSET Nat, NEW n \in T, \A m \in T : n <= m
  PROVE  Min(T) = n
  <1>1. Min(T) \in T /\ Min(T) <= n
    BY MinProperties
  <1>2. n <= Min(T) /\ Min(T) \in Nat /\ n \in Nat
    BY <1>1
  <1> QED
    BY <1>1, <1>2

\* A table filled step by step from its entry 0.
IsTable(f, n, a, step) == f[0] = a /\ \A i \in 1..n : f[i] = step[i][f[i - 1]]

LEMMA RecursionExists ==
  ASSUME NEW n \in Nat, NEW S, NEW a \in S, NEW step \in [1..n -> [S -> S]]
  PROVE  \E f \in [0..n -> S] : IsTable(f, n, a, step)
  <1> DEFINE Table(k) == \E f \in [0..k -> S] : IsTable(f, k, a, step)
             T == {k \in 0..n : ~ Table(k)}
  <1>1. SUFFICES ASSUME T # {} PROVE FALSE
    <2>1. n \notin T
      BY <1>1
    <2> QED
      BY <2>1
  <1>2. PICK k \in T : \A m \in T : k <= m
    <2>1. T \in SUBSET Nat
      OBVIOUS
    <2> QED
      BY <1>1, <2>1, LeastNumber
  <1>3. k \in 0..n /\ k \in Int /\ n \in Int /\ ~ Table(k)
    OBVIOUS
  <1>4. CASE k = 0
    <2>1. [i \in 0..0 |-> a] \in [0..0 -> S] /\ IsTable([i \in 0..0 |-> a], 0, a, step)
      BY DEF IsTable
    <2>2. Table(k)
      BY <1>4, <2>1
    <2> QED
      BY <1>3, <2>2
  <1>5. CASE k > 0
    <2>0. k - 1 \in 0..n /\ ~ (k <= k - 1)
      BY <1>3, <1>5
    <2>1. Table(k - 1)
      BY <1>2, <2>0
    <2>2. PICK f \in [0..(k - 1) -> S] : IsTable(f, k - 1, a, step)
      BY <2>1
    <2>3. PICK e \in S : e = step[k][f[k - 1]]
      <3>1. f[k - 1] \in S
        BY <1>3, <1>5
      <3>2. k \in 1..n
        BY <1>3, <1>5
      <3>3. step[k] \in [S -> S]
        BY <3>2
      <3> QED
        BY <3>1, <3>3
    <2> DEFINE g == [i \in 0..k |-> IF i = k THEN e ELSE f[i]]
    <2>4. g \in [0..k -> S]
      BY <1>3, <1>5
    <2>5. g[0] = a
      BY <1>3, <1>5, <2>2 DEF IsTable
    <2>6. ASSUME NEW i \in 1..k PROVE g[i] = step[i][g[i - 1]]
      <3>0. i \in Int /\ 1 <= i /\ i <= k /\ k \in Int
        BY <1>3
      <3>1. g[i - 1] = f[i - 1]
        BY <3>0
      <3>2. CASE i = k
        <4>1. g[i] = e
          BY <3>0, <3>2
        <4> QED
          BY <2>3, <3>1, <3>2, <4>1
      <3>3. CASE i # k
        <4>1. i \in 1..(k - 1) /\ g[i] = f[i]
          BY <3>0, <3>3
        <4>2. f[i] = step[i][f[i - 1]]
          BY <2>2, <4>1 DEF IsTable
        <4> QED
          BY <3>1, <4>1, <4>2
      <3> QED
        BY <3>2, <3>3
    <2>7. IsTable(g, k, a, step)
      BY <2>5, <2>6 DEF IsTable
    <2>8. Table(k)
      BY <2>4, <2>7
    <2> QED
      BY <1>3, <2>8
  <1> QED
    BY <1>3, <1>4, <1>5
-----------------------------------------------------------------------------
(* Division, and the numbers that are written with groups.                 *)

LEMMA Division ==
  ASSUME NEW v \in Nat, NEW d \in Nat, d > 0
  PROVE  /\ v \div d \in Nat /\ v % d \in 0..(d - 1)
         /\ v = (v \div d) * d + (v % d)
  OBVIOUS

LEMMA DivisionIs ==
  ASSUME NEW v \in Nat, NEW d \in Nat, d > 0, NEW q \in Nat, NEW r \in 0..(d - 1), v = q * d + r
  PROVE  v \div d = q /\ v % d = r
  OBVIOUS

LEMMA Shorter ==
  ASSUME NEW v \in Nat, v >= Group
  PROVE  v \div Group \in Nat /\ v \div Group < v /\ v \div Group >= 1
  BY WidthsAssumption, Division

IsVarint(f, n) ==
  f = [v \in 0..(n - 1) |-> IF v < Group THEN <<v>>
                            ELSE <<(v % Group) + Group>> \o f[v \div Group]]

LEMMA VarintExists == ASSUME NEW n \in Nat PROVE \E f : IsVarint(f, n)
  <1> DEFINE T == {k \in Nat : ~ \E f : IsVarint(f, k)}
  <1>1. SUFFICES ASSUME T # {} PROVE FALSE
    OBVIOUS
  <1>2. PICK k \in T : \A m \in T : k <= m
    BY <1>1, LeastNumber
  <1>3. k \in Nat /\ ~ \E f : IsVarint(f, k)
    OBVIOUS
  <1>4. CASE k = 0
    <2>1. 0..(k - 1) = {}
      BY <1>4
    <2> DEFINE g == [v \in {} |-> <<v>>]
    <2>2. g = [v \in {} |-> IF v < Group THEN <<v>>
                            ELSE <<(v % Group) + Group>> \o g[v \div Group]]
      OBVIOUS
    <2>3. IsVarint(g, k)
      BY <2>1, <2>2 DEF IsVarint
    <2> QED
      BY <1>3, <2>3
  <1>5. CASE k > 0
    <2>1. k - 1 \in Nat /\ k - 1 \notin T
      BY <1>2, <1>3, <1>5
    <2>2. PICK f : IsVarint(f, k - 1)
      BY <2>1
    <2> DEFINE g == [v \in 0..(k - 1) |-> IF v < Group THEN <<v>>
                                          ELSE <<(v % Group) + Group>> \o f[v \div Group]]
    <2>3. ASSUME NEW v \in 0..(k - 1), v >= Group PROVE g[v \div Group] = f[v \div Group]
      <3>1. v \div Group \in 0..(k - 2) /\ v \div Group \in 0..(k - 1)
        BY <1>3, <2>3, Shorter
      <3>2. PICK w : w = v \div Group
        OBVIOUS
      <3>3. k - 1 - 1 = k - 2
        BY <1>3
      <3>4. f[w] = IF w < Group THEN <<w>> ELSE <<(w % Group) + Group>> \o f[w \div Group]
        BY <2>2, <3>1, <3>2, <3>3 DEF IsVarint
      <3>5. g[w] = f[w]
        BY <3>1, <3>2, <3>4
      <3> QED
        BY <3>2, <3>5
    <2>4. g = [v \in 0..(k - 1) |-> IF v < Group THEN <<v>>
                                    ELSE <<(v % Group) + Group>> \o g[v \div Group]]
      <3>1. ASSUME NEW v \in 0..(k - 1)
            PROVE  g[v] = IF v < Group THEN <<v>> ELSE <<(v % Group) + Group>> \o g[v \div Group]
        <4>1. v \in Int /\ Group \in Int
          BY <1>3, WidthsAssumption
        <4>2. v < Group \/ v >= Group
          BY <4>1
        <4> QED
          BY <2>3, <4>2
      <3> QED
        BY <3>1
    <2>5. IsVarint(g, k)
      BY <2>4 DEF IsVarint
    <2> QED
      BY <1>3, <2>5
  <1> QED
    BY <1>3, <1>4, <1>5

\* What the function computes: its equation, from here on.
LEMMA WriteVarintIs ==
  ASSUME NEW v \in 0..(Word - 1)
  PROVE  WriteVarint[v] = IF v < Group THEN <<v>>
                          ELSE <<(v % Group) + Group>> \o WriteVarint[v \div Group]
  <1>1. Word \in Nat
    BY WidthsAssumption
  <1>2. \E f : IsVarint(f, Word)
    BY <1>1, VarintExists
  <1>3. WriteVarint = CHOOSE f : IsVarint(f, Word)
    BY DEF WriteVarint, IsVarint
  <1>4. IsVarint(WriteVarint, Word)
    BY <1>2, <1>3, Zenon
  <1> QED
    BY <1>4 DEF IsVarint

\* A varint is at least one byte; all but its last have the flag of another group.
IsGroups(s) ==
  /\ s \in Seq(Bytes) /\ Len(s) >= 1 /\ s[Len(s)] < Group
  /\ \A i \in 1..(Len(s) - 1) : s[i] >= Group

LEMMA ByteSizes == Byte \in Nat /\ Byte = 2 * Group /\ Bytes = 0..(2 * Group - 1) /\ Group \in Nat
  BY WidthsAssumption DEF Byte, Bytes

LEMMA OneByte ==
  ASSUME NEW b \in Bytes
  PROVE  <<b>> \in Seq(Bytes) /\ Len(<<b>>) = 1 /\ <<b>>[1] = b
  OBVIOUS

LEMMA Prepended ==
  ASSUME NEW b \in Bytes, NEW s \in Seq(Bytes)
  PROVE  /\ <<b>> \o s \in Seq(Bytes) /\ Len(<<b>> \o s) = Len(s) + 1 /\ Len(s) \in Nat
         /\ (<<b>> \o s)[1] = b /\ \A i \in 1..Len(s) : (<<b>> \o s)[i + 1] = s[i]
  <1>1. Len(s) \in Nat
    BY LenProperties
  <1>2. <<b>> \in Seq(Bytes) /\ Len(<<b>>) = 1 /\ <<b>>[1] = b
    BY OneByte
  <1>3. PICK h : h = <<b>>
    OBVIOUS
  <1>4. /\ h \o s \in Seq(Bytes) /\ Len(h \o s) = 1 + Len(s)
        /\ \A i \in 1..(1 + Len(s)) : (h \o s)[i] = IF i <= 1 THEN h[i] ELSE s[i - 1]
    BY <1>2, <1>3, ConcatProperties
  <1>5. (h \o s)[1] = b
    BY <1>1, <1>2, <1>3, <1>4
  <1>6. ASSUME NEW i \in 1..Len(s) PROVE (h \o s)[i + 1] = s[i]
    BY <1>1, <1>4
  <1> QED
    BY <1>1, <1>3, <1>4, <1>5, <1>6

LEMMA GroupsPrepended ==
  ASSUME NEW b \in Bytes, b >= Group, NEW s, IsGroups(s)
  PROVE  IsGroups(<<b>> \o s)
  <1>1. PICK t : t = <<b>> \o s
    OBVIOUS
  <1>2. /\ t \in Seq(Bytes) /\ Len(t) = Len(s) + 1 /\ Len(s) \in Nat
        /\ t[1] = b /\ \A i \in 1..Len(s) : t[i + 1] = s[i]
    BY <1>1, Prepended DEF IsGroups
  <1>3. t[Len(t)] < Group /\ Len(t) >= 1
    BY <1>2 DEF IsGroups
  <1>4. ASSUME NEW i \in 1..(Len(t) - 1) PROVE t[i] >= Group
    <2>1. i = 1 \/ i - 1 \in 1..(Len(s) - 1)
      BY <1>2
    <2>2. CASE i - 1 \in 1..(Len(s) - 1)
      <3>1. t[(i - 1) + 1] = s[i - 1] /\ (i - 1) + 1 = i
        BY <1>2, <2>2
      <3> QED
        BY <2>2, <3>1 DEF IsGroups
    <2> QED
      BY <1>2, <2>1, <2>2
  <1> QED
    BY <1>1, <1>2, <1>3, <1>4 DEF IsGroups

\* The two cases of write_varint().
LEMMA WritesLast ==
  ASSUME NEW v \in 0..(Word - 1), v < Group
  PROVE  WriteVarint[v] = <<v>> /\ v \in Bytes
  <1>1. v \in Bytes
    BY ByteSizes, WidthsAssumption
  <1>2. WriteVarint[v] = <<v>>
    BY WriteVarintIs
  <1> QED
    BY <1>1, <1>2

LEMMA WritesGroup ==
  ASSUME NEW v \in 0..(Word - 1), v >= Group
  PROVE  /\ v \div Group \in 0..(Word - 1) /\ v \div Group < v
         /\ WriteVarint[v] = <<(v % Group) + Group>> \o WriteVarint[v \div Group]
         /\ (v % Group) + Group \in Bytes /\ (v % Group) + Group >= Group
  <1>1. v \in Nat /\ Group \in Nat /\ Group > 0 /\ Word \in Nat
    BY WidthsAssumption
  <1>2. v \div Group \in 0..(Word - 1) /\ v \div Group < v
    BY <1>1, Shorter
  <1>3. ~ (v < Group)
    BY <1>1
  <1>4. v % Group \in 0..(Group - 1)
    BY <1>1
  <1>5. (v % Group) + Group \in Bytes /\ (v % Group) + Group >= Group
    BY <1>1, <1>4, ByteSizes
  <1>6. WriteVarint[v] = <<(v % Group) + Group>> \o WriteVarint[v \div Group]
    BY <1>3, WriteVarintIs
  <1> QED
    BY <1>2, <1>3, <1>5, <1>6

LEMMA VarintIsGroups == \A v \in 0..(Word - 1) : IsGroups(WriteVarint[v])
  <1> DEFINE T == {v \in 0..(Word - 1) : ~ IsGroups(WriteVarint[v])}
  <1>0. Word \in Nat /\ T \in SUBSET Nat
    BY WidthsAssumption
  <1>1. SUFFICES ASSUME T # {} PROVE FALSE
    OBVIOUS
  <1>2. PICK v \in T : \A m \in T : v <= m
    BY <1>0, <1>1, LeastNumber
  <1>3. v \in 0..(Word - 1) /\ v \in Nat /\ ~ IsGroups(WriteVarint[v]) /\ Group \in Nat
    BY <1>0, WidthsAssumption
  <1>4. CASE v < Group
    <2>1. WriteVarint[v] = <<v>> /\ v \in Bytes
      BY <1>3, <1>4, WritesLast
    <2>2. IsGroups(<<v>>)
      BY <1>4, <2>1, OneByte DEF IsGroups
    <2> QED
      BY <1>3, <2>1, <2>2
  <1>5. CASE v >= Group
    <2>0. /\ v \div Group \in 0..(Word - 1) /\ v \div Group < v
          /\ WriteVarint[v] = <<(v % Group) + Group>> \o WriteVarint[v \div Group]
          /\ (v % Group) + Group \in Bytes /\ (v % Group) + Group >= Group
      BY <1>3, <1>5, WritesGroup
    <2>1. PICK w, b : /\ w = v \div Group /\ b = (v % Group) + Group
                      /\ w \in 0..(Word - 1) /\ w < v /\ b \in Bytes /\ b >= Group
                      /\ WriteVarint[v] = <<b>> \o WriteVarint[w]
      BY <2>0
    <2>2. w \notin T
      BY <1>2, <1>3, <2>1
    <2>3. PICK s : s = WriteVarint[w] /\ IsGroups(s)
      BY <2>1, <2>2
    <2>4. IsGroups(<<b>> \o s)
      BY <2>1, <2>3, GroupsPrepended
    <2> QED
      BY <1>3, <2>1, <2>3, <2>4
  <1> QED
    BY <1>3, <1>4, <1>5

LEMMA VarintLength ==
  ASSUME NEW v \in 0..(Word - 1)
  PROVE  Len(WriteVarint[v]) \in Nat /\ Len(WriteVarint[v]) >= 1
  BY VarintIsGroups, LenProperties DEF IsGroups

LEMMA Written ==
  ASSUME NEW v \in 0..(Word - 1)
  PROVE  WriteVarint[v] \in Seq(Bytes) /\ Len(WriteVarint[v]) \in Nat \ {0}
  <1>1. Len(WriteVarint[v]) \in Nat /\ Len(WriteVarint[v]) >= 1
    BY VarintLength
  <1> QED
    BY <1>1, VarintIsGroups DEF IsGroups

LEMMA LengthOfMore ==
  ASSUME NEW v \in 0..(Word - 1), v >= Group
  PROVE  Len(WriteVarint[v]) = Len(WriteVarint[v \div Group]) + 1
  <1>0. /\ v \div Group \in 0..(Word - 1) /\ (v % Group) + Group \in Bytes
        /\ WriteVarint[v] = <<(v % Group) + Group>> \o WriteVarint[v \div Group]
    BY WritesGroup
  <1>1. PICK w, b : /\ w = v \div Group /\ b = (v % Group) + Group
                    /\ w \in 0..(Word - 1) /\ b \in Bytes
                    /\ WriteVarint[v] = <<b>> \o WriteVarint[w]
    BY <1>0
  <1>2. WriteVarint[w] \in Seq(Bytes)
    BY <1>1, VarintIsGroups DEF IsGroups
  <1>3. Len(<<b>> \o WriteVarint[w]) = Len(WriteVarint[w]) + 1
    BY <1>1, <1>2, Prepended
  <1> QED
    BY <1>1, <1>3

LEMMA DivisionMonotone ==
  ASSUME NEW v \in Nat, NEW w \in Nat, v <= w
  PROVE  v \div Group <= w \div Group /\ v \div Group \in Nat /\ w \div Group \in Nat
  <1>1. Group \in Nat /\ Group > 0
    BY WidthsAssumption
  <1>2. /\ v \div Group \in Nat /\ w \div Group \in Nat
        /\ v = (v \div Group) * Group + (v % Group) /\ v % Group \in 0..(Group - 1)
        /\ w = (w \div Group) * Group + (w % Group) /\ w % Group \in 0..(Group - 1)
    BY <1>1, Division
  <1>3. PICK a \in Nat, b \in Nat : a = v \div Group /\ b = w \div Group
    BY <1>2
  <1>4. SUFFICES ASSUME a >= b + 1 PROVE FALSE
    BY <1>2, <1>3
  <1>5. a * Group >= (b + 1) * Group
    BY <1>1, <1>4
  <1>6. (b + 1) * Group = b * Group + Group
    BY <1>1
  <1>7. a * Group \in Int /\ b * Group \in Int
    BY <1>1
  <1>8. v >= b * Group + Group
    BY <1>1, <1>2, <1>3, <1>5, <1>6, <1>7
  <1> QED
    BY <1>1, <1>2, <1>3, <1>7, <1>8

\* A larger value is not written shorter.
LEMMA LengthMonotone ==
  \A v \in 0..(Word - 1), w \in 0..(Word - 1) :
    v <= w => Len(WriteVarint[v]) <= Len(WriteVarint[w])
  <1> DEFINE Longer(v) == \E w \in 0..(Word - 1) :
                            v <= w /\ ~ (Len(WriteVarint[v]) <= Len(WriteVarint[w]))
             T == {v \in 0..(Word - 1) : Longer(v)}
  <1>0. Word \in Nat /\ T \in SUBSET Nat /\ Group \in Nat
    BY WidthsAssumption
  <1>1. SUFFICES ASSUME T # {} PROVE FALSE
    OBVIOUS
  <1>2. PICK v \in T : \A m \in T : v <= m
    BY <1>0, <1>1, LeastNumber
  <1>3. v \in 0..(Word - 1) /\ v \in Nat /\ Longer(v)
    BY <1>0
  <1>4. PICK w \in 0..(Word - 1) : v <= w /\ ~ (Len(WriteVarint[v]) <= Len(WriteVarint[w]))
    BY <1>3
  <1>5. w \in Nat /\ Len(WriteVarint[w]) >= 1 /\ Len(WriteVarint[w]) \in Nat
    BY <1>0, VarintLength
  <1>6. CASE v < Group
    <2>1. WriteVarint[v] = <<v>>
      BY <1>3, <1>6, WritesLast
    <2>2. Len(WriteVarint[v]) = 1
      BY <2>1
    <2> QED
      BY <1>4, <1>5, <2>2
  <1>7. CASE v >= Group
    <2>1. w >= Group
      BY <1>0, <1>3, <1>4, <1>5, <1>7
    <2>2. PICK a, b : a = v \div Group /\ b = w \div Group
      OBVIOUS
    <2>3. a \in 0..(Word - 1) /\ b \in 0..(Word - 1) /\ a < v
      BY <1>3, <1>7, <2>1, <2>2, WritesGroup
    <2>4. a <= b /\ a \in Nat
      BY <1>3, <1>4, <1>5, <2>2, DivisionMonotone
    <2>5. Len(WriteVarint[v]) = Len(WriteVarint[a]) + 1
      BY <1>3, <1>7, <2>2, LengthOfMore
    <2>6. Len(WriteVarint[w]) = Len(WriteVarint[b]) + 1
      BY <2>1, <2>2, LengthOfMore
    <2>7. a \notin T
      BY <1>2, <1>3, <2>3, <2>4
    <2>8. Len(WriteVarint[a]) <= Len(WriteVarint[b])
      BY <2>3, <2>4, <2>7
    <2>9. Len(WriteVarint[a]) \in Nat /\ Len(WriteVarint[b]) \in Nat
      BY <2>3, VarintLength
    <2> QED
      BY <1>4, <2>5, <2>6, <2>8, <2>9
  <1> QED
    BY <1>0, <1>3, <1>6, <1>7

\* read_varint() has room for everything write_varint() writes.
LEMMA RoomForAll ==
  ASSUME NEW v \in 0..(Word - 1)
  PROVE  Len(WriteVarint[v]) <= Groups /\ Groups \in Nat
  <1>1. Word \in Nat /\ Word >= 1
    BY WidthsAssumption
  <1>2. Word - 1 \in 0..(Word - 1) /\ v <= Word - 1
    BY <1>1
  <1> QED
    BY <1>2, LengthMonotone, VarintLength DEF Groups
-----------------------------------------------------------------------------
(* Reading.  Holds: the bytes of c are in w, from position p on.  Sums: f  *)
(* is the recursion of Sum, over the n bytes before position a.            *)

Holds(w, p, c) == p + Len(c) <= Len(w) + 1 /\ \A i \in 1..Len(c) : w[p + i - 1] = c[i]

Sums(f, w, a, n) ==
  f = [k \in 0..n |-> IF k = 0 THEN 0 ELSE f[k - 1] * Group + (w[a - k] % Group)]

LEMMA SumsExist ==
  ASSUME NEW w \in Seq(Bytes), NEW n \in Nat, NEW a \in Int, a - n >= 1, a <= Len(w) + 1
  PROVE  \E f \in [0..n -> Nat] : Sums(f, w, a, n)
  <1>0. Len(w) \in Nat /\ Group \in Nat /\ Group > 0
    BY LenProperties, WidthsAssumption
  <1> DEFINE step == [i \in 1..n |-> [s \in Nat |-> s * Group + (w[a - i] % Group)]]
  <1>1. ASSUME NEW i \in 1..n, NEW s \in Nat PROVE s * Group + (w[a - i] % Group) \in Nat
    <2>1. a - i \in 1..Len(w)
      BY <1>0
    <2>2. PICK b \in Bytes : b = w[a - i]
      BY <2>1, ElementOfSeq
    <2>3. b \in Nat
      BY <2>2, ByteSizes
    <2>4. b % Group \in Nat
      BY <1>0, <2>3
    <2>5. s * Group \in Nat
      BY <1>0
    <2> QED
      BY <2>2, <2>4, <2>5
  <1>2. step \in [1..n -> [Nat -> Nat]]
    BY <1>1
  <1>3. PICK f \in [0..n -> Nat] : IsTable(f, n, 0, step)
    <2>1. 0 \in Nat
      OBVIOUS
    <2> HIDE DEF step
    <2> QED
      BY <1>2, <2>1, RecursionExists
  <1>4. ASSUME NEW i \in 1..n PROVE f[i] = f[i - 1] * Group + (w[a - i] % Group)
    <2>1. i - 1 \in 0..n
      OBVIOUS
    <2>2. f[i - 1] \in Nat
      BY <2>1
    <2>3. PICK s \in Nat : s = f[i - 1]
      BY <2>2
    <2>4. step[i][s] = s * Group + (w[a - i] % Group)
      OBVIOUS
    <2> QED
      BY <1>3, <2>3, <2>4 DEF IsTable
  <1>5. f = [k \in 0..n |-> IF k = 0 THEN 0 ELSE f[k - 1] * Group + (w[a - k] % Group)]
    BY <1>3, <1>4 DEF IsTable
  <1> QED
    BY <1>5 DEF Sums

LEMMA ShorterSums ==
  ASSUME NEW w, NEW n \in Nat, n >= 1, NEW a, NEW f, Sums(f, w, a, n)
  PROVE  /\ Sums([k \in 0..(n - 1) |-> f[k]], w, a, n - 1)
         /\ f[n] = f[n - 1] * Group + (w[a - n] % Group)
  <1> DEFINE g == [k \in 0..(n - 1) |-> f[k]]
  <1>1. \A k \in 0..n : f[k] = IF k = 0 THEN 0 ELSE f[k - 1] * Group + (w[a - k] % Group)
    BY DEF Sums
  <1>2. ASSUME NEW k \in 0..(n - 1)
        PROVE  g[k] = IF k = 0 THEN 0 ELSE g[k - 1] * Group + (w[a - k] % Group)
    <2>1. k # 0 => g[k - 1] = f[k - 1]
      OBVIOUS
    <2>2. g[k] = f[k] /\ k \in 0..n
      OBVIOUS
    <2> QED
      BY <1>1, <2>1, <2>2
  <1>3. g = [k \in 0..(n - 1) |-> IF k = 0 THEN 0 ELSE g[k - 1] * Group + (w[a - k] % Group)]
    BY <1>2
  <1> QED
    BY <1>1, <1>3 DEF Sums

LEMMA SumsAgree ==
  ASSUME NEW w, NEW a, NEW n \in Nat, NEW f, Sums(f, w, a, n), NEW g, Sums(g, w, a, n)
  PROVE  f[n] = g[n]
  <1> DEFINE T == {k \in 0..n : f[k] # g[k]}
  <1>1. SUFFICES ASSUME T # {} PROVE FALSE
    <2>1. n \notin T /\ n \in 0..n
      BY <1>1
    <2> QED
      BY <2>1
  <1>2. PICK k \in T : \A m \in T : k <= m
    <2>1. T \in SUBSET Nat
      OBVIOUS
    <2> QED
      BY <1>1, <2>1, LeastNumber
  <1>3. k \in 0..n /\ f[k] # g[k]
    OBVIOUS
  <1>4. /\ f[k] = IF k = 0 THEN 0 ELSE f[k - 1] * Group + (w[a - k] % Group)
        /\ g[k] = IF k = 0 THEN 0 ELSE g[k - 1] * Group + (w[a - k] % Group)
    BY <1>3 DEF Sums
  <1>5. k # 0
    BY <1>3, <1>4
  <1>6. k - 1 \in 0..n /\ ~ (k <= k - 1)
    BY <1>3, <1>5
  <1>7. f[k - 1] = g[k - 1]
    BY <1>2, <1>6
  <1> QED
    BY <1>3, <1>4, <1>5, <1>7

LEMMA HoldsBoth ==
  ASSUME NEW w \in Seq(Bytes), NEW p \in Nat, NEW s \in Seq(Bytes), NEW t \in Seq(Bytes)
  PROVE  Holds(w, p, s \o t) <=> Holds(w, p, s) /\ Holds(w, p + Len(s), t)
  <1>1. PICK a \in Nat, b \in Nat, n \in Nat : a = Len(s) /\ b = Len(t) /\ n = Len(w)
    BY LenProperties
  <1>2. PICK c : c = s \o t
    OBVIOUS
  <1>3. Len(c) = a + b /\ \A i \in 1..(a + b) : c[i] = IF i <= a THEN s[i] ELSE t[i - a]
    BY <1>1, <1>2, ConcatProperties
  <1>4. ASSUME Holds(w, p, c) PROVE Holds(w, p, s) /\ Holds(w, p + a, t)
    <2>1. p + (a + b) <= n + 1 /\ \A i \in 1..(a + b) : w[p + i - 1] = c[i]
      BY <1>1, <1>3, <1>4 DEF Holds
    <2>2. ASSUME NEW i \in 1..a PROVE w[p + i - 1] = s[i]
      BY <1>3, <2>1
    <2>3. ASSUME NEW i \in 1..b PROVE w[p + a + i - 1] = t[i]
      <3>1. /\ a + i \in 1..(a + b) /\ ~ (a + i <= a) /\ (a + i) - a = i
            /\ p + (a + i) - 1 = p + a + i - 1
        OBVIOUS
      <3>2. c[a + i] = t[i]
        BY <1>3, <3>1
      <3>3. w[p + (a + i) - 1] = c[a + i]
        BY <2>1, <3>1
      <3> QED
        BY <3>1, <3>2, <3>3
    <2>4. p + a <= n + 1 /\ (p + a) + b <= n + 1
      BY <2>1
    <2> QED
      BY <1>1, <2>2, <2>3, <2>4 DEF Holds
  <1>5. ASSUME Holds(w, p, s), Holds(w, p + a, t) PROVE Holds(w, p, c)
    <2>1. /\ (p + a) + b <= n + 1 /\ \A i \in 1..a : w[p + i - 1] = s[i]
          /\ \A i \in 1..b : w[p + a + i - 1] = t[i]
      BY <1>1, <1>5 DEF Holds
    <2>2. ASSUME NEW i \in 1..(a + b) PROVE w[p + i - 1] = c[i]
      <3>1. CASE i <= a
        <4>1. i \in 1..a
          BY <3>1
        <4> QED
          BY <1>3, <2>1, <3>1, <4>1
      <3>2. CASE ~ (i <= a)
        <4>1. i - a \in 1..b /\ p + a + (i - a) - 1 = p + i - 1
          BY <3>2
        <4>2. c[i] = t[i - a]
          BY <1>3, <3>2
        <4>3. w[p + a + (i - a) - 1] = t[i - a]
          BY <2>1, <4>1
        <4> QED
          BY <4>1, <4>2, <4>3
      <3> QED
        BY <3>1, <3>2
    <2>3. p + (a + b) <= n + 1
      BY <2>1
    <2> QED
      BY <1>1, <1>3, <2>2, <2>3 DEF Holds
  <1> QED
    BY <1>1, <1>2, <1>4, <1>5

LEMMA HoldsByte ==
  ASSUME NEW w, NEW p \in Nat, NEW b \in Bytes, Holds(w, p, <<b>>)
  PROVE  w[p] = b
  <1>1. w[p + 1 - 1] = <<b>>[1] /\ p + 1 - 1 = p
    BY OneByte DEF Holds
  <1> QED
    BY <1>1

\* What is summed over the groups of a value is that value.
LEMMA SumOfVarint ==
  \A v \in 0..(Word - 1) : \A w \in Seq(Bytes), p \in Nat \ {0} : \A f :
    /\ Holds(w, p, WriteVarint[v])
    /\ Sums(f, w, p + Len(WriteVarint[v]), Len(WriteVarint[v]))
    => f[Len(WriteVarint[v])] = v
  <1> DEFINE Right(v) == \A w \in Seq(Bytes), p \in Nat \ {0} : \A f :
                /\ Holds(w, p, WriteVarint[v])
                /\ Sums(f, w, p + Len(WriteVarint[v]), Len(WriteVarint[v]))
                => f[Len(WriteVarint[v])] = v
             T == {v \in 0..(Word - 1) : ~ Right(v)}
  <1>0. Word \in Nat /\ T \in SUBSET Nat /\ Group \in Nat /\ Group > 0
    BY WidthsAssumption
  <1>1. SUFFICES ASSUME T # {} PROVE FALSE
    OBVIOUS
  <1>2. PICK v \in T : \A m \in T : v <= m
    BY <1>0, <1>1, LeastNumber
  <1>3. v \in 0..(Word - 1) /\ v \in Nat /\ ~ Right(v)
    BY <1>0
  <1>10. PICK w \in Seq(Bytes), p \in Nat \ {0} :
          ~ \A f : /\ Holds(w, p, WriteVarint[v])
                  /\ Sums(f, w, p + Len(WriteVarint[v]), Len(WriteVarint[v]))
                  => f[Len(WriteVarint[v])] = v
    BY <1>3
  <1>4. PICK f :
          /\ Holds(w, p, WriteVarint[v])
          /\ Sums(f, w, p + Len(WriteVarint[v]), Len(WriteVarint[v]))
          /\ f[Len(WriteVarint[v])] # v
    BY <1>10
  <1>5. PICK n \in Nat \ {0} : n = Len(WriteVarint[v])
    BY <1>3, VarintLength
  <1>6. PICK e \in Int : e = p + n /\ e - n = p /\ Sums(f, w, e, n)
    BY <1>4, <1>5
  <1>9. /\ f[n] = f[n - 1] * Group + (w[p] % Group)
        /\ Sums([k \in 0..(n - 1) |-> f[k]], w, e, n - 1)
    <2>1. n >= 1
      OBVIOUS
    <2> QED
      BY <1>6, <2>1, ShorterSums
  <1>7. CASE v < Group
    <2>1. WriteVarint[v] = <<v>> /\ v \in Bytes
      BY <1>3, <1>7, WritesLast
    <2>2. n = 1 /\ w[p] = v
      BY <1>4, <1>5, <2>1, OneByte, HoldsByte
    <2>3. f[0] = 0
      BY <1>4, <1>5, <2>2 DEF Sums
    <2>4. 0 * Group = 0 /\ n - 1 = 0
      BY <1>0, <2>2
    <2>5. v \in 0..(Group - 1) /\ v = 0 * Group + v
      BY <1>0, <1>3, <1>7
    <2>6. v % Group = v
      BY <1>0, <1>3, <2>5, DivisionIs
    <2>7. f[n] = 0 + v
      BY <1>9, <2>2, <2>3, <2>4, <2>6
    <2> QED
      BY <1>3, <1>4, <1>5, <2>7
  <1>8. CASE v >= Group
    <2>0. /\ v \div Group \in 0..(Word - 1) /\ v \div Group < v
          /\ WriteVarint[v] = <<(v % Group) + Group>> \o WriteVarint[v \div Group]
          /\ (v % Group) + Group \in Bytes /\ (v % Group) + Group >= Group
      BY <1>3, <1>8, WritesGroup
    <2>1. PICK u, b : /\ u = v \div Group /\ b = (v % Group) + Group
                      /\ u \in 0..(Word - 1) /\ u < v /\ b \in Bytes
                      /\ WriteVarint[v] = <<b>> \o WriteVarint[u]
      BY <2>0
    <2>2. Len(WriteVarint[u]) = n - 1 /\ WriteVarint[u] \in Seq(Bytes)
      BY <1>5, <2>1, Prepended, VarintIsGroups DEF IsGroups
    <2>3. w[p] = b /\ Holds(w, p + 1, WriteVarint[u])
      <3>1. PICK h \in Seq(Bytes) : h = <<b>> /\ Len(h) = 1
        BY <2>1, OneByte
      <3>2. PICK t \in Seq(Bytes) : t = WriteVarint[u]
        BY <2>2
      <3>3. Holds(w, p, h \o t)
        BY <1>4, <2>1, <3>1, <3>2
      <3>4. Holds(w, p, h) /\ Holds(w, p + 1, t)
        BY <3>1, <3>3, HoldsBoth
      <3> QED
        BY <2>1, <3>1, <3>2, <3>4, HoldsByte
    <2>4. PICK g : g = [k \in 0..(n - 1) |-> f[k]] /\ Sums(g, w, e, n - 1)
      BY <1>9
    <2>5. e = (p + 1) + (n - 1) /\ p + 1 \in Nat \ {0}
      BY <1>6
    <2>6. Right(u)
      <3>0. ~ (v <= u)
        BY <1>0, <1>3, <2>1
      <3>1. u \notin T
        BY <1>2, <3>0
      <3> QED
        BY <2>1, <3>1
    <2>7. g[n - 1] = u
      BY <2>2, <2>3, <2>4, <2>5, <2>6
    <2>8. f[n - 1] = u
      BY <2>4, <2>7
    <2>9. PICK r \in 0..(Group - 1) : r = v % Group /\ v = u * Group + r
      BY <1>0, <1>3, <2>1, Division
    <2>10. b \in Nat /\ b = 1 * Group + r
      BY <1>0, <2>1, <2>9
    <2>11. b % Group = r
      BY <1>0, <2>10, DivisionIs
    <2>12. f[n] = u * Group + r
      BY <1>9, <2>3, <2>8, <2>11
    <2> QED
      BY <1>4, <1>5, <2>9, <2>12
  <1> QED
    BY <1>0, <1>3, <1>7, <1>8
-----------------------------------------------------------------------------
(* read_varint() on any payload, on a varint and on the beginning of one.  *)

LEMMA EndsAreSizes ==
  ASSUME wire \in Seq(Bytes), NEW p \in Nat \ {0}
  PROVE  /\ Ends(p) \in SUBSET Nat /\ Len(wire) \in Nat
         /\ Readable(p) => /\ Min(Ends(p)) \in Ends(p) /\ Min(Ends(p)) \in Nat \ {0}
                           /\ After(p) = p + Min(Ends(p)) /\ After(p) - Min(Ends(p)) = p
                           /\ After(p) \in (p + 1)..(Len(wire) + 1)
  <1>1. Len(wire) \in Nat
    BY LenProperties
  <1>2. Ends(p) \in SUBSET Nat
    BY DEF Ends
  <1>3. ASSUME Readable(p)
        PROVE  /\ Min(Ends(p)) \in Ends(p) /\ Min(Ends(p)) \in Nat \ {0}
               /\ After(p) = p + Min(Ends(p)) /\ After(p) - Min(Ends(p)) = p
               /\ After(p) \in (p + 1)..(Len(wire) + 1)
    <2>1. Min(Ends(p)) \in Ends(p)
      BY <1>2, <1>3, MinProperties DEF Readable
    <2>2. PICK n : n = Min(Ends(p))
      OBVIOUS
    <2>3. n \in Nat \ {0} /\ p + n - 1 <= Len(wire)
      BY <2>1, <2>2 DEF Ends
    <2>4. After(p) = p + n
      BY <2>2 DEF After
    <2> QED
      BY <1>1, <2>1, <2>2, <2>3, <2>4
  <1> QED
    BY <1>1, <1>2, <1>3

LEMMA SumIsASum ==
  ASSUME wire \in Seq(Bytes), NEW p \in Nat \ {0}, Readable(p)
  PROVE  \E f : Sums(f, wire, After(p), Min(Ends(p))) /\ Sum(p) = f[Min(Ends(p))]
                /\ Sum(p) \in Nat
  <1> DEFINE n == Min(Ends(p))
             f == CHOOSE f : Sums(f, wire, After(p), n)
  <1>1. n \in Nat \ {0} /\ After(p) \in Int /\ After(p) - n >= 1 /\ After(p) <= Len(wire) + 1
    <2>1. /\ Min(Ends(p)) \in Nat \ {0} /\ After(p) - Min(Ends(p)) = p
          /\ After(p) \in (p + 1)..(Len(wire) + 1) /\ Len(wire) \in Nat
      BY EndsAreSizes
    <2> QED
      BY <2>1
  <1>2. \E g \in [0..n -> Nat] : Sums(g, wire, After(p), n)
    <2> HIDE DEF n
    <2> QED
      BY <1>1, SumsExist
  <1>3. Sums(f, wire, After(p), n)
    <2>1. \E g : Sums(g, wire, After(p), n)
      BY <1>2
    <2> QED
      BY <2>1, Zenon
  <1>4. Sum(p) = f[n]
    BY DEF Sum, Sums
  <1>5. f[n] \in Nat
    <2> HIDE DEF n, f
    <2>1. PICK g \in [0..n -> Nat] : Sums(g, wire, After(p), n)
      BY <1>2
    <2> QED
      BY <1>1, <1>3, <2>1, SumsAgree
  <1> QED
    BY <1>3, <1>4, <1>5

\* Whatever is read fits a word.
LEMMA ReadsAWord ==
  ASSUME wire \in Seq(Bytes), NEW p \in Nat \ {0}, Readable(p)
  PROVE  Value(p) \in 0..(Word - 1) /\ After(p) \in (p + 1)..(Len(wire) + 1)
  <1>1. PICK s \in Nat : s = Sum(p)
    BY SumIsASum
  <1>2. Word \in Nat /\ Word > 0
    BY WidthsAssumption
  <1>3. s % Word \in 0..(Word - 1)
    BY <1>2, Division
  <1> QED
    BY <1>1, <1>3, EndsAreSizes DEF Value

LEMMA ReadsVarint ==
  ASSUME wire \in Seq(Bytes), NEW p \in Nat \ {0}, NEW v \in 0..(Word - 1),
         Holds(wire, p, WriteVarint[v])
  PROVE  Readable(p) /\ After(p) = p + Len(WriteVarint[v]) /\ Value(p) = v
  <1>0. Len(wire) \in Nat /\ Word \in Nat /\ Word > 0 /\ Group \in Nat
    BY LenProperties, WidthsAssumption
  <1>1. PICK c : c = WriteVarint[v] /\ IsGroups(c)
    BY VarintIsGroups
  <1>2. PICK n \in Nat \ {0} : n = Len(c) /\ n <= Groups /\ Groups \in Nat
    BY <1>1, VarintLength, RoomForAll
  <1>3. p + n <= Len(wire) + 1 /\ \A i \in 1..n : wire[p + i - 1] = c[i]
    BY <1>1, <1>2 DEF Holds
  <1>4. n \in Ends(p)
    <2>1. wire[p + n - 1] < Group
      <3>1. n \in 1..n
        OBVIOUS
      <3>2. wire[p + n - 1] = c[n]
        BY <1>3, <3>1
      <3> QED
        BY <1>1, <1>2, <3>2 DEF IsGroups
    <2>2. n \in 1..Groups /\ p + n - 1 <= Len(wire)
      BY <1>0, <1>2, <1>3
    <2> QED
      BY <2>1, <2>2 DEF Ends
  <1>5. ASSUME NEW m \in Ends(p) PROVE n <= m
    <2>1. m \in Nat \ {0} /\ wire[p + m - 1] < Group
      BY <1>2 DEF Ends
    <2>2. SUFFICES ASSUME m < n PROVE FALSE
      BY <2>1
    <2>3. m \in 1..n /\ m \in 1..(n - 1)
      BY <2>1, <2>2
    <2>6. c \in Seq(Bytes) /\ m \in 1..Len(c) /\ c[m] >= Group
      BY <1>1, <1>2, <2>3 DEF IsGroups
    <2>4. wire[p + m - 1] = c[m] /\ c[m] >= Group /\ c[m] \in Bytes
      BY <1>3, <2>3, <2>6, ElementOfSeq
    <2>5. c[m] \in Nat
      BY <2>4, ByteSizes
    <2> QED
      BY <1>0, <2>1, <2>4, <2>5
  <1>6. Min(Ends(p)) = n
    BY <1>4, <1>5, EndsAreSizes, MinIs
  <1>7. Readable(p) /\ After(p) = p + n
    BY <1>4, <1>6 DEF Readable, After
  <1>8. PICK f : Sums(f, wire, p + n, n) /\ Sum(p) = f[n]
    BY <1>6, <1>7, SumIsASum
  <1>9. Sum(p) = v
    BY <1>1, <1>2, <1>8, SumOfVarint
  <1>10. v % Word = v
    <2>1. v \in Nat /\ v = 0 * Word + v
      BY <1>0
    <2> QED
      BY <1>0, <2>1, DivisionIs
  <1> QED
    BY <1>1, <1>2, <1>7, <1>9, <1>10 DEF Value

\* The bytes of c are in w from p on as far as w goes.
Begins(w, p, c) == \A i \in 1..Len(c) : p + i - 1 <= Len(w) => w[p + i - 1] = c[i]

LEMMA ReadsNoPart ==
  ASSUME wire \in Seq(Bytes), NEW p \in Nat \ {0}, NEW v \in 0..(Word - 1),
         Begins(wire, p, WriteVarint[v]), Len(wire) + 1 < p + Len(WriteVarint[v])
  PROVE  ~ Readable(p)
  <1>0. Len(wire) \in Nat /\ Group \in Nat
    BY LenProperties, WidthsAssumption
  <1>1. PICK c : c = WriteVarint[v] /\ IsGroups(c)
    BY VarintIsGroups
  <1>2. PICK n \in Nat \ {0} : n = Len(c)
    BY <1>1, VarintLength
  <1>3. SUFFICES ASSUME NEW m \in Ends(p) PROVE FALSE
    BY DEF Readable
  <1>4. m \in Nat \ {0} /\ wire[p + m - 1] < Group /\ p + m - 1 <= Len(wire)
    BY EndsAreSizes DEF Ends
  <1>5. m \in 1..(n - 1) /\ m \in 1..n
    BY <1>0, <1>1, <1>2, <1>4
  <1>6. wire[p + m - 1] = c[m] /\ c[m] >= Group /\ c[m] \in Bytes
    BY <1>1, <1>2, <1>4, <1>5, ElementOfSeq DEF IsGroups, Begins
  <1>7. c[m] \in Nat
    BY <1>6, ByteSizes
  <1> QED
    BY <1>0, <1>4, <1>6, <1>7
-----------------------------------------------------------------------------
(* FlattenSeq, and with it encode(): one field after another.              *)

IsFlat(f, s) == f = [i \in 1..Len(s) |-> IF i = 1 THEN s[i] ELSE f[i - 1] \o s[i]]

LEMMA FlatExists ==
  ASSUME NEW s \in Seq(Seq(Bytes))
  PROVE  \E f \in [1..Len(s) -> Seq(Bytes)] : IsFlat(f, s)
  <1>1. PICK n \in Nat : n = Len(s)
    BY LenProperties
  <1> DEFINE step == [i \in 1..n |-> [x \in Seq(Bytes) |-> x \o s[i]]]
  <1>2. \A i \in 1..n : s[i] \in Seq(Bytes)
    BY <1>1, ElementOfSeq
  <1>3. step \in [1..n -> [Seq(Bytes) -> Seq(Bytes)]]
    BY <1>2, ConcatProperties
  <1>4. PICK f \in [0..n -> Seq(Bytes)] : IsTable(f, n, <<>>, step)
    <2>1. <<>> \in Seq(Bytes)
      OBVIOUS
    <2> HIDE DEF step
    <2> QED
      BY <1>3, <2>1, RecursionExists
  <1> DEFINE g == [i \in 1..n |-> f[i]]
  <1>5. ASSUME NEW i \in 1..n PROVE f[i] = f[i - 1] \o s[i]
    <2>1. i - 1 \in 0..n
      OBVIOUS
    <2>2. PICK x \in Seq(Bytes) : x = f[i - 1]
      BY <2>1
    <2>3. step[i][x] = x \o s[i]
      OBVIOUS
    <2> QED
      BY <1>4, <2>2, <2>3 DEF IsTable
  <1>6. ASSUME NEW i \in 1..n PROVE g[i] = IF i = 1 THEN s[i] ELSE g[i - 1] \o s[i]
    <2>1. CASE i = 1
      <3>1. f[0] = <<>> /\ i - 1 = 0
        BY <1>4, <2>1 DEF IsTable
      <3>2. <<>> \o s[i] = s[i]
        BY <1>2, ConcatEmptySeq
      <3> QED
        BY <1>5, <2>1, <3>1, <3>2
    <2>2. CASE i # 1
      <3>1. g[i - 1] = f[i - 1]
        BY <2>2
      <3> QED
        BY <1>5, <2>2, <3>1
    <2> QED
      BY <2>1, <2>2
  <1>7. g = [i \in 1..n |-> IF i = 1 THEN s[i] ELSE g[i - 1] \o s[i]]
    BY <1>6
  <1>8. g \in [1..n -> Seq(Bytes)]
    OBVIOUS
  <1> QED
    BY <1>1, <1>7, <1>8 DEF IsFlat

Lengthens(s, t) == Len(t) <= Len(s) /\ \A i \in 1..Len(t) : t[i] = s[i]

LEMMA FlatsAgree ==
  ASSUME NEW s \in Seq(Seq(Bytes)), NEW t \in Seq(Seq(Bytes)), Lengthens(s, t),
         NEW f, IsFlat(f, s), NEW g, IsFlat(g, t), NEW n \in 1..Len(t)
  PROVE  f[n] = g[n]
  <1>0. Len(s) \in Nat /\ Len(t) \in Nat
    BY LenProperties
  <1> DEFINE T == {i \in 1..Len(t) : f[i] # g[i]}
  <1>1. SUFFICES ASSUME T # {} PROVE FALSE
    <2>1. n \notin T
      BY <1>1
    <2> QED
      BY <2>1
  <1>2. PICK i \in T : \A k \in T : i <= k
    <2>1. T \in SUBSET Nat
      BY <1>0
    <2> QED
      BY <1>1, <2>1, LeastNumber
  <1>3. i \in 1..Len(t) /\ i \in 1..Len(s) /\ f[i] # g[i] /\ t[i] = s[i]
    BY <1>0 DEF Lengthens
  <1>4. /\ f[i] = IF i = 1 THEN s[i] ELSE f[i - 1] \o s[i]
        /\ g[i] = IF i = 1 THEN t[i] ELSE g[i - 1] \o t[i]
    BY <1>3 DEF IsFlat
  <1>5. i # 1
    BY <1>3, <1>4
  <1>6. i - 1 \in 1..Len(t) /\ ~ (i <= i - 1)
    BY <1>0, <1>3, <1>5
  <1>7. f[i - 1] = g[i - 1]
    BY <1>2, <1>6
  <1> QED
    BY <1>3, <1>4, <1>5, <1>7

LEMMA FlattenIs ==
  ASSUME NEW s \in Seq(Seq(Bytes)), Len(s) >= 1
  PROVE  \E f : IsFlat(f, s) /\ FlattenSeq(s) = f[Len(s)] /\ FlattenSeq(s) \in Seq(Bytes)
  <1>0. PICK n \in Nat \ {0} : n = Len(s)
    BY LenProperties
  <1>1. PICK g \in [1..n -> Seq(Bytes)] : IsFlat(g, s)
    BY <1>0, FlatExists
  <1>2. PICK f : f = (CHOOSE h : IsFlat(h, s)) /\ IsFlat(f, s)
    <2>1. \E h : IsFlat(h, s)
      BY <1>1
    <2>2. IsFlat(CHOOSE h : IsFlat(h, s), s)
      BY <2>1, Zenon
    <2> QED
      BY <2>2
  <1>3. FlattenSeq(s) = f[n]
    <2>1. Len(s) # 0
      BY <1>0
    <2> QED
      BY <1>0, <1>2, <2>1 DEF FlattenSeq, IsFlat
  <1>4. f[n] = g[n]
    <2>1. Lengthens(s, s) /\ n \in 1..Len(s)
      BY <1>0 DEF Lengthens
    <2> QED
      BY <1>1, <1>2, <2>1, FlatsAgree
  <1>5. g[n] \in Seq(Bytes)
    OBVIOUS
  <1> QED
    BY <1>0, <1>2, <1>3, <1>4, <1>5

LEMMA FlattenNone == FlattenSeq(<<>>) = <<>>
  BY DEF FlattenSeq

LEMMA FlattenOneMore ==
  ASSUME NEW t \in Seq(Seq(Bytes)), NEW s \in Seq(Seq(Bytes)), Len(s) = Len(t) + 1,
         \A i \in 1..Len(t) : t[i] = s[i]
  PROVE  FlattenSeq(s) = FlattenSeq(t) \o s[Len(s)]
  <1>0. Len(t) \in Nat /\ Len(s) \in Nat
    BY LenProperties
  <1>1. PICK f : IsFlat(f, s) /\ FlattenSeq(s) = f[Len(s)]
    BY <1>0, FlattenIs
  <1>2. f[Len(s)] = IF Len(s) = 1 THEN s[Len(s)] ELSE f[Len(s) - 1] \o s[Len(s)]
    <2>1. Len(s) \in 1..Len(s)
      BY <1>0
    <2> QED
      BY <1>1, <2>1 DEF IsFlat
  <1>3. CASE Len(t) = 0
    <2>1. t = <<>>
      BY <1>3, EmptySeq
    <2>2. Len(s) \in 1..Len(s)
      BY <1>0, <1>3
    <2>3. PICK e \in Seq(Bytes) : e = s[Len(s)]
      BY <2>2, ElementOfSeq
    <2>4. <<>> \o e = e
      BY ConcatEmptySeq
    <2> QED
      BY <1>1, <1>2, <1>3, <2>1, <2>3, <2>4, FlattenNone
  <1>4. CASE Len(t) # 0
    <2>1. PICK g : IsFlat(g, t) /\ FlattenSeq(t) = g[Len(t)]
      BY <1>0, <1>4, FlattenIs
    <2>2. Len(t) \in 1..Len(t) /\ Len(t) = Len(s) - 1 /\ Len(t) <= Len(s)
      BY <1>0, <1>4
    <2>6. Lengthens(s, t)
      BY <2>2 DEF Lengthens
    <2>3. f[Len(t)] = g[Len(t)]
      BY <1>1, <2>1, <2>2, <2>6, FlatsAgree
    <2>4. f[Len(s) - 1] = g[Len(t)]
      BY <2>2, <2>3
    <2>5. Len(s) # 1
      BY <1>0, <1>4
    <2> QED
      BY <1>1, <1>2, <2>1, <2>4, <2>5
  <1> QED
    BY <1>3, <1>4
-----------------------------------------------------------------------------
(* The fields of a message.                                                *)

LEMMA FieldNames ==
  /\ FieldName[1] = "id" /\ FieldName[2] = "kind" /\ FieldName[3] = "service"
  /\ FieldName[4] = "method" /\ FieldName[5] = "payload" /\ FieldName[6] = "status"
  /\ FieldName[7] = "error"
  BY DEF FieldName

LEMMA FieldTypes ==
  ASSUME NEW m \in Sendable
  PROVE  /\ m[FieldName[1]] \in 0..(Word - 1) /\ m[FieldName[2]] \in 0..(Half - 1)
         /\ m[FieldName[6]] \in (-(Half \div 2))..(Half \div 2 - 1)
         /\ \A f \in Texts : m[FieldName[f]] \in Seq(Bytes) /\ Len(m[FieldName[f]]) \in 0..(Word - 1)
  <1>1. m \in MessagesWith((-(Half \div 2))..(Half \div 2 - 1))
        /\ \A f \in Texts : Len(m[FieldName[f]]) < Word
    BY DEF Sendable, SentType
  <1>2. /\ m["id"] \in 0..(Word - 1) /\ m["kind"] \in 0..(Half - 1)
        /\ m["status"] \in (-(Half \div 2))..(Half \div 2 - 1)
        /\ m["service"] \in Seq(Bytes) /\ m["method"] \in Seq(Bytes)
        /\ m["payload"] \in Seq(Bytes) /\ m["error"] \in Seq(Bytes)
    BY <1>1 DEF MessagesWith
  <1>3. ASSUME NEW f \in Texts PROVE m[FieldName[f]] \in Seq(Bytes)
    BY <1>2, FieldNames DEF Texts
  <1>4. ASSUME NEW f \in Texts PROVE Len(m[FieldName[f]]) \in 0..(Word - 1)
    <2>1. Len(m[FieldName[f]]) \in Nat
      BY <1>3, LenProperties
    <2> QED
      BY <1>1, <2>1, WidthsAssumption
  <1> QED
    BY <1>2, <1>3, <1>4, FieldNames

LEMMA TagFits ==
  ASSUME NEW f \in 0..(Half - 1), NEW t \in 0..7
  PROVE  /\ (f * 8) + t \in 0..(Word - 1)
         /\ (((f * 8) + t) \div 8) % Half = f /\ ((f * 8) + t) % 8 = t
  <1>1. Half \in Nat /\ Half > 0 /\ Word \in Nat /\ Word >= 8 * Half
    BY WidthsAssumption
  <1>2. (f * 8) + t \in 0..(Word - 1) /\ (f * 8) + t \in Nat
    BY <1>1
  <1>3. ((f * 8) + t) \div 8 = f /\ ((f * 8) + t) % 8 = t
    OBVIOUS
  <1>4. f \in Nat /\ f = 0 * Half + f
    BY <1>1
  <1>5. f % Half = f
    BY <1>1, <1>4, DivisionIs
  <1> QED
    BY <1>2, <1>3, <1>5

LEMMA FieldsAreNumbers ==
  /\ 1..7 = Numbers \cup Texts /\ Numbers \cap Texts = {}
  /\ \A f \in 1..7 : f \in 0..(Half - 1)
  /\ \A f \in Numbers : Default(f) = 0
  /\ \A f \in Texts : Default(f) = <<>>
  <1>1. 1..7 = Numbers \cup Texts /\ Numbers \cap Texts = {}
    BY DEF Numbers, Texts
  <1>2. \A f \in 1..7 : f \in 0..(Half - 1)
    BY WidthsAssumption
  <1>3. \A f \in Numbers : Default(f) = 0
    BY FieldNames DEF Default, Empty, Numbers
  <1>4. \A f \in Texts : Default(f) = <<>>
    BY FieldNames DEF Default, Empty, Texts
  <1> QED
    BY <1>1, <1>2, <1>3, <1>4

LEMMA CastFits ==
  ASSUME NEW m \in Sendable, NEW f \in Numbers
  PROVE  Cast(f, m[FieldName[f]]) \in 0..(Word - 1)
  <1>1. Half \in Nat /\ Half > 0 /\ Word \in Nat /\ Word >= 8 * Half
    BY WidthsAssumption
  <1>2. CASE f = 1
    BY <1>2, FieldTypes DEF Cast
  <1>3. CASE f # 1
    <2>1. PICK v \in Int : v = m[FieldName[f]]
      BY <1>1, <1>3, FieldTypes DEF Numbers
    <2>2. v % Half \in 0..(Half - 1)
      BY <1>1
    <2>3. Cast(f, v) = v % Half
      BY <1>3 DEF Cast
    <2> QED
      BY <1>1, <2>1, <2>2, <2>3
  <1> QED
    BY <1>2, <1>3

LEMMA NumberField ==
  ASSUME NEW m \in Sendable, NEW f \in Numbers, m[FieldName[f]] # 0
  PROVE  EncodeField(m, f) = WriteVarint[f * 8] \o WriteVarint[Cast(f, m[FieldName[f]])]
  <1>1. f \notin Texts /\ Default(f) = 0 /\ (f * 8) + 0 = f * 8
    BY FieldsAreNumbers DEF Numbers, Texts
  <1> QED
    BY <1>1 DEF EncodeField, WriteTag, Varint

LEMMA TextField ==
  ASSUME NEW m \in Sendable, NEW f \in Texts, m[FieldName[f]] # <<>>
  PROVE  EncodeField(m, f) =
           (WriteVarint[(f * 8) + 2] \o WriteVarint[Len(m[FieldName[f]])]) \o m[FieldName[f]]
  <1>1. Default(f) = <<>>
    BY FieldsAreNumbers
  <1> QED
    BY <1>1 DEF EncodeField, WriteDelimited, WriteTag, Delimited

LEMMA FieldIsBytes ==
  ASSUME NEW m \in Sendable, NEW f \in 1..7
  PROVE  EncodeField(m, f) \in Seq(Bytes)
  <1>0. f \in 0..(Half - 1) /\ (f \in Numbers \/ f \in Texts)
    BY FieldsAreNumbers
  <1>1. CASE m[FieldName[f]] = Default(f)
    BY <1>1, EmptySeq DEF EncodeField
  <1>2. CASE f \in Numbers /\ m[FieldName[f]] # Default(f)
    <2>1. m[FieldName[f]] # 0
      BY <1>2, FieldsAreNumbers
    <2>2. f * 8 \in 0..(Word - 1)
      <3>1. 0 \in 0..7 /\ (f * 8) + 0 = f * 8
        OBVIOUS
      <3> QED
        BY <1>0, <3>1, TagFits
    <2>3. PICK n \in 0..(Word - 1) : n = Cast(f, m[FieldName[f]])
      BY <1>2, CastFits
    <2>4. WriteVarint[f * 8] \in Seq(Bytes) /\ WriteVarint[n] \in Seq(Bytes)
      BY <2>2, VarintIsGroups DEF IsGroups
    <2> QED
      BY <1>2, <2>1, <2>3, <2>4, NumberField, ConcatProperties
  <1>3. CASE f \in Texts /\ m[FieldName[f]] # Default(f)
    <2>1. m[FieldName[f]] # <<>>
      BY <1>3, FieldsAreNumbers
    <2>2. (f * 8) + 2 \in 0..(Word - 1)
      <3>1. 2 \in 0..7
        OBVIOUS
      <3> QED
        BY <1>0, <3>1, TagFits
    <2>3. PICK s \in Seq(Bytes) : s = m[FieldName[f]] /\ Len(s) \in 0..(Word - 1)
      BY <1>3, FieldTypes
    <2>4. WriteVarint[(f * 8) + 2] \in Seq(Bytes) /\ WriteVarint[Len(s)] \in Seq(Bytes)
      BY <2>2, <2>3, VarintIsGroups DEF IsGroups
    <2>5. (WriteVarint[(f * 8) + 2] \o WriteVarint[Len(s)]) \o s \in Seq(Bytes)
      BY <2>4, ConcatProperties
    <2> QED
      BY <1>3, <2>1, <2>3, <2>5, TextField
  <1> QED
    BY <1>0, <1>1, <1>2, <1>3

LEMMA NoFields == ASSUME NEW m, NEW a \in Nat PROVE EncodeFields(m, a, a - 1) = <<>>
  <1>1. (a - 1) - a + 1 = 0
    OBVIOUS
  <1>2. [i \in 1..((a - 1) - a + 1) |-> EncodeField(m, a + i - 1)] = <<>>
    BY <1>1
  <1> QED
    BY <1>2, FlattenNone DEF EncodeFields

LEMMA OneMoreField ==
  ASSUME NEW m \in Sendable, NEW a \in 1..7, NEW b \in a..7
  PROVE  EncodeFields(m, a, b) = EncodeFields(m, a, b - 1) \o EncodeField(m, b)
  <1> DEFINE s == [i \in 1..(b - a + 1) |-> EncodeField(m, a + i - 1)]
             t == [i \in 1..((b - 1) - a + 1) |-> EncodeField(m, a + i - 1)]
  <1>1. b - a + 1 \in Nat /\ (b - 1) - a + 1 = b - a /\ b - a \in Nat
    OBVIOUS
  <1>2. \A i \in 1..(b - a + 1) : EncodeField(m, a + i - 1) \in Seq(Bytes)
    <2>1. ASSUME NEW i \in 1..(b - a + 1) PROVE a + i - 1 \in 1..7
      OBVIOUS
    <2> QED
      BY <2>1, FieldIsBytes
  <1>3. s \in Seq(Seq(Bytes)) /\ Len(s) = b - a + 1
    BY <1>1, <1>2
  <1>4. t \in Seq(Seq(Bytes)) /\ Len(t) = b - a
    <2>1. ASSUME NEW i \in 1..(b - a) PROVE EncodeField(m, a + i - 1) \in Seq(Bytes)
      <3>1. i \in 1..(b - a + 1)
        OBVIOUS
      <3> QED
        BY <1>2, <3>1
    <2>2. t = [i \in 1..(b - a) |-> EncodeField(m, a + i - 1)]
      BY <1>1
    <2> QED
      BY <1>1, <2>1, <2>2
  <1>5. \A i \in 1..Len(t) : t[i] = s[i]
    BY <1>1, <1>4
  <1>6. s[Len(s)] = EncodeField(m, b)
    <2>1. a + (b - a + 1) - 1 = b /\ b - a + 1 \in 1..(b - a + 1)
      OBVIOUS
    <2> QED
      BY <1>3, <2>1
  <1>7. EncodeFields(m, a, b) = FlattenSeq(s) /\ EncodeFields(m, a, b - 1) = FlattenSeq(t)
    BY DEF EncodeFields
  <1>8. Len(s) = Len(t) + 1
    BY <1>3, <1>4
  <1> HIDE DEF s, t
  <1>9. FlattenSeq(s) = FlattenSeq(t) \o s[Len(s)]
    BY <1>3, <1>4, <1>5, <1>8, FlattenOneMore
  <1> QED
    BY <1>6, <1>7, <1>9

LEMMA FieldsAreBytes ==
  ASSUME NEW m \in Sendable, NEW a \in 1..7
  PROVE  \A b \in (a - 1)..7 : EncodeFields(m, a, b) \in Seq(Bytes)
  <1> DEFINE T == {b \in (a - 1)..7 : ~ (EncodeFields(m, a, b) \in Seq(Bytes))}
  <1>0. T \in SUBSET Nat
    OBVIOUS
  <1>1. SUFFICES ASSUME T # {} PROVE FALSE
    OBVIOUS
  <1>2. PICK b \in T : \A k \in T : b <= k
    BY <1>0, <1>1, LeastNumber
  <1>3. b \in (a - 1)..7 /\ ~ (EncodeFields(m, a, b) \in Seq(Bytes))
    OBVIOUS
  <1>4. CASE b = a - 1
    <2>1. EncodeFields(m, a, a - 1) = <<>>
      BY NoFields
    <2> QED
      BY <1>3, <1>4, <2>1, EmptySeq
  <1>5. CASE b # a - 1
    <2>1. b \in a..7 /\ b \in 1..7 /\ b - 1 \in (a - 1)..7 /\ ~ (b <= b - 1)
      BY <1>3, <1>5
    <2>2. EncodeFields(m, a, b - 1) \in Seq(Bytes)
      BY <1>2, <2>1
    <2>3. EncodeField(m, b) \in Seq(Bytes)
      BY <2>1, FieldIsBytes
    <2>4. EncodeFields(m, a, b) = EncodeFields(m, a, b - 1) \o EncodeField(m, b)
      BY <2>1, OneMoreField
    <2> QED
      BY <1>3, <2>2, <2>3, <2>4, ConcatProperties
  <1> QED
    BY <1>4, <1>5
-----------------------------------------------------------------------------
(* One turn of decode()'s loop at a tag, at a field of a message, at a     *)
(* field of a later schema, and at a field that the payload ends in.       *)

LEMMA ReadsTag ==
  ASSUME wire \in Seq(Bytes), pos \in Nat \ {0}, NEW f \in 0..(Half - 1), NEW t \in 0..7,
         Holds(wire, pos, WriteVarint[(f * 8) + t])
  PROVE  /\ Readable(pos) /\ At = pos + Len(WriteVarint[(f * 8) + t])
         /\ FieldNumber = f /\ WireType = t
  <1>1. PICK v \in 0..(Word - 1) : v = (f * 8) + t /\ (v \div 8) % Half = f /\ v % 8 = t
    <2>1. /\ (f * 8) + t \in 0..(Word - 1)
          /\ (((f * 8) + t) \div 8) % Half = f /\ ((f * 8) + t) % 8 = t
      BY TagFits
    <2> QED
      BY <2>1, Zenon
  <1>2. Readable(pos) /\ After(pos) = pos + Len(WriteVarint[v]) /\ Value(pos) = v
    BY <1>1, ReadsVarint
  <1> QED
    BY <1>1, <1>2 DEF At, FieldNumber, WireType

\* Which step it is, when the field is one that the decoder takes or skips.
LEMMA AcceptedSteps ==
  ASSUME Accepted, Next
  PROVE  \/ FieldNumber \in Numbers /\ TakeNumber
         \/ FieldNumber \in Texts /\ TakeText
         \/ FieldNumber \notin 1..7 /\ SkipField
  <1>1. state = "decoding" /\ pos <= Len(wire)
    BY DEF Accepted, InField
  <1>2. ~ PopFrame /\ ~ FrameUnread /\ ~ Forward
    BY <1>1 DEF PopFrame, FrameUnread, Forward
  <1>3. ~ Refuse
    BY DEF Refuse, Accepted
  <1>4. CASE Done
    BY <1>1, <1>4 DEF Done
  <1>5. CASE TakeNumber
    BY <1>5 DEF TakeNumber, Take
  <1>6. CASE TakeText
    BY <1>6 DEF TakeText, Take
  <1>7. CASE SkipField
    BY <1>7 DEF SkipField
  <1> QED
    BY <1>2, <1>3, <1>4, <1>5, <1>6, <1>7 DEF Next

Moves(y, n) ==
  /\ msg' = y /\ pos' = pos + n /\ state' = "decoding"
  /\ UNCHANGED <<how, origin, tail, buffer, wire>>

\* The value that is read back of a number field is the member's.
LEMMA NumberBack ==
  ASSUME NEW m \in Sendable, m["status"] >= 0, NEW f \in Numbers
  PROVE  /\ Cast(f, m[FieldName[f]]) = m[FieldName[f]]
         /\ f = 2 => m[FieldName[f]] % Half = m[FieldName[f]]
         /\ f = 6 => m[FieldName[f]] < Half \div 2
  <1>0. Half \in Nat /\ Half > 0 /\ Half \div 2 \in Nat /\ Half \div 2 < Half
    BY WidthsAssumption
  <1>1. CASE f = 1
    BY <1>1 DEF Cast
  <1>2. CASE f # 1
    <2>1. PICK v \in Nat : v = m[FieldName[f]] /\ v < Half /\ (f = 6 => v < Half \div 2)
      BY <1>0, <1>2, FieldTypes, FieldNames DEF Numbers
    <2>2. v \in 0..(Half - 1) /\ v = 0 * Half + v
      BY <1>0, <2>1
    <2>3. v % Half = v
      BY <1>0, <2>2, DivisionIs
    <2> QED
      BY <1>2, <2>1, <2>3 DEF Cast
  <1> QED
    BY <1>1, <1>2

LEMMA AfterValueIs ==
  ASSUME NEW p
  PROVE  /\ AfterValue(Varint, p) = IF Readable(p) THEN After(p) ELSE 0
         /\ AfterValue(Delimited, p) = AfterDelimited(p)
         /\ AfterValue(Fixed64, p) = IF 8 <= Left(p) THEN p + 8 ELSE 0
         /\ AfterValue(Fixed32, p) = IF 4 <= Left(p) THEN p + 4 ELSE 0
         /\ \A t : t \notin {Varint, Delimited, Fixed64, Fixed32} => AfterValue(t, p) = 0
  <1>1. DOMAIN FixedSize = {1, 5} /\ FixedSize[1] = 8 /\ FixedSize[5] = 4
    BY DEF FixedSize, Fixed64, Fixed32
  <1> QED
    BY <1>1 DEF AfterValue, Varint, Delimited, Fixed64, Fixed32

LEMMA TakesNumber ==
  ASSUME wire \in Seq(Bytes), pos \in Nat \ {0}, state = "decoding", Next,
         NEW m \in Sendable, m["status"] >= 0, NEW f \in Numbers, m[FieldName[f]] # 0,
         Holds(wire, pos, EncodeField(m, f))
  PROVE  Moves([msg EXCEPT ![FieldName[f]] = m[FieldName[f]]], Len(EncodeField(m, f)))
  <1>0. f \in 0..(Half - 1) /\ 0 \in 0..7 /\ (f * 8) + 0 = f * 8 /\ f \in 1..7
    BY FieldsAreNumbers DEF Numbers
  <1>1. PICK v \in 0..(Word - 1) : /\ v = m[FieldName[f]]
                                   /\ (f = 2 => v % Half = v) /\ (f = 6 => v < Half \div 2)
                                   /\ EncodeField(m, f) = WriteVarint[f * 8] \o WriteVarint[v]
    BY CastFits, NumberBack, NumberField
  <1>2. /\ \E a \in Seq(Bytes) : a = WriteVarint[f * 8] /\ Len(a) \in Nat \ {0}
        /\ \E b \in Seq(Bytes) : b = WriteVarint[v] /\ Len(b) \in Nat \ {0}
    <2>1. f * 8 \in 0..(Word - 1)
      BY <1>0, TagFits
    <2> QED
      BY <2>1, Written
  <1>14. PICK a \in Seq(Bytes) : a = WriteVarint[f * 8] /\ Len(a) \in Nat \ {0}
    BY <1>2
  <1>15. PICK b \in Seq(Bytes) : b = WriteVarint[v] /\ Len(b) \in Nat \ {0}
    BY <1>2
  <1>16. PICK x \in Nat \ {0}, y \in Nat \ {0} : x = Len(a) /\ y = Len(b)
    BY <1>14, <1>15
  <1>17. EncodeField(m, f) = a \o b /\ Len(EncodeField(m, f)) = x + y
    BY <1>1, <1>14, <1>15, <1>16, ConcatProperties
  <1>3. Holds(wire, pos, a) /\ Holds(wire, pos + x, b)
    BY <1>16, <1>17, HoldsBoth
  <1>4. Readable(pos) /\ At = pos + x /\ FieldNumber = f /\ WireType = Varint
    BY <1>0, <1>14, <1>16, <1>3, ReadsTag DEF Varint
  <1>5. pos + x \in Nat \ {0} /\ pos + x + y # 0 /\ pos + (x + y) = pos + x + y
    OBVIOUS
  <1>6. Readable(At) /\ After(At) = pos + x + y /\ Value(At) = v
    BY <1>15, <1>16, <1>3, <1>4, <1>5, ReadsVarint
  <1>7. AfterValue(WireType, At) = pos + x + y
    <2>1. AfterValue(WireType, At) = AfterValue(Varint, At)
      BY <1>4
    <2>2. AfterValue(Varint, At) = After(At)
      BY <1>6, AfterValueIs
    <2> QED
      BY <1>6, <2>1, <2>2
  <1>8. pos <= Len(wire)
    <2>1. Len(wire) \in Nat /\ pos + x <= Len(wire) + 1
      BY <1>3, <1>16, LenProperties DEF Holds
    <2> QED
      BY <2>1
  <1>9. Accepted
    <2>1. f \notin Texts
      BY FieldsAreNumbers
    <2>2. Expected
      BY <1>1, <1>4, <1>6, <2>1 DEF Expected
    <2>3. Whole /\ InField
      BY <1>4, <1>5, <1>7, <1>8 DEF Whole, InField
    <2> QED
      BY <2>2, <2>3 DEF Accepted
  <1>10. TakeNumber
    <2>1. f \notin Texts
      BY FieldsAreNumbers
    <2> QED
      BY <1>0, <1>4, <1>9, <2>1, AcceptedSteps
  <1>11. Take(f, IF f = 2 THEN Value(At) % Half ELSE Value(At))
    BY <1>4, <1>10 DEF TakeNumber, Take
  <1>12. Take(f, v)
    BY <1>1, <1>6, <1>11
  <1> QED
    BY <1>1, <1>5, <1>7, <1>12, <1>17 DEF Take, Moves

LEMMA HoldsIsSubSeq ==
  ASSUME NEW w \in Seq(Bytes), NEW p \in Nat \ {0}, NEW s \in Seq(Bytes), Holds(w, p, s)
  PROVE  SubSeq(w, p, (p + Len(s)) - 1) = s
  <1>1. PICK n \in Nat, l \in Nat : n = Len(s) /\ l = Len(w)
    BY LenProperties
  <1>2. p + n <= l + 1 /\ \A i \in 1..n : w[p + i - 1] = s[i]
    BY <1>1 DEF Holds
  <1>3. PICK e \in Int : e = (p + n) - 1
    OBVIOUS
  <1>4. \A i \in p..e : w[i] \in Bytes
    <2>1. ASSUME NEW i \in p..e PROVE i \in 1..l
      BY <1>2, <1>3
    <2> QED
      BY <1>1, <2>1, ElementOfSeq
  <1>5. PICK t : t = SubSeq(w, p, e)
    OBVIOUS
  <1>6. /\ t \in Seq(Bytes) /\ Len(t) = (IF p <= e THEN e - p + 1 ELSE 0)
        /\ \A i \in 1..(e - p + 1) : t[i] = w[p + i - 1]
    BY <1>4, <1>5, SubSeqProperties
  <1>7. Len(t) = n /\ e - p + 1 = n
    BY <1>3, <1>6
  <1>8. \A i \in 1..n : t[i] = s[i]
    BY <1>2, <1>6, <1>7
  <1>9. t = s
    BY <1>1, <1>6, <1>7, <1>8, SeqEqual
  <1> QED
    BY <1>1, <1>3, <1>5, <1>9

\* A tag of wire type 2 with a length and so many bytes, in the payload from pos on.
LEMMA ReadsDelimited ==
  ASSUME wire \in Seq(Bytes), pos \in Nat \ {0}, NEW f \in 0..(Half - 1), NEW s \in Seq(Bytes),
         Len(s) \in 0..(Word - 1), NEW c,
         c = (WriteVarint[(f * 8) + 2] \o WriteVarint[Len(s)]) \o s, Holds(wire, pos, c)
  PROVE  /\ pos <= Len(wire) /\ Whole /\ FieldNumber = f /\ WireType = Delimited
         /\ AfterValue(WireType, At) = pos + Len(c)
         /\ SubSeq(wire, After(At), AfterDelimited(At) - 1) = s
  <1>0. (f * 8) + 2 \in 0..(Word - 1) /\ 2 \in 0..7
    BY TagFits
  <1>1. PICK a \in Seq(Bytes) : a = WriteVarint[(f * 8) + 2] /\ Len(a) \in Nat \ {0}
    BY <1>0, Written
  <1>2. PICK b \in Seq(Bytes) : b = WriteVarint[Len(s)] /\ Len(b) \in Nat \ {0}
    BY Written
  <1>3. PICK x \in Nat \ {0}, y \in Nat \ {0}, n \in 0..(Word - 1) : x = Len(a) /\ y = Len(b) /\ n = Len(s)
    BY <1>1, <1>2
  <1>4. n \in Nat /\ Len(wire) \in Nat
    BY WidthsAssumption, LenProperties
  <1>5. a \o b \in Seq(Bytes) /\ Len(a \o b) = x + y /\ c = (a \o b) \o s
    BY <1>1, <1>2, <1>3, ConcatProperties
  <1>6. Len(c) = x + y + n
    BY <1>3, <1>5, ConcatProperties
  <1>7. Holds(wire, pos, a \o b) /\ Holds(wire, pos + (x + y), s)
    <2>1. PICK d \in Seq(Bytes) : d = a \o b /\ Len(d) = x + y
      BY <1>5
    <2>2. Holds(wire, pos, d \o s)
      BY <1>5, <2>1
    <2>3. Holds(wire, pos, d) /\ Holds(wire, pos + Len(d), s)
      BY <2>2, HoldsBoth
    <2> QED
      BY <2>1, <2>3
  <1>8. Holds(wire, pos, a) /\ Holds(wire, pos + x, b)
    BY <1>3, <1>7, HoldsBoth
  <1>9. /\ pos + x \in Nat \ {0} /\ pos + x + y \in Nat \ {0} /\ pos + (x + y) = pos + x + y
        /\ pos + x + y + n # 0 /\ pos + (x + y + n) = pos + x + y + n
    BY <1>4
  <1>10. Readable(pos) /\ At = pos + x /\ FieldNumber = f /\ WireType = Delimited
    BY <1>0, <1>1, <1>3, <1>8, ReadsTag DEF Delimited
  <1>11. Readable(At) /\ After(At) = pos + x + y /\ Value(At) = n
    BY <1>2, <1>3, <1>8, <1>9, <1>10, ReadsVarint
  <1>12. pos + x + y + n <= Len(wire) + 1
    BY <1>3, <1>7, <1>9 DEF Holds
  <1>13. AfterDelimited(At) = pos + x + y + n
    <2>1. Size(At) = n /\ Left(After(At)) = Len(wire) + 1 - (pos + x + y)
      BY <1>11 DEF Size, Left
    <2>2. n <= Len(wire) + 1 - (pos + x + y)
      BY <1>4, <1>12
    <2> QED
      BY <1>11, <2>1, <2>2 DEF AfterDelimited
  <1>14. AfterValue(WireType, At) = pos + x + y + n
    <2>1. AfterValue(WireType, At) = AfterValue(Delimited, At)
      BY <1>10
    <2>2. AfterValue(Delimited, At) = AfterDelimited(At)
      BY AfterValueIs
    <2> QED
      BY <1>13, <2>1, <2>2
  <1>15. SubSeq(wire, pos + x + y, pos + x + y + n - 1) = s
    BY <1>3, <1>7, <1>9, HoldsIsSubSeq
  <1>16. pos <= Len(wire)
    BY <1>4, <1>12
  <1>17. Whole
    BY <1>9, <1>10, <1>14 DEF Whole
  <1> QED
    BY <1>6, <1>9, <1>10, <1>11, <1>13, <1>14, <1>15, <1>16, <1>17

LEMMA TakesText ==
  ASSUME wire \in Seq(Bytes), pos \in Nat \ {0}, state = "decoding", Next,
         NEW m \in Sendable, NEW f \in Texts, m[FieldName[f]] # <<>>,
         Holds(wire, pos, EncodeField(m, f))
  PROVE  Moves([msg EXCEPT ![FieldName[f]] = m[FieldName[f]]], Len(EncodeField(m, f)))
  <1>0. f \in 0..(Half - 1) /\ f \in 1..7 /\ f \notin Numbers /\ f # 6
    BY FieldsAreNumbers DEF Texts
  <1>1. PICK s \in Seq(Bytes) : s = m[FieldName[f]] /\ Len(s) \in 0..(Word - 1)
    BY FieldTypes
  <1>2. PICK c : /\ c = EncodeField(m, f)
                 /\ c = (WriteVarint[(f * 8) + 2] \o WriteVarint[Len(s)]) \o s
    BY <1>1, TextField
  <1>3. /\ pos <= Len(wire) /\ Whole /\ FieldNumber = f /\ WireType = Delimited
        /\ AfterValue(WireType, At) = pos + Len(c)
        /\ SubSeq(wire, After(At), AfterDelimited(At) - 1) = s
    BY <1>0, <1>1, <1>2, ReadsDelimited
  <1>4. Accepted
    <2>1. Expected
      BY <1>0, <1>3 DEF Expected
    <2> QED
      BY <1>3, <2>1 DEF Accepted, InField
  <1>5. TakeText
    BY <1>0, <1>3, <1>4, AcceptedSteps
  <1>6. Take(f, s)
    BY <1>3, <1>5 DEF TakeText, Take
  <1> QED
    BY <1>1, <1>2, <1>3, <1>6 DEF Take, Moves

LEMMA BeginsBoth ==
  ASSUME NEW w \in Seq(Bytes), NEW p \in Nat, NEW s \in Seq(Bytes), NEW t \in Seq(Bytes),
         Begins(w, p, s \o t)
  PROVE  Begins(w, p, s) /\ Begins(w, p + Len(s), t)
  <1>1. PICK a \in Nat, b \in Nat, n \in Nat : a = Len(s) /\ b = Len(t) /\ n = Len(w)
    BY LenProperties
  <1>2. PICK c : c = s \o t
    OBVIOUS
  <1>3. Len(c) = a + b /\ \A i \in 1..(a + b) : c[i] = IF i <= a THEN s[i] ELSE t[i - a]
    BY <1>1, <1>2, ConcatProperties
  <1>4. \A i \in 1..(a + b) : p + i - 1 <= n => w[p + i - 1] = c[i]
    BY <1>1, <1>2, <1>3 DEF Begins
  <1>5. ASSUME NEW i \in 1..a, p + i - 1 <= n PROVE w[p + i - 1] = s[i]
    <2>1. i \in 1..(a + b)
      OBVIOUS
    <2> QED
      BY <1>3, <1>4, <1>5, <2>1
  <1>6. ASSUME NEW i \in 1..b, p + a + i - 1 <= n PROVE w[p + a + i - 1] = t[i]
    <2>1. /\ a + i \in 1..(a + b) /\ ~ (a + i <= a) /\ (a + i) - a = i
          /\ p + (a + i) - 1 = p + a + i - 1
      OBVIOUS
    <2>2. c[a + i] = t[i]
      BY <1>3, <2>1
    <2>3. w[p + (a + i) - 1] = c[a + i]
      BY <1>4, <1>6, <2>1
    <2> QED
      BY <2>1, <2>2, <2>3
  <1> QED
    BY <1>1, <1>5, <1>6 DEF Begins

LEMMA BeginsAndFits ==
  ASSUME NEW w \in Seq(Bytes), NEW p \in Nat, NEW s \in Seq(Bytes), Begins(w, p, s),
         p + Len(s) <= Len(w) + 1
  PROVE  Holds(w, p, s)
  <1>1. PICK a \in Nat, n \in Nat : a = Len(s) /\ n = Len(w)
    BY LenProperties
  <1>2. \A i \in 1..a : p + i - 1 <= n
    BY <1>1
  <1> QED
    BY <1>1, <1>2 DEF Begins, Holds

\* The payload ends inside a field of a message.
LEMMA NumberCutShort ==
  ASSUME wire \in Seq(Bytes), pos \in Nat \ {0}, NEW m \in Sendable, NEW f \in Numbers,
         m[FieldName[f]] # 0, Begins(wire, pos, EncodeField(m, f)),
         Len(wire) + 1 < pos + Len(EncodeField(m, f))
  PROVE  ~ Whole
  <1>0. f \in 0..(Half - 1) /\ 0 \in 0..7 /\ (f * 8) + 0 = f * 8 /\ f * 8 \in 0..(Word - 1)
    <2>1. f \in 0..(Half - 1) /\ 0 \in 0..7 /\ (f * 8) + 0 = f * 8
      BY FieldsAreNumbers DEF Numbers
    <2>2. (f * 8) + 0 \in 0..(Word - 1)
      BY <2>1, TagFits
    <2> QED
      BY <2>1, <2>2
  <1>1. PICK v \in 0..(Word - 1) : EncodeField(m, f) = WriteVarint[f * 8] \o WriteVarint[v]
    BY CastFits, NumberField
  <1>2. PICK a \in Seq(Bytes) : a = WriteVarint[f * 8] /\ Len(a) \in Nat \ {0}
    BY <1>0, Written
  <1>3. PICK b \in Seq(Bytes) : b = WriteVarint[v] /\ Len(b) \in Nat \ {0}
    BY Written
  <1>4. PICK x \in Nat \ {0}, y \in Nat \ {0}, l \in Nat : x = Len(a) /\ y = Len(b) /\ l = Len(wire)
    BY <1>2, <1>3, LenProperties
  <1>5. EncodeField(m, f) = a \o b /\ Len(EncodeField(m, f)) = x + y
    BY <1>1, <1>2, <1>3, <1>4, ConcatProperties
  <1>6. Begins(wire, pos, a) /\ Begins(wire, pos + x, b)
    BY <1>4, <1>5, BeginsBoth
  <1>7. CASE l + 1 < pos + x
    <2>1. ~ Readable(pos)
      BY <1>0, <1>2, <1>4, <1>6, <1>7, ReadsNoPart
    <2> QED
      BY <2>1 DEF Whole
  <1>8. CASE pos + x <= l + 1
    <2>1. Holds(wire, pos, a)
      BY <1>4, <1>6, <1>8, BeginsAndFits
    <2>2. At = pos + x /\ WireType = Varint
      BY <1>0, <1>2, <1>4, <2>1, ReadsTag DEF Varint
    <2>3. pos + x \in Nat \ {0} /\ l + 1 < pos + x + y
      BY <1>4, <1>5
    <2>4. ~ Readable(At)
      BY <1>3, <1>4, <1>6, <2>2, <2>3, ReadsNoPart
    <2>5. AfterValue(WireType, At) = AfterValue(Varint, At)
      BY <2>2
    <2>6. AfterValue(Varint, At) = 0
      BY <2>4, AfterValueIs
    <2> QED
      BY <2>5, <2>6 DEF Whole
  <1> QED
    BY <1>7, <1>8

LEMMA TextCutShort ==
  ASSUME wire \in Seq(Bytes), pos \in Nat \ {0}, NEW m \in Sendable, NEW f \in Texts,
         m[FieldName[f]] # <<>>, Begins(wire, pos, EncodeField(m, f)),
         Len(wire) + 1 < pos + Len(EncodeField(m, f))
  PROVE  ~ Whole
  <1>0. f \in 0..(Half - 1) /\ 2 \in 0..7 /\ (f * 8) + 2 \in 0..(Word - 1)
    <2>1. f \in 0..(Half - 1) /\ 2 \in 0..7
      BY FieldsAreNumbers
    <2> QED
      BY <2>1, TagFits
  <1>1. PICK s \in Seq(Bytes) : s = m[FieldName[f]] /\ Len(s) \in 0..(Word - 1)
    BY FieldTypes
  <1>2. PICK a \in Seq(Bytes) : a = WriteVarint[(f * 8) + 2] /\ Len(a) \in Nat \ {0}
    BY <1>0, Written
  <1>3. PICK b \in Seq(Bytes) : b = WriteVarint[Len(s)] /\ Len(b) \in Nat \ {0}
    BY <1>1, Written
  <1>4. PICK x \in Nat \ {0}, y \in Nat \ {0}, n \in 0..(Word - 1), l \in Nat :
          x = Len(a) /\ y = Len(b) /\ n = Len(s) /\ l = Len(wire)
    BY <1>1, <1>2, <1>3, LenProperties
  <1>5. n \in Nat
    BY WidthsAssumption
  <1>6. EncodeField(m, f) = (a \o b) \o s /\ a \o b \in Seq(Bytes) /\ Len(a \o b) = x + y
    <2>1. EncodeField(m, f) = (a \o b) \o s
      BY <1>1, <1>2, <1>3, TextField
    <2>2. a \o b \in Seq(Bytes) /\ Len(a \o b) = Len(a) + Len(b)
      BY ConcatProperties
    <2> QED
      BY <1>4, <2>1, <2>2
  <1>7. Len(EncodeField(m, f)) = x + y + n
    BY <1>1, <1>4, <1>6, ConcatProperties
  <1>8. Begins(wire, pos, a) /\ Begins(wire, pos + x, b)
    <2>1. PICK d \in Seq(Bytes) : d = a \o b /\ EncodeField(m, f) = d \o s
      BY <1>6
    <2>2. Begins(wire, pos, d \o s)
      BY <2>1
    <2>3. Begins(wire, pos, a \o b)
      BY <2>1, <2>2, BeginsBoth
    <2> QED
      BY <1>4, <2>3, BeginsBoth
  <1>9. l + 1 < pos + x + y + n /\ pos + x \in Nat \ {0}
    BY <1>4, <1>5, <1>7
  <1>10. CASE l + 1 < pos + x
    <2>1. ~ Readable(pos)
      BY <1>0, <1>2, <1>4, <1>8, <1>10, ReadsNoPart
    <2> QED
      BY <2>1 DEF Whole
  <1>11. CASE pos + x <= l + 1
    <2>1. Holds(wire, pos, a)
      BY <1>4, <1>8, <1>11, BeginsAndFits
    <2>2. At = pos + x /\ WireType = Delimited
      BY <1>0, <1>2, <1>4, <2>1, ReadsTag DEF Delimited
    <2>3. AfterDelimited(At) = 0
      <3>1. CASE l + 1 < pos + x + y
        <4>1. ~ Readable(At)
          BY <1>1, <1>3, <1>4, <1>8, <1>9, <2>2, <3>1, ReadsNoPart
        <4> QED
          BY <4>1 DEF AfterDelimited
      <3>2. CASE pos + x + y <= l + 1
        <4>1. Holds(wire, pos + x, b)
          BY <1>4, <1>8, <1>9, <3>2, BeginsAndFits
        <4>2. Readable(At) /\ After(At) = pos + x + y /\ Value(At) = n
          BY <1>1, <1>3, <1>4, <1>9, <2>2, <4>1, ReadsVarint
        <4>3. Size(At) = n /\ Left(After(At)) = l + 1 - (pos + x + y)
          BY <1>4, <4>2 DEF Size, Left
        <4>4. ~ (n <= l + 1 - (pos + x + y))
          BY <1>5, <1>9
        <4> QED
          BY <4>3, <4>4 DEF AfterDelimited
      <3> QED
        BY <3>1, <3>2
    <2>4. AfterValue(WireType, At) = AfterValue(Delimited, At)
      BY <2>2
    <2>5. AfterValue(Delimited, At) = 0
      BY <2>3, AfterValueIs
    <2> QED
      BY <2>4, <2>5 DEF Whole
  <1> QED
    BY <1>10, <1>11

LEMMA NotWholeSteps ==
  ASSUME state = "decoding", pos <= Len(wire), pos \in Nat \ {0}, Len(wire) \in Nat, ~ Whole, Next
  PROVE  Refuse
  <1>1. ~ Accepted
    BY DEF Accepted
  <1>2. ~ PopFrame /\ ~ FrameUnread /\ ~ Forward /\ ~ Done
    BY DEF PopFrame, FrameUnread, Forward, Done
  <1>3. ~ TakeNumber /\ ~ TakeText /\ ~ SkipField
    BY <1>1 DEF TakeNumber, TakeText, SkipField
  <1> QED
    BY <1>2, <1>3 DEF Next

LEMMA SkipsWhole ==
  ASSUME pos <= Len(wire), Whole, FieldNumber \notin 1..7, state = "decoding", Next,
         NEW n, AfterValue(WireType, At) = pos + n
  PROVE  Moves(msg, n)
  <1>1. FieldNumber \notin Numbers /\ FieldNumber \notin Texts /\ FieldNumber # 6
    BY DEF Numbers, Texts
  <1>2. Accepted
    BY <1>1 DEF Accepted, InField, Expected
  <1>3. SkipField
    BY <1>1, <1>2, AcceptedSteps
  <1> QED
    BY <1>3 DEF SkipField, Moves

LEMMA Associative ==
  ASSUME NEW a \in Seq(Bytes), NEW b \in Seq(Bytes), NEW c \in Seq(Bytes)
  PROVE  (a \o b) \o c = a \o (b \o c)
  BY ConcatAssociative

LEMMA SkipsLaterField ==
  ASSUME wire \in Seq(Bytes), pos \in Nat \ {0}, state = "decoding", Next,
         NEW u \in Unknown, Holds(wire, pos, u)
  PROVE  Moves(msg, Len(u)) /\ Len(u) \in Nat \ {0}
  <1>0. u \in Seq(Bytes) /\ LaterField(u)
    BY InputsAssumption
  <1>1. PICK f \in (0..(Half - 1)) \ (1..7), t \in 0..7, k \in 0..Len(u) :
          /\ u = WriteTag(f, t) \o SubSeq(u, k + 1, Len(u))
          /\ WholeValue(t, SubSeq(u, k + 1, Len(u)))
    BY <1>0 DEF LaterField
  <1>2. PICK b \in Seq(Bytes) : b = SubSeq(u, k + 1, Len(u))
    <2>1. PICK n \in Nat : n = Len(u)
      BY <1>0, LenProperties
    <2>2. \A i \in (k + 1)..n : u[i] \in Bytes
      BY <1>0, <2>1, ElementOfSeq
    <2>3. k + 1 \in Int /\ n \in Int
      BY <2>1
    <2> QED
      BY <2>1, <2>2, <2>3, SubSeqProperties
  <1>3. (f * 8) + t \in 0..(Word - 1)
    BY TagFits
  <1>4. PICK a \in Seq(Bytes) : a = WriteVarint[(f * 8) + t] /\ Len(a) \in Nat \ {0}
    BY <1>3, Written
  <1>5. PICK x \in Nat \ {0}, y \in Nat, l \in Nat : x = Len(a) /\ y = Len(b) /\ l = Len(wire)
    BY <1>4, LenProperties
  <1>6. u = a \o b /\ WholeValue(t, b)
    BY <1>1, <1>2, <1>4 DEF WriteTag
  <1>7. Len(u) = x + y /\ x + y \in Nat \ {0}
    BY <1>5, <1>6, ConcatProperties
  <1>8. Holds(wire, pos, a) /\ Holds(wire, pos + x, b)
    BY <1>5, <1>6, HoldsBoth
  <1>9. Readable(pos) /\ At = pos + x /\ FieldNumber = f /\ WireType = t
    BY <1>4, <1>5, <1>8, ReadsTag
  <1>10. /\ pos + x + y <= l + 1 /\ pos + x \in Nat \ {0} /\ pos + (x + y) = pos + x + y
         /\ pos <= Len(wire) /\ pos + x + y # 0
    <2>1. (pos + x) + y <= l + 1
      BY <1>5, <1>8 DEF Holds
    <2> QED
      BY <1>5, <2>1
  <1>11. CASE t = Varint /\ \E v \in 0..(Word - 1) : b = WriteVarint[v]
    <2>1. PICK v \in 0..(Word - 1) : b = WriteVarint[v]
      BY <1>11
    <2>2. Readable(At) /\ After(At) = pos + x + y
      BY <1>5, <1>8, <1>9, <1>10, <2>1, ReadsVarint
    <2>3. AfterValue(WireType, At) = AfterValue(Varint, At)
      BY <1>9, <1>11
    <2>4. AfterValue(Varint, At) = pos + x + y
      BY <2>2, AfterValueIs
    <2>5. Whole /\ AfterValue(WireType, At) = pos + (x + y)
      BY <1>9, <1>10, <2>3, <2>4 DEF Whole
    <2> QED
      BY <1>7, <1>9, <1>10, <2>5, SkipsWhole
  <1>12. CASE (t = Fixed64 /\ Len(b) = 8) \/ (t = Fixed32 /\ Len(b) = 4)
    <2>1. (t = Fixed64 /\ y = 8) \/ (t = Fixed32 /\ y = 4)
      BY <1>5, <1>12
    <2>2. Left(At) = l + 1 - (pos + x)
      BY <1>5, <1>9 DEF Left
    <2>3. y <= l + 1 - (pos + x)
      BY <1>10
    <2>4. AfterValue(t, At) = pos + x + y
      <3>1. CASE t = Fixed64 /\ y = 8
        <4>1. AfterValue(Fixed64, At) = At + 8
          BY <2>2, <2>3, <3>1, AfterValueIs
        <4> QED
          BY <1>9, <3>1, <4>1
      <3>2. CASE t = Fixed32 /\ y = 4
        <4>1. AfterValue(Fixed32, At) = At + 4
          BY <2>2, <2>3, <3>2, AfterValueIs
        <4> QED
          BY <1>9, <3>2, <4>1
      <3> QED
        BY <2>1, <3>1, <3>2
    <2>5. Whole /\ AfterValue(WireType, At) = pos + (x + y)
      BY <1>9, <1>10, <2>4 DEF Whole
    <2> QED
      BY <1>7, <1>9, <1>10, <2>5, SkipsWhole
  <1>13. CASE t = Delimited /\ \E n \in 0..Len(b) :
                n < Word /\ b = WriteVarint[n] \o SubSeq(b, Len(b) - n + 1, Len(b))
    <2>1. PICK n \in 0..y : n < Word /\ b = WriteVarint[n] \o SubSeq(b, y - n + 1, y)
      BY <1>5, <1>13
    <2>2. PICK s \in Seq(Bytes) : s = SubSeq(b, y - n + 1, y) /\ Len(s) = n
      <3>1. \A i \in (y - n + 1)..y : b[i] \in Bytes
        <4>1. ASSUME NEW i \in (y - n + 1)..y PROVE b[i] \in Bytes
          <5>1. n \in Int /\ n <= y
            BY <1>5, <2>1
          <5>2. i \in 1..y
            BY <1>5, <5>1
          <5> QED
            BY <1>5, <5>2, ElementOfSeq
        <4> QED
          BY <4>1
      <3> (y - n) + 1 \in Int
        BY <1>5
      <3>2. PICK i \in Int : i = y - n + 1
        BY Zenon
      <3>3. SubSeq(b, i, y) \in Seq(Bytes) /\ Len(SubSeq(b, i, y)) = IF i <= y THEN y - i + 1 ELSE 0
        BY <1>5, <3>1, <3>2, SubSeqProperties
      <3>4. Len(SubSeq(b, i, y)) = n
        BY <1>5, <3>2, <3>3
      <3> QED
        BY <3>2, <3>3, <3>4
    <2>3. n \in 0..(Word - 1)
      <3>1. n \in Nat /\ n < Word
        BY <1>5, <2>1
      <3> QED
        BY <3>1, WidthsAssumption
    <2>4. PICK d \in Seq(Bytes) : d = WriteVarint[n]
      BY <2>3, Written
    <2>5. u = (a \o d) \o s
      <3>1. b = d \o s
        BY <2>1, <2>2, <2>4, Zenon
      <3>2. (a \o d) \o s = a \o (d \o s)
        BY Associative
      <3> QED
        BY <1>6, <3>1, <3>2
    <2>6. u = (WriteVarint[(f * 8) + 2] \o WriteVarint[Len(s)]) \o s
      BY <1>4, <1>13, <2>2, <2>4, <2>5 DEF Delimited
    <2>7. f \in 0..(Half - 1) /\ Len(s) \in 0..(Word - 1)
      BY <2>2, <2>3
    <2>8. Whole /\ AfterValue(WireType, At) = pos + Len(u)
      BY <2>6, <2>7, ReadsDelimited
    <2> QED
      BY <1>7, <1>9, <1>10, <2>8, SkipsWhole
  <1> QED
    BY <1>6, <1>11, <1>12, <1>13 DEF WholeValue
-----------------------------------------------------------------------------
(* The frame: its four bytes of size, and what try_pop_frame() takes.      *)

LEMMA DivisionTwice ==
  ASSUME NEW n \in Nat, NEW a \in Nat, NEW b \in Nat, a > 0, b > 0
  PROVE  n \div (a * b) = (n \div a) \div b /\ a * b \in Nat /\ a * b > 0
  <1>1. PICK q \in Nat, r \in 0..(a - 1) : q = n \div a /\ n = q * a + r
    BY Division
  <1>2. PICK k \in Nat, s \in 0..(b - 1) : k = q \div b /\ q = k * b + s
    BY Division
  <1>3. r \in Nat /\ s \in Nat /\ r + 1 <= a /\ s + 1 <= b
    OBVIOUS
  <1>4. a * b \in Nat /\ a * b > 0
    OBVIOUS
  <1>5. n = k * (a * b) + (s * a + r)
    <2>1. (k * b + s) * a = k * (a * b) + s * a
      BY <1>3
    <2> QED
      BY <1>1, <1>2, <1>3, <1>4, <2>1
  <1>6. s * a + r \in 0..(a * b - 1)
    <2>1. s * a \in Nat
      BY <1>3
    <2>2. (s + 1) * a <= b * a
      BY <1>3
    <2>3. (s + 1) * a = s * a + a /\ b * a = a * b
      BY <1>3
    <2> QED
      BY <1>3, <1>4, <2>1, <2>2, <2>3
  <1>7. n \div (a * b) = k
    BY <1>4, <1>5, <1>6, DivisionIs
  <1> QED
    BY <1>1, <1>2, <1>4, <1>7

LEMMA SizeBytes ==
  ASSUME NEW n \in Nat
  PROVE  /\ EncodeFrameSize(n) \in Seq(Bytes) /\ Len(EncodeFrameSize(n)) = 4
         /\ n < Byte * Byte * Byte * Byte =>
              DecodeFrameSize(EncodeFrameSize(n)) = n
  <1>1. PICK b \in Nat : b = Byte /\ b > 0
    BY ByteSizes, WidthsAssumption
  <1>2. PICK q \in Nat, r \in 0..(b - 1) : q = n \div b /\ r = n % b /\ n = q * b + r
    BY <1>1, Division
  <1>3. PICK k \in Nat, s \in 0..(b - 1) : k = q \div b /\ s = q % b /\ q = k * b + s
    BY <1>1, Division
  <1>4. PICK j \in Nat, t \in 0..(b - 1) : j = k \div b /\ t = k % b /\ k = j * b + t
    BY <1>1, Division
  <1>5. PICK i \in Nat, x \in 0..(b - 1) : x = j % b /\ j = i * b + x /\ i = j \div b
    BY <1>1, Division
  <1>6. n \div (b * b) = k /\ b * b \in Nat /\ b * b > 0
    BY <1>1, <1>2, <1>3, DivisionTwice
  <1>7. n \div (b * b * b) = j
    <2>1. n \div ((b * b) * b) = (n \div (b * b)) \div b
      BY <1>1, <1>6, DivisionTwice
    <2> QED
      BY <1>4, <1>6, <2>1
  <1>8. EncodeFrameSize(n) = <<x, t, s, r>>
    BY <1>1, <1>2, <1>3, <1>4, <1>5, <1>6, <1>7 DEF EncodeFrameSize
  <1>9. x \in Bytes /\ t \in Bytes /\ s \in Bytes /\ r \in Bytes
    BY <1>1 DEF Bytes
  <1>10. EncodeFrameSize(n) \in Seq(Bytes) /\ Len(EncodeFrameSize(n)) = 4
    BY <1>8, <1>9
  <1>11. ASSUME n < b * b * b * b PROVE i = 0
    <2>1. SUFFICES ASSUME i >= 1 PROVE FALSE
      OBVIOUS
    <2>2. i * b >= b /\ x \in Nat /\ t \in Nat /\ s \in Nat /\ r \in Nat
      BY <1>1, <2>1
    <2>3. j >= b
      BY <1>1, <1>5, <2>2
    <2>4. k >= b * b
      <3>1. j * b >= b * b
        BY <1>1, <2>3
      <3> QED
        BY <1>1, <1>4, <1>6, <2>2, <3>1
    <2>5. q >= (b * b) * b
      <3>1. k * b >= (b * b) * b
        BY <1>1, <1>6, <2>4
      <3> QED
        BY <1>1, <1>3, <1>6, <2>2, <3>1
    <2>6. n >= ((b * b) * b) * b
      <3>1. (b * b) * b \in Nat
        BY <1>1, <1>6
      <3>2. q * b >= ((b * b) * b) * b
        BY <1>1, <2>5, <3>1
      <3> QED
        BY <1>1, <1>2, <1>6, <2>2, <3>1, <3>2
    <2> QED
      BY <1>1, <1>6, <1>11, <2>6
  <1>12. ASSUME n < b * b * b * b PROVE DecodeFrameSize(EncodeFrameSize(n)) = n
    <2>1. j = x
      BY <1>1, <1>5, <1>11, <1>12
    <2>2. DecodeFrameSize(<<x, t, s, r>>) = ((x * b + t) * b + s) * b + r
      BY <1>1 DEF DecodeFrameSize
    <2>3. x * b + t = k
      BY <1>4, <2>1
    <2> QED
      BY <1>2, <1>3, <1>8, <2>2, <2>3
  <1> QED
    BY <1>1, <1>10, <1>12

LEMMA HoldsItself == ASSUME NEW w \in Seq(Bytes) PROVE Holds(w, 1, w)
  <1>1. PICK l \in Nat : l = Len(w)
    BY LenProperties
  <1>2. \A i \in 1..l : 1 + i - 1 = i
    OBVIOUS
  <1> QED
    BY <1>1, <1>2 DEF Holds

LEMMA FrameIsBytes ==
  ASSUME NEW p \in Seq(Bytes), NEW t \in Seq(Bytes)
  PROVE  MakeFrame(p) \o t \in Seq(Bytes)
  <1>1. Len(p) \in Nat
    BY LenProperties
  <1>2. EncodeFrameSize(Len(p)) \in Seq(Bytes)
    BY <1>1, SizeBytes
  <1> QED
    BY <1>2, ConcatProperties DEF MakeFrame

\* A whole frame is popped as it was made, whatever follows it in the buffer.
LEMMA PopsFrame ==
  ASSUME NEW p \in Seq(Bytes), NEW t \in Seq(Bytes), Len(p) <= MaxFrame,
         buffer = MakeFrame(p) \o t
  PROVE  /\ FrameWhole /\ FrameSize = Len(p)
         /\ SubSeq(buffer, 5, 4 + FrameSize) = p
         /\ SubSeq(buffer, 5 + FrameSize, Len(buffer)) = t
  <1>1. PICK n \in Nat, k \in Nat : n = Len(p) /\ k = Len(t)
    BY LenProperties
  <1>2. PICK e \in Seq(Bytes) : e = EncodeFrameSize(n) /\ Len(e) = 4
    BY SizeBytes
  <1>3. MaxFrame \in Nat /\ MaxFrame < Byte * Byte * Byte * Byte /\ Byte \in Nat
    BY ByteSizes, WidthsAssumption
  <1>4. DecodeFrameSize(e) = n
    <2>1. PICK b \in Nat : b = Byte * Byte * Byte * Byte
      BY <1>3
    <2>2. n < Byte * Byte * Byte * Byte
      BY <1>1, <1>3, <2>1
    <2> QED
      BY <1>2, <2>2, SizeBytes
  <1>5. PICK w \in Seq(Bytes) : w = buffer /\ w = (e \o p) \o t
    BY <1>1, <1>2, FrameIsBytes DEF MakeFrame
  <1>6. PICK c \in Seq(Bytes) : c = e \o p /\ Len(c) = 4 + n
    <2>1. e \o p \in Seq(Bytes) /\ Len(e \o p) = Len(e) + Len(p)
      BY ConcatProperties
    <2> QED
      BY <1>1, <1>2, <2>1
  <1>7. w = c \o t /\ Len(w) = (4 + n) + k
    <2>1. w = c \o t
      BY <1>5, <1>6
    <2>2. Len(c \o t) = Len(c) + Len(t)
      BY ConcatProperties
    <2> QED
      BY <1>1, <1>6, <2>1, <2>2
  <1>8. Holds(w, 1, c) /\ Holds(w, 1 + (4 + n), t)
    <2>1. Holds(w, 1, c \o t)
      BY <1>7, HoldsItself
    <2>2. Holds(w, 1, c) /\ Holds(w, 1 + Len(c), t)
      BY <2>1, HoldsBoth
    <2> QED
      BY <1>6, <2>2
  <1>9. Holds(w, 1, e) /\ Holds(w, 5, p)
    <2>1. Holds(w, 1, e \o p)
      BY <1>6, <1>8
    <2>2. Holds(w, 1, e) /\ Holds(w, 1 + Len(e), p)
      BY <2>1, HoldsBoth
    <2>3. 1 + Len(e) = 5
      BY <1>2
    <2> QED
      BY <2>2, <2>3
  <1>10. FrameSize = n
    <2>1. \A i \in 1..4 : w[1 + i - 1] = e[i]
      BY <1>2, <1>9 DEF Holds
    <2>2. w[1] = e[1] /\ w[2] = e[2] /\ w[3] = e[3] /\ w[4] = e[4]
      BY <2>1
    <2>3. DecodeFrameSize(w) = DecodeFrameSize(e)
      BY <2>2 DEF DecodeFrameSize
    <2> QED
      BY <1>4, <1>5, <2>3 DEF FrameSize
  <1>11. FrameWhole
    BY <1>1, <1>3, <1>5, <1>7, <1>10 DEF FrameWhole
  <1>12. SubSeq(w, 5, 4 + n) = p
    <2>1. SubSeq(w, 5, (5 + Len(p)) - 1) = p
      BY <1>9, HoldsIsSubSeq
    <2>2. (5 + n) - 1 = 4 + n
      OBVIOUS
    <2> QED
      BY <1>1, <2>1, <2>2
  <1>13. SubSeq(w, 5 + n, Len(w)) = t
    <2>1. SubSeq(w, 1 + (4 + n), ((1 + (4 + n)) + k) - 1) = t
      <3>1. 1 + (4 + n) \in Nat \ {0}
        OBVIOUS
      <3> QED
        BY <1>1, <1>8, <3>1, HoldsIsSubSeq
    <2>2. 1 + (4 + n) = 5 + n /\ ((1 + (4 + n)) + k) - 1 = Len(w)
      BY <1>7
    <2> QED
      BY <2>1, <2>2
  <1> QED
    BY <1>1, <1>5, <1>10, <1>11, <1>12, <1>13
-----------------------------------------------------------------------------
(* Types.  What decode() stores fits the members of RpcMessage, and where  *)
(* it goes on is within the payload or at its end.                         *)

LEMMA PartOfBytes ==
  ASSUME NEW w \in Seq(Bytes), NEW i \in Nat \ {0}, NEW j \in 0..Len(w)
  PROVE  /\ SubSeq(w, i, j) \in Seq(Bytes) /\ Len(SubSeq(w, i, j)) <= Len(w)
         /\ Len(SubSeq(w, i, j)) \in Nat
         /\ i <= j + 1 => Len(SubSeq(w, i, j)) = (j - i) + 1
  <1>1. PICK l \in Nat : l = Len(w) /\ j \in Int /\ j <= l
    BY LenProperties
  <1>2. ASSUME NEW k \in i..j PROVE w[k] \in Bytes
    <2>1. k \in 1..l
      BY <1>1
    <2> QED
      BY <1>1, <2>1, ElementOfSeq
  <1>3. i \in Int /\ j \in Int
    BY <1>1
  <1>4. SubSeq(w, i, j) \in Seq(Bytes) /\ Len(SubSeq(w, i, j)) = IF i <= j THEN j - i + 1 ELSE 0
    BY <1>2, <1>3, SubSeqProperties
  <1> QED
    BY <1>1, <1>3, <1>4

LEMMA AfterValueInWire ==
  ASSUME wire \in Seq(Bytes), NEW p \in Nat \ {0}, p <= Len(wire) + 1, NEW t,
         AfterValue(t, p) # 0
  PROVE  /\ AfterValue(t, p) \in p..(Len(wire) + 1)
         /\ t = Varint => Readable(p)
         /\ t = Delimited => /\ Readable(p) /\ After(p) <= AfterDelimited(p)
                             /\ AfterValue(t, p) = AfterDelimited(p)
  <1>1. PICK l \in Nat : l = Len(wire)
    BY LenProperties
  <1>2. Varint = 0 /\ Fixed64 = 1 /\ Delimited = 2 /\ Fixed32 = 5
    BY DEF Varint, Fixed64, Delimited, Fixed32
  <1>3. t \in {Varint, Delimited, Fixed64, Fixed32}
    BY AfterValueIs
  <1>4. CASE t = Varint
    <2>1. AfterValue(Varint, p) = IF Readable(p) THEN After(p) ELSE 0
      BY AfterValueIs
    <2>2. Readable(p) /\ AfterValue(t, p) = After(p)
      BY <1>4, <2>1
    <2>3. After(p) \in (p + 1)..(l + 1)
      BY <1>1, <2>2, ReadsAWord
    <2> QED
      BY <1>1, <1>2, <1>4, <2>2, <2>3
  <1>5. CASE t = Delimited
    <2>1. AfterValue(t, p) = AfterDelimited(p)
      BY <1>5, AfterValueIs
    <2>2. Readable(p) /\ Size(p) <= Left(After(p)) /\ AfterDelimited(p) = After(p) + Size(p)
      BY <2>1 DEF AfterDelimited
    <2>3. After(p) \in (p + 1)..(l + 1) /\ Size(p) \in 0..(Word - 1)
      BY <1>1, <2>2, ReadsAWord DEF Size
    <2>4. PICK a \in Nat, v \in Nat : a = After(p) /\ v = Size(p) /\ p < a
      BY <1>1, <2>3, WidthsAssumption
    <2>5. Left(a) = l + 1 - a
      BY <1>1 DEF Left
    <2>6. v <= l + 1 - a
      BY <2>2, <2>4, <2>5
    <2> QED
      BY <1>1, <1>2, <1>5, <2>1, <2>2, <2>4, <2>6
  <1>6. CASE t = Fixed64 \/ t = Fixed32
    <2>1. PICK n \in {4, 8} : AfterValue(t, p) = IF n <= Left(p) THEN p + n ELSE 0
      <3>1. CASE t = Fixed64
        <4>1. AfterValue(t, p) = IF 8 <= Left(p) THEN p + 8 ELSE 0
          BY <3>1, AfterValueIs
        <4> QED
          BY <4>1
      <3>2. CASE t = Fixed32
        <4>1. AfterValue(t, p) = IF 4 <= Left(p) THEN p + 4 ELSE 0
          BY <3>2, AfterValueIs
        <4> QED
          BY <4>1
      <3> QED
        BY <1>6, <3>1, <3>2
    <2>2. n <= Left(p) /\ AfterValue(t, p) = p + n /\ Left(p) = l + 1 - p
      BY <1>1, <2>1 DEF Left
    <2> QED
      BY <1>1, <1>2, <1>6, <2>2
  <1> QED
    BY <1>3, <1>4, <1>5, <1>6

\* A field that is accepted ends within the payload.
LEMMA AcceptedMoves ==
  ASSUME wire \in Seq(Bytes), pos \in 1..(Len(wire) + 1), Accepted
  PROVE  /\ At \in 1..(Len(wire) + 1) /\ AfterValue(WireType, At) \in 1..(Len(wire) + 1)
         /\ WireType = Varint => Readable(At) /\ Value(At) \in 0..(Word - 1)
         /\ WireType = Delimited =>
              /\ After(At) \in Nat \ {0} /\ AfterDelimited(At) - 1 \in 0..Len(wire)
  <1>1. PICK l \in Nat : l = Len(wire) /\ pos \in Nat \ {0}
    BY LenProperties
  <1>2. Readable(pos) /\ AfterValue(WireType, At) # 0
    BY DEF Accepted, Whole
  <1>3. PICK a \in Nat \ {0} : a = At /\ a <= l + 1
    <2>1. After(pos) \in (pos + 1)..(l + 1)
      BY <1>1, <1>2, ReadsAWord
    <2> QED
      BY <1>1, <2>1 DEF At
  <1>4. AfterValue(WireType, a) \in a..(l + 1)
    BY <1>1, <1>2, <1>3, AfterValueInWire
  <1>5. ASSUME WireType = Varint PROVE Readable(a) /\ Value(a) \in 0..(Word - 1)
    BY <1>1, <1>2, <1>3, <1>5, AfterValueInWire, ReadsAWord
  <1>6. ASSUME WireType = Delimited
        PROVE  After(a) \in Nat \ {0} /\ AfterDelimited(a) - 1 \in 0..l
    <2>1. Readable(a) /\ After(a) <= AfterDelimited(a) /\ AfterValue(WireType, a) = AfterDelimited(a)
      BY <1>1, <1>2, <1>3, <1>6, AfterValueInWire
    <2>2. After(a) \in (a + 1)..(l + 1)
      BY <1>1, <1>3, <2>1, ReadsAWord
    <2> QED
      BY <1>1, <1>3, <1>4, <2>1, <2>2
  <1> QED
    BY <1>1, <1>3, <1>4, <1>5, <1>6

LEMMA NumberSet ==
  ASSUME NEW x \in MessageType, NEW f \in Numbers, NEW v,
         f = 1 => v \in 0..(Word - 1), f = 2 => v \in 0..(Half - 1),
         f = 6 => v \in 0..(Half \div 2 - 1)
  PROVE  /\ [x EXCEPT ![FieldName[f]] = v] \in MessageType
         /\ \A g \in Texts : [x EXCEPT ![FieldName[f]] = v][FieldName[g]] = x[FieldName[g]]
  <1>1. CASE f = 1
    BY <1>1, FieldNames DEF MessageType, MessagesWith, Texts
  <1>2. CASE f = 2
    BY <1>2, FieldNames DEF MessageType, MessagesWith, Texts
  <1>3. CASE f = 6
    BY <1>3, FieldNames DEF MessageType, MessagesWith, Texts
  <1> QED
    BY <1>1, <1>2, <1>3 DEF Numbers

LEMMA TextSet ==
  ASSUME NEW x \in MessageType, NEW f \in Texts, NEW s \in Seq(Bytes)
  PROVE  /\ [x EXCEPT ![FieldName[f]] = s] \in MessageType
         /\ \A g \in Texts : [x EXCEPT ![FieldName[f]] = s][FieldName[g]]
                             = IF g = f THEN s ELSE x[FieldName[g]]
  <1>1. CASE f = 3
    BY <1>1, FieldNames DEF MessageType, MessagesWith, Texts
  <1>2. CASE f = 4
    BY <1>2, FieldNames DEF MessageType, MessagesWith, Texts
  <1>3. CASE f = 5
    BY <1>3, FieldNames DEF MessageType, MessagesWith, Texts
  <1>4. CASE f = 7
    BY <1>4, FieldNames DEF MessageType, MessagesWith, Texts
  <1> QED
    BY <1>1, <1>2, <1>3, <1>4 DEF Texts

\* The payload that a message becomes.
LEMMA EncodedIsBytes ==
  ASSUME NEW m \in Sendable
  PROVE  Encode(m) \in Seq(Bytes)
  <1>1. 1 \in 1..7 /\ 7 \in (1 - 1)..7
    OBVIOUS
  <1> QED
    BY <1>1, FieldsAreBytes DEF Encode

TextsWithin(x) == \A f \in Texts : Len(x[FieldName[f]]) <= MaxFrame

\* What is decoded can be encoded: no text is longer than a frame, no status negative.
LEMMA DecodedIsSendable ==
  ASSUME NEW x \in MessageType, TextsWithin(x)
  PROVE  x \in Sendable /\ x["status"] >= 0
  <1>1. PICK h \in Nat : h = Half \div 2
    BY Division, WidthsAssumption
  <1>2. x \in MessagesWith(0..(h - 1)) /\ x.status \in 0..(h - 1)
    BY <1>1 DEF MessageType, MessagesWith
  <1>3. 0..(h - 1) \subseteq (-h)..(h - 1)
    BY <1>1
  <1>4. x \in MessagesWith((-h)..(h - 1))
    BY <1>2, <1>3 DEF MessagesWith
  <1>5. ASSUME NEW f \in Texts PROVE Len(x[FieldName[f]]) < Word
    <2>1. x[FieldName[f]] \in Seq(Bytes)
      BY <1>2, FieldNames DEF MessagesWith, Texts
    <2>2. PICK n \in Nat : n = Len(x[FieldName[f]])
      BY <2>1, LenProperties
    <2>3. n <= MaxFrame
      BY <2>2 DEF TextsWithin
    <2> QED
      BY <2>2, <2>3, WidthsAssumption
  <1> QED
    BY <1>1, <1>2, <1>4, <1>5 DEF Sendable, SentType

LEMMA FieldsFromTo ==
  ASSUME NEW m \in Sendable, NEW k \in 0..7
  PROVE  EncodeFields(m, 1, k) \in Seq(Bytes) /\ EncodeFields(m, k + 1, 7) \in Seq(Bytes)
  <1>1. EncodeFields(m, 1, k) \in Seq(Bytes)
    <2>1. 1 \in 1..7 /\ k \in (1 - 1)..7
      OBVIOUS
    <2> QED
      BY <2>1, FieldsAreBytes
  <1>2. CASE k = 7
    <2>1. EncodeFields(m, 8, 8 - 1) = <<>>
      BY NoFields
    <2>2. EncodeFields(m, k + 1, 7) = <<>>
      BY <1>2, <2>1
    <2>3. <<>> \in Seq(Bytes)
      OBVIOUS
    <2> QED
      BY <1>1, <2>2, <2>3
  <1>3. CASE k # 7
    <2>1. k + 1 \in 1..7 /\ 7 \in ((k + 1) - 1)..7
      BY <1>3
    <2> QED
      BY <1>1, <2>1, FieldsAreBytes
  <1> QED
    BY <1>2, <1>3

LEMMA EmptyMessage == Empty \in MessageType /\ TextsWithin(Empty)
  <1>1. PICK h \in Nat : h = Half \div 2 /\ h >= 1
    BY WidthsAssumption
  <1>2. 0 \in 0..(h - 1) /\ 0 \in 0..(Half - 1) /\ 0 \in 0..(Word - 1) /\ MaxFrame \in Nat
    BY <1>1, WidthsAssumption
  <1>3. Empty \in MessageType
    BY <1>1, <1>2 DEF Empty, MessageType, MessagesWith
  <1>4. \A f \in Texts : Empty[FieldName[f]] = <<>>
    BY FieldNames DEF Empty, Texts
  <1> QED
    BY <1>2, <1>3, <1>4 DEF TextsWithin

LEMMA PayloadIsBytes ==
  ASSUME NEW h, NEW o, NEW p \in Seq(Bytes), Payload(h, o, p)
  PROVE  buffer \in Seq(Bytes) /\ tail \in Seq(Bytes)
  <1>1. tail \in Tails /\ buffer = MakeFrame(p) \o tail
    BY DEF Payload
  <1> QED
    BY <1>1, FrameIsBytes, InputsAssumption

(* Beyond TypeOK: a payload and the texts in it are no longer than a frame,*)
(* which makes what is decoded of noise a message that can be sent on.     *)
TypeInv ==
  /\ TypeOK /\ Len(wire) <= MaxFrame /\ TextsWithin(msg)
  /\ state = "buffered" => wire = <<>> /\ pos = 1 /\ msg = Empty

\* What a process encodes is typed, one message or two.
LEMMA OriginTypes ==
  /\ <<>> \in Seq(SentType) /\ <<>> \in Seq(Bytes)
  /\ \A m \in Sendable : <<m>> \in Seq(SentType)
  /\ \A m, n \in Sendable : <<m, n>> \in Seq(SentType)
  <1>1. Sendable \subseteq SentType
    BY DEF Sendable, SentType
  <1>2. \A m, n \in SentType : <<m>> \in Seq(SentType) /\ <<m, n>> \in Seq(SentType)
    OBVIOUS
  <1> QED
    BY <1>1, <1>2

InputTypes == origin \in Seq(SentType) /\ tail \in Seq(Bytes) /\ buffer \in Seq(Bytes)

LEMMA InitTypeInv == ASSUME Init PROVE TypeInv
  <1>1. InputTypes /\ how \in {"whole", "cut", "unknown", "merged", "noise"}
    <2>1. ASSUME NEW m \in Messages, Payload("whole", <<m>>, Encode(m))
          PROVE  InputTypes /\ how = "whole"
      BY <2>1, EncodedIsBytes, PayloadIsBytes, OriginTypes, InputsAssumption DEF Payload, InputTypes
    <2>2. ASSUME NEW m \in Messages, NEW n \in Cuts(m),
                 Payload("cut", <<m>>, SubSeq(Encode(m), 1, n))
          PROVE  InputTypes /\ how = "cut"
      <3>1. PICK e \in Seq(Bytes), l \in Nat : e = Encode(m) /\ l = Len(e)
        BY EncodedIsBytes, LenProperties, InputsAssumption
      <3>2. n \in 0..l
        BY <3>1 DEF Cuts
      <3>3. SubSeq(e, 1, n) \in Seq(Bytes)
        BY <3>1, <3>2, PartOfBytes
      <3> QED
        BY <2>2, <3>1, <3>3, PayloadIsBytes, OriginTypes, InputsAssumption DEF Payload, InputTypes
    <2>3. ASSUME NEW m \in Messages, NEW u \in Unknown, NEW k \in 0..7,
                 Payload("unknown", <<m>>, EncodeFields(m, 1, k) \o u \o EncodeFields(m, k + 1, 7))
          PROVE  InputTypes /\ how = "unknown"
      <3>1. PICK a \in Seq(Bytes), b \in Seq(Bytes) :
              a = EncodeFields(m, 1, k) /\ b = EncodeFields(m, k + 1, 7)
        BY FieldsFromTo, InputsAssumption
      <3>2. u \in Seq(Bytes)
        BY InputsAssumption
      <3>3. a \o u \o b \in Seq(Bytes)
        BY <3>2, ConcatProperties
      <3> QED
        BY <2>3, <3>1, <3>3, PayloadIsBytes, OriginTypes, InputsAssumption DEF Payload, InputTypes
    <2>4. ASSUME NEW m \in Messages, NEW n \in Updates,
                 Payload("merged", <<m, n>>, Encode(m) \o Encode(n))
          PROVE  InputTypes /\ how = "merged"
      <3>1. Encode(m) \in Seq(Bytes) /\ Encode(n) \in Seq(Bytes)
        BY EncodedIsBytes, InputsAssumption
      <3>2. Encode(m) \o Encode(n) \in Seq(Bytes)
        BY <3>1, ConcatProperties
      <3> QED
        BY <2>4, <3>2, PayloadIsBytes, OriginTypes, InputsAssumption DEF Payload, InputTypes
    <2>5. ASSUME NEW p \in Noise, Payload("noise", <<>>, p)
          PROVE  InputTypes /\ how = "noise"
      BY <2>5, PayloadIsBytes, OriginTypes, InputsAssumption DEF Payload, InputTypes
    <2>6. ASSUME how = "noise", origin = <<>>, tail = <<>>, buffer \in Noise PROVE InputTypes
      BY <2>6, OriginTypes, InputsAssumption DEF InputTypes
    <2> QED
      BY <2>1, <2>2, <2>3, <2>4, <2>5, <2>6 DEF Init
  <1>2. wire = <<>> /\ pos = 1 /\ msg = Empty /\ state = "buffered"
    BY DEF Init
  <1>3. Len(<<>>) = 0 /\ <<>> \in Seq(Bytes) /\ 1 \in 1..(0 + 1) /\ 0 <= MaxFrame
    BY WidthsAssumption
  <1> QED
    BY <1>1, <1>2, <1>3, EmptyMessage DEF TypeInv, TypeOK, InputTypes

LEMMA SizeIsNat ==
  ASSUME buffer \in Seq(Bytes), Len(buffer) >= 4
  PROVE  FrameSize \in Nat
  <1>1. PICK n \in Nat : n = Len(buffer)
    BY LenProperties
  <1>2. 1 \in 1..n /\ 2 \in 1..n /\ 3 \in 1..n /\ 4 \in 1..n
    BY <1>1
  <1>3. PICK b1 \in Bytes, b2 \in Bytes, b3 \in Bytes, b4 \in Bytes :
          b1 = buffer[1] /\ b2 = buffer[2] /\ b3 = buffer[3] /\ b4 = buffer[4]
    BY <1>1, <1>2, ElementOfSeq
  <1>4. PICK b \in Nat : b = Byte
    BY ByteSizes
  <1>5. b1 \in Nat /\ b2 \in Nat /\ b3 \in Nat /\ b4 \in Nat
    BY <1>4 DEF Bytes
  <1>6. PICK x \in Nat : x = b1 * b + b2
    <2> b1 * b + b2 \in Nat
      BY <1>5
    <2> QED
      BY Zenon
  <1>7. PICK y \in Nat : y = x * b + b3
    <2> x * b + b3 \in Nat
      BY <1>5
    <2> QED
      BY Zenon
  <1>8. y * b + b4 \in Nat
    BY <1>5
  <1> QED
    BY <1>3, <1>4, <1>6, <1>7, <1>8 DEF FrameSize, DecodeFrameSize

LEMMA PopFrameTypes == ASSUME TypeInv, PopFrame PROVE TypeInv'
  <1>1. PICK n \in Nat, f \in Nat : n = Len(buffer) /\ f = FrameSize
    <2>1. buffer \in Seq(Bytes) /\ Len(buffer) >= 4
      BY DEF TypeInv, TypeOK, PopFrame, FrameWhole
    <2> QED
      BY <2>1, SizeIsNat, LenProperties
  <1>2. f <= MaxFrame /\ n >= 4 + f /\ buffer \in Seq(Bytes)
    BY <1>1 DEF TypeInv, TypeOK, PopFrame, FrameWhole
  <1>3. wire' \in Seq(Bytes) /\ Len(wire') = f
    <2>1. 5 \in Nat \ {0} /\ 4 + f \in 0..n /\ 5 <= (4 + f) + 1 /\ ((4 + f) - 5) + 1 = f
      BY <1>1, <1>2
    <2>2. wire' = SubSeq(buffer, 5, 4 + f)
      BY <1>1 DEF PopFrame
    <2> QED
      BY <1>1, <1>2, <2>1, <2>2, PartOfBytes
  <1>4. buffer' \in Seq(Bytes)
    <2>1. 5 + f \in Nat \ {0} /\ n \in 0..n
      BY <1>1
    <2>2. buffer' = SubSeq(buffer, 5 + f, n)
      BY <1>1 DEF PopFrame, Behind
    <2> QED
      BY <1>1, <1>2, <2>1, <2>2, PartOfBytes
  <1>5. state' = "decoding" /\ how' = how /\ pos' = 1 /\ msg' = msg
        /\ UNCHANGED <<origin, tail>>
    BY DEF TypeInv, PopFrame
  <1>6. 1 \in 1..(f + 1)
    OBVIOUS
  <1> QED
    BY <1>2, <1>3, <1>4, <1>5, <1>6 DEF TypeInv, TypeOK, TextsWithin

LEMMA TakeNumberTypes == ASSUME TypeInv, TakeNumber PROVE TypeInv'
  <1>1. PICK f \in Numbers : Accepted /\ Take(f, IF f = 2 THEN Value(At) % Half ELSE Value(At))
    BY DEF TakeNumber
  <1>2. PICK v : v = IF f = 2 THEN Value(At) % Half ELSE Value(At)
    OBVIOUS
  <1>3. FieldNumber = f /\ Expected /\ msg' = [msg EXCEPT ![FieldName[f]] = v]
        /\ pos' = AfterValue(WireType, At) /\ UNCHANGED <<how, origin, tail, buffer, wire, state>>
    BY <1>1, <1>2 DEF Take, Accepted
  <1>4. WireType = Varint
    BY <1>3 DEF Expected
  <1>5. wire \in Seq(Bytes) /\ pos \in 1..(Len(wire) + 1) /\ state = "decoding"
    BY <1>1 DEF TypeInv, TypeOK, Accepted, InField
  <1>6. pos' \in 1..(Len(wire) + 1) /\ Value(At) \in 0..(Word - 1)
    BY <1>1, <1>3, <1>4, <1>5, AcceptedMoves
  <1>7. PICK x \in Nat : x = Value(At) /\ x \in 0..(Word - 1)
    BY <1>6
  <1>8. f = 1 => v \in 0..(Word - 1)
    BY <1>2, <1>7
  <1>9. f = 2 => v \in 0..(Half - 1)
    <2>1. x % Half \in 0..(Half - 1)
      BY Division, WidthsAssumption
    <2> QED
      BY <1>2, <1>7, <2>1
  <1>10. f = 6 => v \in 0..(Half \div 2 - 1)
    <2>1. PICK h \in Nat : h = Half \div 2
      BY Division, WidthsAssumption
    <2>2. f = 6 => v = x /\ x < h
      BY <1>2, <1>3, <1>7, <2>1 DEF Expected
    <2> QED
      BY <2>1, <2>2
  <1>11. msg' \in MessageType /\ TextsWithin(msg')
    <2>1. msg \in MessageType /\ TextsWithin(msg)
      BY DEF TypeInv, TypeOK
    <2>2. /\ [msg EXCEPT ![FieldName[f]] = v] \in MessageType
          /\ \A g \in Texts : [msg EXCEPT ![FieldName[f]] = v][FieldName[g]] = msg[FieldName[g]]
      BY <1>8, <1>9, <1>10, <2>1, NumberSet
    <2> QED
      BY <1>3, <2>1, <2>2 DEF TextsWithin
  <1> QED
    BY <1>3, <1>5, <1>6, <1>11 DEF TypeInv, TypeOK, TextsWithin

LEMMA TakeTextTypes == ASSUME TypeInv, TakeText PROVE TypeInv'
  <1>1. PICK f \in Texts :
          Accepted /\ Take(f, SubSeq(wire, After(At), AfterDelimited(At) - 1))
    BY DEF TakeText
  <1>2. PICK s : s = SubSeq(wire, After(At), AfterDelimited(At) - 1)
    OBVIOUS
  <1>3. FieldNumber = f /\ Expected /\ msg' = [msg EXCEPT ![FieldName[f]] = s]
        /\ pos' = AfterValue(WireType, At) /\ UNCHANGED <<how, origin, tail, buffer, wire, state>>
    BY <1>1, <1>2 DEF Take, Accepted
  <1>4. WireType = Delimited
    BY <1>3 DEF Expected
  <1>5. wire \in Seq(Bytes) /\ pos \in 1..(Len(wire) + 1) /\ state = "decoding"
        /\ Len(wire) <= MaxFrame
    BY <1>1 DEF TypeInv, TypeOK, Accepted, InField
  <1>6. /\ pos' \in 1..(Len(wire) + 1) /\ After(At) \in Nat \ {0}
        /\ AfterDelimited(At) - 1 \in 0..Len(wire)
    BY <1>1, <1>3, <1>4, <1>5, AcceptedMoves
  <1>7. s \in Seq(Bytes) /\ Len(s) <= MaxFrame
    <2>1. s \in Seq(Bytes) /\ Len(s) <= Len(wire)
      BY <1>2, <1>5, <1>6, PartOfBytes
    <2>2. PICK l \in Nat, k \in Nat : l = Len(wire) /\ k = Len(s)
      BY <1>5, <2>1, LenProperties
    <2> QED
      BY <1>5, <2>1, <2>2, WidthsAssumption
  <1>8. msg' \in MessageType /\ TextsWithin(msg')
    <2>1. msg \in MessageType /\ TextsWithin(msg)
      BY DEF TypeInv, TypeOK
    <2>2. /\ [msg EXCEPT ![FieldName[f]] = s] \in MessageType
          /\ \A g \in Texts : [msg EXCEPT ![FieldName[f]] = s][FieldName[g]]
                              = IF g = f THEN s ELSE msg[FieldName[g]]
      BY <1>7, <2>1, TextSet
    <2> QED
      BY <1>3, <1>7, <2>1, <2>2 DEF TextsWithin
  <1> QED
    BY <1>3, <1>5, <1>6, <1>8 DEF TypeInv, TypeOK, TextsWithin

LEMMA SkipFieldTypes == ASSUME TypeInv, SkipField PROVE TypeInv'
  <1>1. wire \in Seq(Bytes) /\ pos \in 1..(Len(wire) + 1) /\ state = "decoding" /\ Accepted
    BY DEF TypeInv, TypeOK, SkipField, Accepted, InField
  <1>2. pos' \in 1..(Len(wire) + 1) /\ UNCHANGED <<how, origin, tail, buffer, wire, msg, state>>
    BY <1>1, AcceptedMoves DEF SkipField
  <1> QED
    BY <1>1, <1>2 DEF TypeInv, TypeOK, TextsWithin

LEMMA ForwardTypes == ASSUME TypeInv, Forward PROVE TypeInv'
  <1>1. msg \in Sendable
    BY DecodedIsSendable DEF TypeInv, TypeOK
  <1>2. PICK e \in Seq(Bytes) : e = Encode(msg)
    BY <1>1, EncodedIsBytes
  <1>3. MakeFrame(e) \in Seq(Bytes)
    <2>1. EncodeFrameSize(Len(e)) \in Seq(Bytes)
      BY SizeBytes, LenProperties
    <2> QED
      BY <2>1, ConcatProperties DEF MakeFrame
  <1>4. buffer' \in Seq(Bytes) /\ how' = "whole" /\ wire' = <<>> /\ pos' = 1 /\ msg' = Empty
        /\ state' = "buffered" /\ tail' \in Seq(Bytes) /\ origin' \in Seq(SentType)
    BY <1>1, <1>2, <1>3, OriginTypes DEF Forward
  <1>5. Len(<<>>) = 0 /\ <<>> \in Seq(Bytes) /\ 1 \in 1..(0 + 1) /\ 0 <= MaxFrame
    BY WidthsAssumption
  <1> QED
    BY <1>4, <1>5, EmptyMessage DEF TypeInv, TypeOK, TextsWithin

LEMMA NextTypeInv == ASSUME TypeInv, [Next]_vars PROVE TypeInv'
  <1>1. ASSUME FrameUnread \/ Done \/ Refuse PROVE TypeInv'
    <2>1. state' \in {"unread", "decoded", "refused"}
          /\ UNCHANGED <<how, origin, tail, buffer, wire, pos, msg>>
      BY <1>1 DEF FrameUnread, Done, Refuse
    <2> QED
      BY <2>1 DEF TypeInv, TypeOK, TextsWithin
  <1>2. ASSUME UNCHANGED vars PROVE TypeInv'
    BY <1>2 DEF vars, TypeInv, TypeOK, TextsWithin
  <1> QED
    BY <1>1, <1>2, PopFrameTypes, TakeNumberTypes, TakeTextTypes, SkipFieldTypes, ForwardTypes
       DEF Next

LEMMA SpecTypeInv == Spec => []TypeInv
  <1>1. Init => TypeInv
    BY InitTypeInv
  <1>2. TypeInv /\ [Next]_vars => TypeInv'
    BY NextTypeInv
  <1> QED
    BY <1>1, <1>2, PTL DEF Spec

\* Whatever arrives, the members of the message that decode() fills hold values of their
\* types, a kind and a status included, and the position never passes the end of the
\* payload: no varint, length or fixed field takes it further.
THEOREM TypeCorrectness == Spec => []TypeOK
  <1>1. TypeInv => TypeOK
    BY DEF TypeInv
  <1> QED
    BY <1>1, SpecTypeInv, PTL
-----------------------------------------------------------------------------
(* Outlines.  An outline o is a way to read a payload: part[i] is its i-th *)
(* field, off[i] the bytes up to its end and after[i] the message after    *)
(* it; a part may be empty, where the encoder leaves a default out.        *)

Plain == {m \in Sendable : m["status"] >= 0}

Put(x, f, v) == [x EXCEPT ![FieldName[f]] = v]

Carries(c, x, y) ==
  \/ c = <<>> /\ y = x
  \/ c \in Unknown /\ y = x
  \/ \E m \in Plain, f \in 1..7 :
       /\ m[FieldName[f]] # Default(f) /\ c = EncodeField(m, f)
       /\ y = Put(x, f, m[FieldName[f]])

IsOutline(o) ==
  /\ o.n \in Nat /\ o.off \in [0..o.n -> Nat] /\ o.off[0] = 0 /\ o.after[0] = Empty
  /\ \A i \in 1..o.n : /\ o.part[i] \in Seq(Bytes) /\ o.off[i] = o.off[i - 1] + Len(o.part[i])
                       /\ Carries(o.part[i], o.after[i - 1], o.after[i])

Spells(w, o) ==
  /\ IsOutline(o) /\ Len(w) = o.off[o.n]
  /\ \A i \in 1..o.n : Holds(w, o.off[i - 1] + 1, o.part[i])

Reached(o, k) == pos = o.off[k] + 1 /\ msg = o.after[k]

LEMMA FieldAbsent ==
  ASSUME NEW m, NEW f, m[FieldName[f]] = Default(f)
  PROVE  EncodeField(m, f) = <<>>
  BY DEF EncodeField

LEMMA LongerThanPart ==
  ASSUME NEW a \in Seq(Bytes), Len(a) \in Nat \ {0}, NEW b \in Seq(Bytes)
  PROVE  a \o b # <<>> /\ a \o b \in Seq(Bytes) /\ Len(a \o b) \in Nat \ {0}
  <1>1. PICK n \in Nat \ {0}, k \in Nat : n = Len(a) /\ k = Len(b)
    BY LenProperties
  <1>2. a \o b \in Seq(Bytes) /\ Len(a \o b) = n + k
    BY <1>1, ConcatProperties
  <1>3. n + k \in Nat \ {0}
    BY <1>1
  <1>4. Len(<<>>) = 0
    OBVIOUS
  <1> QED
    BY <1>2, <1>3, <1>4

LEMMA FieldPresent ==
  ASSUME NEW m \in Sendable, NEW f \in 1..7, m[FieldName[f]] # Default(f)
  PROVE  EncodeField(m, f) # <<>>
  <1> f \in 0..(Half - 1) /\ 0 \in 0..7 /\ 2 \in 0..7
    BY FieldsAreNumbers
  <1>1. CASE f \in Numbers
    <2>1. m[FieldName[f]] # 0
      BY <1>1, FieldsAreNumbers
    <2>2. EncodeField(m, f) = WriteVarint[f * 8] \o WriteVarint[Cast(f, m[FieldName[f]])]
      BY <1>1, <2>1, NumberField
    <2>3. f * 8 \in 0..(Word - 1)
      <3>1. (f * 8) + 0 \in 0..(Word - 1)
        BY TagFits
      <3>2. (f * 8) + 0 = f * 8
        OBVIOUS
      <3> QED
        BY <3>1, <3>2
    <2>4. Cast(f, m[FieldName[f]]) \in 0..(Word - 1)
      BY <1>1, CastFits
    <2> QED
      BY <2>2, <2>3, <2>4, Written, LongerThanPart
  <1>2. CASE f \in Texts
    <2>1. m[FieldName[f]] # <<>>
      BY <1>2, FieldsAreNumbers
    <2>2. EncodeField(m, f) =
            (WriteVarint[(f * 8) + 2] \o WriteVarint[Len(m[FieldName[f]])]) \o m[FieldName[f]]
      BY <1>2, <2>1, TextField
    <2>3. (f * 8) + 2 \in 0..(Word - 1)
      BY TagFits
    <2>4. m[FieldName[f]] \in Seq(Bytes) /\ Len(m[FieldName[f]]) \in 0..(Word - 1)
      BY <1>2, FieldTypes
    <2>5. PICK a \in Seq(Bytes), b \in Seq(Bytes) :
            /\ a = WriteVarint[(f * 8) + 2] /\ Len(a) \in Nat \ {0}
            /\ b = WriteVarint[Len(m[FieldName[f]])]
      BY <2>3, <2>4, Written
    <2>6. a \o b \in Seq(Bytes) /\ Len(a \o b) \in Nat \ {0}
      BY <2>5, LongerThanPart
    <2>7. (a \o b) \o m[FieldName[f]] # <<>>
      BY <2>4, <2>6, LongerThanPart
    <2> QED
      BY <2>2, <2>5, <2>7
  <1> QED
    BY <1>1, <1>2, FieldsAreNumbers

LEMMA LaterFieldPresent == ASSUME NEW u \in Unknown PROVE u # <<>>
  <1>1. u \in Seq(Bytes) /\ LaterField(u)
    BY InputsAssumption
  <1>2. PICK f \in 0..(Half - 1), t \in 0..7, n \in 0..Len(u) :
          u = WriteTag(f, t) \o SubSeq(u, n + 1, Len(u))
    BY <1>1 DEF LaterField
  <1>3. PICK a \in Seq(Bytes) : a = WriteTag(f, t) /\ Len(a) \in Nat \ {0}
    BY TagFits, Written DEF WriteTag
  <1>4. PICK l \in Nat : l = Len(u) /\ n + 1 \in Nat \ {0} /\ l \in 0..l
    BY <1>1, LenProperties
  <1>5. SubSeq(u, n + 1, l) \in Seq(Bytes)
    BY <1>1, <1>4, PartOfBytes
  <1>6. a \o SubSeq(u, n + 1, l) # <<>>
    BY <1>3, <1>5, LongerThanPart
  <1>7. u = a \o SubSeq(u, n + 1, l)
    BY <1>2, <1>3, <1>4, Zenon
  <1>8. PICK e : e = a \o SubSeq(u, n + 1, l)
    OBVIOUS
  <1> QED
    BY <1>6, <1>7, <1>8

LEMMA CarriesNothing == ASSUME NEW x, NEW y, Carries(<<>>, x, y) PROVE y = x
  BY FieldPresent, LaterFieldPresent DEF Carries, Plain

\* What an outline says of a step that is in it.
LEMMA OutlineStep ==
  ASSUME NEW o, IsOutline(o), NEW k \in 0..(o.n - 1)
  PROVE  /\ k + 1 \in 1..o.n /\ k \in 0..o.n /\ o.n \in Nat
         /\ o.part[k + 1] \in Seq(Bytes) /\ o.off[k] \in Nat /\ o.off[k + 1] \in Nat
         /\ o.off[k + 1] = o.off[k] + Len(o.part[k + 1])
         /\ Carries(o.part[k + 1], o.after[k], o.after[k + 1])
  <1>1. PICK n \in Nat : n = o.n
    BY DEF IsOutline
  <1>2. k + 1 \in 1..n /\ k \in 0..n /\ (k + 1) - 1 = k /\ k + 1 \in 0..n
    BY <1>1
  <1>3. PICK i \in 1..n : i = k + 1
    BY <1>2, Zenon
  <1>4. /\ o.part[i] \in Seq(Bytes) /\ o.off[i] = o.off[i - 1] + Len(o.part[i])
        /\ Carries(o.part[i], o.after[i - 1], o.after[i])
    BY <1>1 DEF IsOutline
  <1>5. o.off[k] \in Nat /\ o.off[k + 1] \in Nat
    BY <1>1, <1>2 DEF IsOutline
  <1>6. i - 1 = k
    BY <1>2, <1>3
  <1> QED
    BY <1>1, <1>2, <1>3, <1>4, <1>5, <1>6

\* Where the decoder is, is a place before a field or at the end: the empty parts that
\* come next are behind it, too.
LEMMA Furthest ==
  ASSUME NEW o, IsOutline(o), NEW j \in 0..o.n, Reached(o, j)
  PROVE  \E k \in 0..o.n : Reached(o, k) /\ (k < o.n => o.part[k + 1] # <<>>)
  <1>1. PICK n \in Nat : n = o.n
    BY DEF IsOutline
  <1>2. DEFINE T == {i \in 0..n : Reached(o, n - i)}
  <1>3. T \in SUBSET Nat /\ n - j \in T
    <2>1. n - j \in 0..n /\ n - (n - j) = j
      BY <1>1
    <2> QED
      BY <2>1
  <1>4. PICK i \in T : \A h \in T : i <= h
    BY <1>3, LeastNumber
  <1>5. PICK k \in 0..n : k = n - i /\ i = n - k /\ Reached(o, k)
    <2>1. i \in 0..n /\ Reached(o, n - i)
      BY <1>4
    <2>2. n - i \in 0..n /\ i = n - (n - i)
      BY <2>1
    <2> QED
      BY <2>1, <2>2
  <1>6. ASSUME k < n, o.part[k + 1] = <<>> PROVE FALSE
    <2>1. k \in 0..(o.n - 1)
      BY <1>1, <1>6
    <2>2. /\ o.off[k + 1] = o.off[k] + Len(o.part[k + 1]) /\ o.off[k] \in Nat
          /\ Carries(o.part[k + 1], o.after[k], o.after[k + 1])
      BY <2>1, OutlineStep
    <2>3. o.off[k + 1] = o.off[k] /\ o.after[k + 1] = o.after[k]
      BY <1>6, <2>2, CarriesNothing
    <2>4. Reached(o, k + 1)
      BY <1>5, <2>3 DEF Reached
    <2>5. i - 1 \in 0..n /\ n - (i - 1) = k + 1
      BY <1>5, <1>6
    <2>6. i - 1 \in T
      BY <2>4, <2>5
    <2>7. i <= i - 1
      BY <1>4, <2>6
    <2> QED
      BY <1>5, <2>7
  <1> QED
    BY <1>1, <1>5, <1>6
-----------------------------------------------------------------------------
(* Outlines of the payloads.  Over(x, m, a, b): x with the values of m's   *)
(* fields from a to b over it, where they are not the default.             *)

Members == DOMAIN Empty
Over(x, m, a, b) ==
  [y \in Members |-> IF \E f \in a..b : FieldName[f] = y /\ m[y] # Empty[y] THEN m[y] ELSE x[y]]

LEMMA MembersAre ==
  /\ \A f \in 1..7 : FieldName[f] \in Members
  /\ \A y \in Members : \E f \in 1..7 : FieldName[f] = y
  /\ \A m \in Sendable : m = [y \in Members |-> m[y]]
  <1>1. Members = {"id", "kind", "service", "method", "payload", "status", "error"}
    BY DEF Members, Empty
  <1>2. \A f \in 1..7 : FieldName[f] \in Members
    <2>1. ASSUME NEW f \in 1..7
          PROVE  f = 1 \/ f = 2 \/ f = 3 \/ f = 4 \/ f = 5 \/ f = 6 \/ f = 7
      OBVIOUS
    <2> QED
      BY <1>1, <2>1, FieldNames
  <1>3. ASSUME NEW y \in Members PROVE \E f \in 1..7 : FieldName[f] = y
    <2>1. 1 \in 1..7 /\ 2 \in 1..7 /\ 3 \in 1..7 /\ 4 \in 1..7 /\ 5 \in 1..7 /\ 6 \in 1..7 /\ 7 \in 1..7
      OBVIOUS
    <2> QED
      BY <1>1, <2>1, FieldNames
  <1>4. ASSUME NEW m \in Sendable PROVE m = [y \in Members |-> m[y]]
    BY <1>1 DEF Sendable, SentType, MessagesWith
  <1> QED
    BY <1>2, <1>3, <1>4

LEMMA OverNone ==
  ASSUME NEW x, x = [y \in Members |-> x[y]], NEW m, NEW a \in Nat
  PROVE  Over(x, m, a, a - 1) = x
  <1>1. a..(a - 1) = {}
    OBVIOUS
  <1> QED
    BY <1>1 DEF Over

LEMMA OverNext ==
  ASSUME NEW x, NEW m, NEW a \in 1..7, NEW b \in a..7
  PROVE  Over(x, m, a, b) =
           IF m[FieldName[b]] = Default(b) THEN Over(x, m, a, b - 1)
           ELSE Put(Over(x, m, a, b - 1), b, m[FieldName[b]])
  <1>1. a..b = (a..(b - 1)) \cup {b} /\ b \in 1..7
    OBVIOUS
  <1>2. FieldName[b] \in Members
    BY <1>1, MembersAre
  <1>3. PICK N : N = FieldName[b]
    OBVIOUS
  <1>4. PICK D : D = Empty[N] /\ D = Default(b)
    BY <1>3 DEF Default
  <1>5. \A y \in Members : (\E f \in a..b : FieldName[f] = y /\ m[y] # Empty[y])
           <=> (\E f \in a..(b - 1) : FieldName[f] = y /\ m[y] # Empty[y])
               \/ (N = y /\ m[y] # Empty[y])
    BY <1>1, <1>3
  <1>6. PICK P : P = Over(x, m, a, b - 1)
    OBVIOUS
  <1>7. PICK R : R = Over(x, m, a, b)
    OBVIOUS
  <1>8. P = [y \in Members |-> P[y]] /\ R = [y \in Members |-> R[y]]
    BY <1>6, <1>7 DEF Over
  <1>9. \A y \in Members :
          R[y] = IF (\E f \in a..b : FieldName[f] = y /\ m[y] # Empty[y]) THEN m[y] ELSE x[y]
    BY <1>7 DEF Over
  <1>10. \A y \in Members :
          P[y] = IF (\E f \in a..(b - 1) : FieldName[f] = y /\ m[y] # Empty[y]) THEN m[y] ELSE x[y]
    BY <1>6 DEF Over
  <1>11. \A y \in Members : R[y] = IF N = y /\ m[y] # Empty[y] THEN m[y] ELSE P[y]
    BY <1>5, <1>9, <1>10
  <1>12. CASE m[N] = D
    <2>1. \A y \in Members : R[y] = P[y]
      BY <1>4, <1>11, <1>12
    <2> QED
      BY <1>3, <1>4, <1>6, <1>7, <1>8, <1>12, <2>1
  <1>13. CASE m[N] # D
    <2>1. \A y \in Members : R[y] = [P EXCEPT ![N] = m[N]][y]
      BY <1>2, <1>3, <1>4, <1>8, <1>11, <1>13
    <2>2. R = [P EXCEPT ![N] = m[N]]
      BY <1>8, <2>1
    <2> QED
      BY <1>3, <1>4, <1>6, <1>7, <1>13, <2>2 DEF Put
  <1> QED
    BY <1>12, <1>13

\* A payload that has an outline, and the message at the end of it.
Outlined(w, y) == \E o : Spells(w, o) /\ o.after[o.n] = y

LEMMA OutlinedNone == Outlined(<<>>, Empty)
  <1>1. PICK o : o = [n |-> 0, part |-> <<>>, off |-> [i \in 0..0 |-> 0],
                      after |-> [i \in 0..0 |-> Empty]]
    OBVIOUS
  <1>2. o.n = 0 /\ o.off = [i \in 0..0 |-> 0] /\ o.after = [i \in 0..0 |-> Empty]
    BY <1>1
  <1>3. 0 \in 0..0 /\ 1..0 = {} /\ Len(<<>>) = 0
    OBVIOUS
  <1>4. o.off[0] = 0 /\ o.after[0] = Empty /\ o.off \in [0..0 -> Nat]
    BY <1>2, <1>3
  <1> QED
    BY <1>2, <1>3, <1>4 DEF Outlined, Spells, IsOutline

\* What is in the beginning of a sequence is there when something follows.
LEMMA HoldsLonger ==
  ASSUME NEW w \in Seq(Bytes), NEW c \in Seq(Bytes), NEW p \in Nat \ {0}, NEW s \in Seq(Bytes),
         Holds(w, p, s)
  PROVE  Holds(w \o c, p, s)
  <1>1. PICK l \in Nat, k \in Nat, n \in Nat : l = Len(w) /\ k = Len(c) /\ n = Len(s)
    BY LenProperties
  <1>2. Len(w \o c) = l + k /\ \A i \in 1..l : (w \o c)[i] = w[i]
    BY <1>1, ConcatProperties
  <1>3. p + n <= l + 1 /\ \A i \in 1..n : w[p + i - 1] = s[i]
    BY <1>1 DEF Holds
  <1>4. p + n <= (l + k) + 1
    BY <1>1, <1>3
  <1>5. ASSUME NEW i \in 1..n PROVE (w \o c)[p + i - 1] = s[i]
    <2>1. p + i - 1 \in 1..l
      BY <1>1, <1>3
    <2> QED
      BY <1>2, <1>3, <2>1
  <1> QED
    BY <1>1, <1>2, <1>4, <1>5 DEF Holds

LEMMA OutlinedMore ==
  ASSUME NEW w \in Seq(Bytes), NEW c \in Seq(Bytes), NEW x, NEW y, Outlined(w, x), Carries(c, x, y)
  PROVE  Outlined(w \o c, y)
  <1>1. PICK o : Spells(w, o) /\ o.after[o.n] = x
    BY DEF Outlined
  <1>2. PICK n \in Nat : n = o.n
    BY <1>1 DEF Spells, IsOutline
  <1>3. PICK l \in Nat, k \in Nat : l = Len(w) /\ k = Len(c) /\ l = o.off[n]
    BY <1>1, <1>2, LenProperties DEF Spells
  <1>4. PICK q : q = [n |-> n + 1,
                      part |-> [i \in 1..(n + 1) |-> IF i = n + 1 THEN c ELSE o.part[i]],
                      off |-> [i \in 0..(n + 1) |-> IF i = n + 1 THEN l + k ELSE o.off[i]],
                      after |-> [i \in 0..(n + 1) |-> IF i = n + 1 THEN y ELSE o.after[i]]]
    OBVIOUS
  <1>5. /\ q.n = n + 1
        /\ \A i \in 1..n : q.part[i] = o.part[i]
        /\ \A i \in 0..n : q.off[i] = o.off[i] /\ q.after[i] = o.after[i]
        /\ q.part[n + 1] = c /\ q.off[n + 1] = l + k /\ q.after[n + 1] = y
    <2>1. n + 1 \in 1..(n + 1) /\ n + 1 \in 0..(n + 1)
      OBVIOUS
    <2>2. \A i \in 1..n : i \in 1..(n + 1) /\ i # n + 1
      OBVIOUS
    <2>3. \A i \in 0..n : i \in 0..(n + 1) /\ i # n + 1
      OBVIOUS
    <2> QED
      BY <1>4, <2>1, <2>2, <2>3
  <1>6. /\ o.off \in [0..n -> Nat] /\ o.off[0] = 0 /\ o.after[0] = Empty
        /\ \A i \in 1..n : /\ o.part[i] \in Seq(Bytes) /\ o.off[i] = o.off[i - 1] + Len(o.part[i])
                           /\ Carries(o.part[i], o.after[i - 1], o.after[i])
                           /\ Holds(w, o.off[i - 1] + 1, o.part[i])
    BY <1>1, <1>2 DEF Spells, IsOutline
  <1>7. q.off \in [0..(n + 1) -> Nat]
    <2>1. \A i \in 0..(n + 1) : (IF i = n + 1 THEN l + k ELSE o.off[i]) \in Nat
      <3>1. \A i \in 0..(n + 1) : i = n + 1 \/ i \in 0..n
        OBVIOUS
      <3> QED
        BY <1>6, <3>1
    <2> QED
      BY <1>4, <2>1
  <1>8. q.off[0] = 0 /\ q.after[0] = Empty
    <2>1. 0 \in 0..n
      OBVIOUS
    <2> QED
      BY <1>5, <1>6, <2>1
  <1>9. PICK e \in Seq(Bytes) : e = w \o c /\ Len(e) = l + k
    <2>1. w \o c \in Seq(Bytes) /\ Len(w \o c) = Len(w) + Len(c)
      BY ConcatProperties
    <2> QED
      BY <1>3, <2>1
  <1>10. ASSUME NEW i \in 1..(n + 1)
         PROVE  /\ q.part[i] \in Seq(Bytes) /\ q.off[i] = q.off[i - 1] + Len(q.part[i])
                /\ Carries(q.part[i], q.after[i - 1], q.after[i])
                /\ Holds(e, q.off[i - 1] + 1, q.part[i])
    <2>1. CASE i = n + 1
      <3>1. i - 1 = n /\ n \in 0..n
        BY <2>1
      <3>2. q.off[i - 1] = l /\ q.after[i - 1] = x
        BY <1>1, <1>2, <1>3, <1>5, <3>1
      <3>3. q.part[i] = c /\ q.off[i] = l + k /\ q.after[i] = y
        BY <1>5, <2>1
      <3>4. Holds(e, l + 1, c)
        <4>1. Holds(e, 1, w \o c)
          BY <1>9, HoldsItself
        <4>2. Holds(e, 1 + Len(w), c)
          BY <4>1, HoldsBoth
        <4> QED
          BY <1>3, <4>2
      <3> QED
        BY <1>3, <3>2, <3>3, <3>4
    <2>2. CASE i \in 1..n
      <3>1. i - 1 \in 0..n /\ i \in 0..n
        BY <2>2
      <3>2. /\ q.part[i] = o.part[i] /\ q.off[i] = o.off[i] /\ q.off[i - 1] = o.off[i - 1]
            /\ q.after[i] = o.after[i] /\ q.after[i - 1] = o.after[i - 1]
        BY <1>5, <2>2, <3>1
      <3>3. o.off[i - 1] + 1 \in Nat \ {0}
        <4>1. o.off[i - 1] \in Nat
          BY <1>6, <3>1
        <4> QED
          BY <4>1
      <3>4. Holds(e, o.off[i - 1] + 1, o.part[i])
        BY <1>6, <1>9, <2>2, <3>3, HoldsLonger
      <3> QED
        BY <1>6, <2>2, <3>2, <3>4
    <2> QED
      BY <2>1, <2>2
  <1>11. n + 1 \in Nat
    OBVIOUS
  <1>12. IsOutline(q)
    BY <1>5, <1>7, <1>8, <1>10, <1>11 DEF IsOutline
  <1>13. Spells(e, q)
    BY <1>5, <1>9, <1>10, <1>12 DEF Spells
  <1> QED
    BY <1>5, <1>9, <1>13 DEF Outlined

LEMMA CarriesField ==
  ASSUME NEW x, NEW m \in Plain, NEW a \in 1..7, NEW b \in a..7
  PROVE  Carries(EncodeField(m, b), Over(x, m, a, b - 1), Over(x, m, a, b))
  <1>1. b \in 1..7
    OBVIOUS
  <1>2. Over(x, m, a, b) =
          IF m[FieldName[b]] = Default(b) THEN Over(x, m, a, b - 1)
          ELSE Put(Over(x, m, a, b - 1), b, m[FieldName[b]])
    BY OverNext
  <1>3. CASE m[FieldName[b]] = Default(b)
    BY <1>2, <1>3, FieldAbsent DEF Carries
  <1>4. CASE m[FieldName[b]] # Default(b)
    BY <1>1, <1>2, <1>4 DEF Carries
  <1> QED
    BY <1>3, <1>4

LEMMA OutlinedFields ==
  ASSUME NEW w \in Seq(Bytes), NEW x, x = [y \in Members |-> x[y]], Outlined(w, x),
         NEW m \in Plain, NEW a \in 1..8, NEW z \in (a - 1)..7
  PROVE  Outlined(w \o EncodeFields(m, a, z), Over(x, m, a, z))
  <1>1. m \in Sendable
    BY DEF Plain
  <1>2. Outlined(w \o EncodeFields(m, a, a - 1), Over(x, m, a, a - 1))
    <2>1. EncodeFields(m, a, a - 1) = <<>> /\ Over(x, m, a, a - 1) = x
      BY NoFields, OverNone
    <2>2. w \o <<>> = w
      OBVIOUS
    <2> QED
      BY <2>1, <2>2
  <1>3. CASE a = 8
    <2>1. z = a - 1
      BY <1>3
    <2> QED
      BY <1>2, <2>1
  <1>4. CASE a # 8
    <2>1. a \in 1..7
      BY <1>4
    <2> DEFINE T == {b \in (a - 1)..7 : ~ Outlined(w \o EncodeFields(m, a, b), Over(x, m, a, b))}
    <2>2. ASSUME T # {} PROVE FALSE
      <3>1. T \in SUBSET Nat
        OBVIOUS
      <3>2. PICK b \in T : \A h \in T : b <= h
        BY <2>2, <3>1, LeastNumber
      <3>3. b \in (a - 1)..7 /\ ~ Outlined(w \o EncodeFields(m, a, b), Over(x, m, a, b))
        BY <3>2
      <3>4. b # a - 1
        BY <1>2, <3>3
      <3>5. b \in a..7 /\ b - 1 \in (a - 1)..7 /\ ~ (b <= b - 1)
        BY <3>3, <3>4
      <3>6. b - 1 \notin T
        BY <3>2, <3>5
      <3>7. Outlined(w \o EncodeFields(m, a, b - 1), Over(x, m, a, b - 1))
        BY <3>5, <3>6
      <3>8. PICK e \in Seq(Bytes), c \in Seq(Bytes) :
              e = EncodeFields(m, a, b - 1) /\ c = EncodeField(m, b) /\ b \in 1..7
        <4>1. b \in 1..7
          BY <3>5
        <4> QED
          BY <1>1, <2>1, <3>5, <4>1, FieldsAreBytes, FieldIsBytes
      <3>9. EncodeFields(m, a, b) = e \o c
        BY <1>1, <2>1, <3>5, <3>8, OneMoreField
      <3>10. Carries(c, Over(x, m, a, b - 1), Over(x, m, a, b))
        BY <2>1, <3>5, <3>8, CarriesField
      <3>11. w \o e \in Seq(Bytes)
        BY <3>8, ConcatProperties
      <3>12. Outlined((w \o e) \o c, Over(x, m, a, b))
        BY <3>7, <3>8, <3>10, <3>11, OutlinedMore
      <3>13. (w \o e) \o c = w \o (e \o c)
        BY <3>8, Associative
      <3> QED
        BY <3>3, <3>9, <3>12, <3>13
    <2>3. z \notin T
      BY <2>2
    <2> QED
      BY <2>3
  <1> QED
    BY <1>3, <1>4

\* An encoding is an outline of the message that was encoded.
LEMMA OverEmpty ==
  ASSUME NEW m \in Sendable
  PROVE  Over(Empty, m, 1, 7) = m
  <1>1. m = [y \in Members |-> m[y]]
    BY MembersAre
  <1>2. ASSUME NEW y \in Members
        PROVE  (IF \E f \in 1..7 : FieldName[f] = y /\ m[y] # Empty[y] THEN m[y] ELSE Empty[y]) = m[y]
    BY MembersAre
  <1> QED
    BY <1>1, <1>2 DEF Over

LEMMA EmptyHasMembers == Empty = [y \in Members |-> Empty[y]]
  BY DEF Members, Empty

LEMMA OutlinedEncode ==
  ASSUME NEW m \in Plain
  PROVE  Outlined(Encode(m), m) /\ Encode(m) \in Seq(Bytes) /\ m \in Sendable
  <1>1. m \in Sendable /\ <<>> \in Seq(Bytes)
    BY DEF Plain
  <1>2. PICK e \in Seq(Bytes) : e = Encode(m)
    BY <1>1, EncodedIsBytes
  <1>3. Outlined(<<>> \o EncodeFields(m, 1, 7), Over(Empty, m, 1, 7))
    <2>1. 1 \in 1..8 /\ 7 \in (1 - 1)..7
      OBVIOUS
    <2> QED
      BY <1>1, <2>1, OutlinedNone, OutlinedFields, EmptyHasMembers
  <1>4. <<>> \o e = e
    OBVIOUS
  <1> QED
    BY <1>1, <1>2, <1>3, <1>4, OverEmpty DEF Encode

\* Two encodings: the second message's fields over the first.
Merged(m, n) == [x \in Members |-> IF n[x] = Empty[x] THEN m[x] ELSE n[x]]

LEMMA OutlinedMerged ==
  ASSUME NEW m \in Plain, NEW n \in Plain
  PROVE  Outlined(Encode(m) \o Encode(n), Merged(m, n))
  <1>1. Outlined(Encode(m), m) /\ Encode(m) \in Seq(Bytes) /\ m \in Sendable
    BY OutlinedEncode
  <1>2. Outlined(Encode(m) \o EncodeFields(n, 1, 7), Over(m, n, 1, 7))
    <2>1. m = [y \in Members |-> m[y]] /\ 1 \in 1..8 /\ 7 \in (1 - 1)..7
      BY <1>1, MembersAre
    <2> QED
      BY <1>1, <2>1, OutlinedFields
  <1>3. Over(m, n, 1, 7) = Merged(m, n)
    <2>1. ASSUME NEW y \in Members
          PROVE  (IF \E f \in 1..7 : FieldName[f] = y /\ n[y] # Empty[y] THEN n[y] ELSE m[y])
                 = (IF n[y] = Empty[y] THEN m[y] ELSE n[y])
      BY MembersAre
    <2> QED
      BY <2>1 DEF Over, Merged
  <1> QED
    BY <1>2, <1>3 DEF Encode

\* A field of a later schema among the others leaves the message what it was.
LEMMA OutlinedUnknown ==
  ASSUME NEW m \in Plain, NEW u \in Unknown, NEW k \in 0..7
  PROVE  /\ Outlined(EncodeFields(m, 1, k) \o u \o EncodeFields(m, k + 1, 7), m)
         /\ EncodeFields(m, 1, k) \o u \o EncodeFields(m, k + 1, 7) \in Seq(Bytes)
  <1>1. m \in Sendable /\ <<>> \in Seq(Bytes) /\ u \in Seq(Bytes)
    BY InputsAssumption DEF Plain
  <1>2. PICK a \in Seq(Bytes), b \in Seq(Bytes) :
          a = EncodeFields(m, 1, k) /\ b = EncodeFields(m, k + 1, 7)
    BY <1>1, FieldsFromTo
  <1>3. PICK x : x = Over(Empty, m, 1, k) /\ x = [y \in Members |-> x[y]]
    <2>1. Over(Empty, m, 1, k) = [y \in Members |-> Over(Empty, m, 1, k)[y]]
      BY DEF Over
    <2> QED
      BY <2>1
  <1>4. Outlined(a, x)
    <2>1. 1 \in 1..8 /\ k \in (1 - 1)..7
      OBVIOUS
    <2>2. Outlined(<<>> \o EncodeFields(m, 1, k), Over(Empty, m, 1, k))
      BY <1>1, <2>1, OutlinedNone, OutlinedFields, EmptyHasMembers
    <2>3. <<>> \o a = a
      OBVIOUS
    <2> QED
      BY <1>2, <1>3, <2>2, <2>3
  <1>5. Outlined(a \o u, x)
    <2>1. Carries(u, x, x)
      BY DEF Carries
    <2> QED
      BY <1>1, <1>4, <2>1, OutlinedMore
  <1>6. PICK w \in Seq(Bytes) : w = a \o u
    BY <1>1, ConcatProperties
  <1>7. Outlined(w \o EncodeFields(m, k + 1, 7), Over(x, m, k + 1, 7))
    <2>1. k + 1 \in 1..8 /\ 7 \in ((k + 1) - 1)..7
      OBVIOUS
    <2> QED
      BY <1>3, <1>5, <1>6, <2>1, OutlinedFields
  <1>8. Over(x, m, k + 1, 7) = m
    <2>1. m = [y \in Members |-> m[y]]
      BY <1>1, MembersAre
    <2>2. ASSUME NEW y \in Members
          PROVE  (IF \E f \in (k + 1)..7 : FieldName[f] = y /\ m[y] # Empty[y] THEN m[y] ELSE x[y])
                 = m[y]
      <3>1. PICK f \in 1..7 : FieldName[f] = y
        BY MembersAre
      <3>2. f \in 1..k \/ f \in (k + 1)..7
        BY <3>1
      <3>3. x[y] = IF \E g \in 1..k : FieldName[g] = y /\ m[y] # Empty[y] THEN m[y] ELSE Empty[y]
        BY <1>3 DEF Over
      <3> QED
        BY <3>1, <3>2, <3>3
    <2> QED
      BY <2>1, <2>2 DEF Over
  <1>9. w \o b \in Seq(Bytes)
    BY <1>6, ConcatProperties
  <1> QED
    BY <1>2, <1>6, <1>7, <1>8, <1>9

\* The outline of an encoding, with the places between its fields.
IsOutlineOf(o, m) ==
  /\ o.n = 7
  /\ \A k \in 0..7 : o.off[k] = Len(EncodeFields(m, 1, k)) /\ o.after[k] = Over(Empty, m, 1, k)
  /\ \A k \in 1..7 : o.part[k] = EncodeField(m, k)

LEMMA EncodeBegins ==
  ASSUME NEW m \in Sendable
  PROVE  \A k \in 0..7 : Holds(Encode(m), 1, EncodeFields(m, 1, k))
  <1> DEFINE P(k) == Holds(Encode(m), 1, EncodeFields(m, 1, k))
  <1>1. PICK e \in Seq(Bytes) : e = Encode(m)
    BY EncodedIsBytes
  <1>2. P(7)
    BY <1>1, HoldsItself DEF Encode
  <1>3. ASSUME NEW k \in 1..7, P(k) PROVE P(k - 1)
    <2>1. 1 \in 1..7 /\ k \in 1..7 /\ k - 1 \in 0..7
      OBVIOUS
    <2>2. PICK a \in Seq(Bytes), c \in Seq(Bytes) :
            a = EncodeFields(m, 1, k - 1) /\ c = EncodeField(m, k)
      BY <2>1, FieldsFromTo, FieldIsBytes
    <2>3. EncodeFields(m, 1, k) = a \o c
      BY <2>1, <2>2, OneMoreField
    <2>4. Holds(e, 1, a \o c)
      BY <1>1, <1>3, <2>3
    <2>5. Holds(e, 1, a)
      BY <2>4, HoldsBoth
    <2> QED
      BY <1>1, <2>2, <2>5
  <1>4. P(6)
    BY <1>2, <1>3
  <1>5. P(5)
    BY <1>3, <1>4
  <1>6. P(4)
    BY <1>3, <1>5
  <1>7. P(3)
    BY <1>3, <1>6
  <1>8. P(2)
    BY <1>3, <1>7
  <1>9. P(1)
    BY <1>3, <1>8
  <1>10. P(0)
    BY <1>3, <1>9
  <1>11. ASSUME NEW k \in 0..7
         PROVE  k = 0 \/ k = 1 \/ k = 2 \/ k = 3 \/ k = 4 \/ k = 5 \/ k = 6 \/ k = 7
    OBVIOUS
  <1> QED
    BY <1>2, <1>4, <1>5, <1>6, <1>7, <1>8, <1>9, <1>10, <1>11

LEMMA OutlineOfEncode ==
  ASSUME NEW m \in Plain
  PROVE  \E o : Spells(Encode(m), o) /\ IsOutlineOf(o, m)
  <1>1. m \in Sendable
    BY DEF Plain
  <1>2. PICK o : o = [n |-> 7, part |-> [k \in 1..7 |-> EncodeField(m, k)],
                      off |-> [k \in 0..7 |-> Len(EncodeFields(m, 1, k))],
                      after |-> [k \in 0..7 |-> Over(Empty, m, 1, k)]]
    OBVIOUS
  <1>3. IsOutlineOf(o, m)
    BY <1>2 DEF IsOutlineOf
  <1>4. PICK e \in Seq(Bytes) : e = Encode(m) /\ e = EncodeFields(m, 1, 7)
    BY <1>1, EncodedIsBytes DEF Encode
  <1>5. \A k \in 0..7 : Len(EncodeFields(m, 1, k)) \in Nat
    BY <1>1, FieldsFromTo, LenProperties
  <1>6. o.off \in [0..7 -> Nat]
    BY <1>2, <1>5
  <1>7. o.off[0] = 0 /\ o.after[0] = Empty
    <2>1. EncodeFields(m, 1, 1 - 1) = <<>> /\ Over(Empty, m, 1, 1 - 1) = Empty
      BY NoFields, OverNone, EmptyHasMembers
    <2>2. 1 - 1 = 0 /\ Len(<<>>) = 0 /\ 0 \in 0..7
      OBVIOUS
    <2> QED
      BY <1>3, <2>1, <2>2 DEF IsOutlineOf
  <1>8. ASSUME NEW k \in 1..7
        PROVE  /\ o.part[k] \in Seq(Bytes) /\ o.off[k] = o.off[k - 1] + Len(o.part[k])
               /\ Carries(o.part[k], o.after[k - 1], o.after[k])
               /\ Holds(e, o.off[k - 1] + 1, o.part[k])
    <2>1. 1 \in 1..7 /\ k - 1 \in 0..7 /\ k \in 0..7
      OBVIOUS
    <2>2. PICK a \in Seq(Bytes), c \in Seq(Bytes), l \in Nat :
            a = EncodeFields(m, 1, k - 1) /\ c = EncodeField(m, k) /\ l = Len(a)
      BY <1>1, <2>1, FieldsFromTo, FieldIsBytes, LenProperties
    <2>3. EncodeFields(m, 1, k) = a \o c
      BY <1>1, <2>1, <2>2, OneMoreField
    <2>4. Len(a \o c) = l + Len(c)
      BY <2>2, ConcatProperties
    <2>5. o.part[k] = c /\ o.off[k] = l + Len(c) /\ o.off[k - 1] = l
      BY <1>3, <2>1, <2>2, <2>3, <2>4 DEF IsOutlineOf
    <2>6. Carries(c, Over(Empty, m, 1, k - 1), Over(Empty, m, 1, k))
      BY <2>1, <2>2, CarriesField
    <2>7. Holds(e, l + 1, c)
      <3>1. Holds(e, 1, a \o c)
        BY <1>1, <1>4, <2>1, <2>3, EncodeBegins
      <3>2. Holds(e, 1 + Len(a), c)
        BY <3>1, HoldsBoth
      <3>3. 1 + Len(a) = l + 1
        BY <2>2
      <3> QED
        BY <3>2, <3>3
    <2> QED
      BY <1>3, <2>1, <2>2, <2>5, <2>6, <2>7 DEF IsOutlineOf
  <1>9. o.n = 7 /\ 7 \in Nat /\ Len(e) = o.off[7]
    BY <1>3, <1>4 DEF IsOutlineOf
  <1>10. IsOutline(o)
    BY <1>6, <1>7, <1>8, <1>9 DEF IsOutline
  <1>11. Spells(e, o)
    BY <1>8, <1>9, <1>10 DEF Spells
  <1> QED
    BY <1>3, <1>4, <1>11

\* Later places of an outline are not before earlier ones, and at the same place the
\* message is the same.
LEMMA PlacesInOrder ==
  ASSUME NEW o, IsOutline(o), NEW i \in 0..o.n
  PROVE  \A j \in i..o.n : /\ o.off[i] <= o.off[j] /\ o.off[i] \in Nat /\ o.off[j] \in Nat
                           /\ o.off[i] = o.off[j] => o.after[i] = o.after[j]
  <1>1. PICK n \in Nat : n = o.n
    BY DEF IsOutline
  <1> DEFINE P(j) == /\ o.off[i] <= o.off[j] /\ o.off[i] \in Nat /\ o.off[j] \in Nat
                     /\ o.off[i] = o.off[j] => o.after[i] = o.after[j]
  <1>2. \A j \in 0..n : o.off[j] \in Nat
    BY <1>1 DEF IsOutline
  <1>3. P(i)
    BY <1>1, <1>2
  <1>4. ASSUME NEW k \in i..(n - 1), P(k) PROVE P(k + 1)
    <2>1. k \in 0..(o.n - 1)
      BY <1>1
    <2>2. /\ o.part[k + 1] \in Seq(Bytes) /\ o.off[k + 1] = o.off[k] + Len(o.part[k + 1])
          /\ Carries(o.part[k + 1], o.after[k], o.after[k + 1])
      BY <2>1, OutlineStep
    <2>3. PICK a \in Nat, b \in Nat, c \in Nat, l \in Nat :
            a = o.off[i] /\ b = o.off[k] /\ c = o.off[k + 1] /\ l = Len(o.part[k + 1])
      <3>1. i \in 0..n /\ k \in 0..n /\ k + 1 \in 0..n
        BY <1>1
      <3> QED
        BY <1>2, <2>2, <3>1, LenProperties
    <2>4. a <= b /\ c = b + l /\ a <= c
      <3>1. a <= b
        BY <1>4, <2>3
      <3>2. c = b + l
        BY <2>2, <2>3
      <3> QED
        BY <3>1, <3>2
    <2>5. ASSUME a = c PROVE o.after[i] = o.after[k + 1]
      <3>1. l = 0 /\ a = b
        BY <2>4, <2>5
      <3>2. o.part[k + 1] = <<>>
        BY <2>2, <2>3, <3>1, EmptySeq
      <3>3. o.after[k + 1] = o.after[k]
        BY <2>2, <3>2, CarriesNothing
      <3> QED
        BY <1>4, <2>3, <3>1, <3>3
    <2> QED
      BY <2>3, <2>4, <2>5
  <1> DEFINE T == {j \in i..n : ~ P(j)}
  <1>5. ASSUME T # {} PROVE FALSE
    <2>1. T \in SUBSET Nat
      BY <1>1
    <2>2. PICK j \in T : \A h \in T : j <= h
      BY <1>5, <2>1, LeastNumber
    <2>3. j \in i..n /\ ~ P(j)
      BY <2>2
    <2>4. j # i
      BY <1>3, <2>3
    <2>5. PICK k \in i..(n - 1) : j = k + 1 /\ k \in i..n /\ ~ (j <= k)
      <3>1. j - 1 \in i..(n - 1) /\ j = (j - 1) + 1 /\ j - 1 \in i..n /\ ~ (j <= j - 1)
        BY <1>1, <2>3, <2>4
      <3> QED
        BY <3>1
    <2>6. P(k)
      BY <2>2, <2>5
    <2> QED
      BY <1>4, <2>3, <2>5, <2>6
  <1> QED
    BY <1>1, <1>5
-----------------------------------------------------------------------------
(* decode() along an outline.                                              *)

\* A field of the outline that is whole in the payload is taken or skipped.
LEMMA OutlineMoves ==
  ASSUME wire \in Seq(Bytes), state = "decoding", Next, NEW o, IsOutline(o),
         NEW k \in 0..(o.n - 1), Reached(o, k), o.part[k + 1] # <<>>,
         Holds(wire, pos, o.part[k + 1])
  PROVE  /\ pos' = o.off[k + 1] + 1 /\ msg' = o.after[k + 1] /\ k + 1 \in 0..o.n
         /\ state' = "decoding" /\ UNCHANGED <<how, origin, tail, buffer, wire>>
  <1>1. /\ k + 1 \in 1..o.n /\ o.n \in Nat /\ o.part[k + 1] \in Seq(Bytes) /\ o.off[k] \in Nat
        /\ o.off[k + 1] = o.off[k] + Len(o.part[k + 1])
        /\ Carries(o.part[k + 1], o.after[k], o.after[k + 1])
    BY OutlineStep
  <1>2. PICK c \in Seq(Bytes), l \in Nat : c = o.part[k + 1] /\ l = Len(c)
    BY <1>1, LenProperties
  <1>3. PICK x, y : x = o.after[k] /\ y = o.after[k + 1]
    OBVIOUS
  <1>4. PICK p \in Nat : p = o.off[k] /\ pos = p + 1 /\ msg = x
    BY <1>1, <1>3 DEF Reached
  <1> pos \in Nat \ {0}
    BY <1>4
  <1>5. Moves(y, l)
    <2>1. CASE c \in Unknown /\ y = x
      BY <1>2, <1>4, <2>1, SkipsLaterField
    <2>2. ASSUME NEW m \in Plain, NEW f \in 1..7, m[FieldName[f]] # Default(f),
                 c = EncodeField(m, f), y = Put(x, f, m[FieldName[f]])
          PROVE  Moves(y, l)
      <3>0. Holds(wire, pos, EncodeField(m, f))
        BY <1>2, <2>2
      <3>1. m \in Sendable /\ m["status"] >= 0
        BY DEF Plain
      <3>2. y = [msg EXCEPT ![FieldName[f]] = m[FieldName[f]]]
        BY <1>4, <2>2 DEF Put
      <3>3. CASE f \in Numbers
        <4>1. m[FieldName[f]] # 0
          BY <2>2, <3>3, FieldsAreNumbers
        <4>2. Moves([msg EXCEPT ![FieldName[f]] = m[FieldName[f]]], Len(EncodeField(m, f)))
          BY <3>0, <3>1, <3>3, <4>1, TakesNumber
        <4> QED
          BY <1>2, <2>2, <3>2, <4>2
      <3>4. CASE f \in Texts
        <4>1. m[FieldName[f]] # <<>>
          BY <2>2, <3>4, FieldsAreNumbers
        <4>2. Moves([msg EXCEPT ![FieldName[f]] = m[FieldName[f]]], Len(EncodeField(m, f)))
          BY <3>0, <3>1, <3>4, <4>1, TakesText
        <4> QED
          BY <1>2, <2>2, <3>2, <4>2
      <3> QED
        BY <3>3, <3>4, FieldsAreNumbers
    <2> QED
      BY <1>1, <1>2, <1>3, <2>1, <2>2 DEF Carries
  <1>6. pos + l = o.off[k + 1] + 1
    <2>1. o.off[k + 1] = p + l
      BY <1>1, <1>2, <1>4
    <2> QED
      BY <1>4, <2>1
  <1>7. k + 1 \in 0..o.n
    BY <1>1
  <1> QED
    BY <1>3, <1>5, <1>6, <1>7 DEF Moves

LEMMA AtEndSteps ==
  ASSUME wire \in Seq(Bytes), state = "decoding", pos = Len(wire) + 1, Next
  PROVE  Done
  <1>1. PICK l \in Nat : l = Len(wire)
    BY LenProperties
  <1>2. ~ (pos <= Len(wire))
    BY <1>1
  <1>3. ~ InField
    BY <1>2 DEF InField
  <1> QED
    BY <1>3 DEF Next, PopFrame, FrameUnread, Refuse, Forward, SkipField, TakeNumber, TakeText, Accepted

\* A payload that is all there is read to its end.
LEMMA WholeStep ==
  ASSUME wire \in Seq(Bytes), state = "decoding", Next, NEW o, Spells(wire, o),
         NEW j \in 0..o.n, Reached(o, j)
  PROVE  /\ UNCHANGED <<how, origin, tail, buffer, wire>>
         /\ \/ /\ state' = "decoded" /\ UNCHANGED <<pos, msg>> /\ pos = Len(wire) + 1
            \/ /\ state' = "decoding"
               /\ \E k \in 0..o.n : pos' = o.off[k] + 1 /\ msg' = o.after[k]
  <1>1. IsOutline(o) /\ Len(wire) = o.off[o.n]
    BY DEF Spells
  <1>2. PICK n \in Nat : n = o.n
    BY <1>1 DEF IsOutline
  <1>3. PICK k \in 0..n : Reached(o, k) /\ (k < n => o.part[k + 1] # <<>>)
    BY <1>1, <1>2, Furthest
  <1>4. CASE k = n
    <2>1. pos = Len(wire) + 1
      BY <1>1, <1>2, <1>3, <1>4 DEF Reached
    <2>2. Done
      BY <2>1, AtEndSteps
    <2> QED
      BY <2>1, <2>2 DEF Done
  <1>5. CASE k < n
    <2>1. k \in 0..(o.n - 1) /\ k + 1 \in 1..o.n /\ (k + 1) - 1 = k
      BY <1>2, <1>5
    <2>2. Holds(wire, o.off[k] + 1, o.part[k + 1])
      <3>1. PICK i \in 1..o.n : i = k + 1 /\ i - 1 = k
        BY <2>1, Zenon
      <3>2. Holds(wire, o.off[i - 1] + 1, o.part[i])
        BY DEF Spells
      <3> QED
        BY <3>1, <3>2
    <2>3. Holds(wire, pos, o.part[k + 1])
      BY <1>3, <2>2 DEF Reached
    <2> QED
      BY <1>1, <1>2, <1>3, <1>5, <2>1, <2>3, OutlineMoves
  <1> QED
    BY <1>4, <1>5

LEMMA WholeEnd ==
  ASSUME NEW o, Spells(wire, o), NEW j \in 0..o.n, Reached(o, j), pos = Len(wire) + 1
  PROVE  msg = o.after[o.n]
  <1>1. IsOutline(o) /\ Len(wire) = o.off[o.n]
    BY DEF Spells
  <1>2. PICK n \in Nat : n = o.n
    BY <1>1 DEF IsOutline
  <1>3. n \in j..n
    BY <1>2
  <1>4. /\ o.off[j] \in Nat /\ o.off[n] \in Nat
        /\ o.off[j] = o.off[n] => o.after[j] = o.after[n]
    BY <1>1, <1>2, <1>3, PlacesInOrder
  <1>5. o.off[j] = o.off[n]
    BY <1>1, <1>2, <1>4 DEF Reached
  <1> QED
    BY <1>2, <1>4, <1>5 DEF Reached

LEMMA CutBegins ==
  ASSUME NEW e \in Seq(Bytes), NEW n \in 0..Len(e), NEW p \in Nat \ {0}, NEW s \in Seq(Bytes),
         Holds(e, p, s)
  PROVE  /\ SubSeq(e, 1, n) \in Seq(Bytes) /\ Len(SubSeq(e, 1, n)) = n
         /\ Begins(SubSeq(e, 1, n), p, s)
  <1>1. PICK l \in Nat, k \in Nat : l = Len(e) /\ k = Len(s) /\ n \in Nat /\ n <= l
    BY LenProperties
  <1>2. SubSeq(e, 1, n) \in Seq(Bytes) /\ Len(SubSeq(e, 1, n)) = n
    <2>1. 1 \in Nat \ {0} /\ 1 <= n + 1 /\ (n - 1) + 1 = n
      BY <1>1
    <2> QED
      BY <2>1, PartOfBytes
  <1>3. \A i \in 1..n : SubSeq(e, 1, n)[i] = e[i]
    <2>1. \A i \in 1..n : e[i] \in Bytes
      <3>1. \A i \in 1..n : i \in 1..l
        BY <1>1
      <3> QED
        BY <1>1, <3>1, ElementOfSeq
    <2>2. \A i \in 1..n : SubSeq(e, 1, n)[i] = e[1 + i - 1]
      <3>1. 1 \in Int /\ n \in Int /\ n - 1 + 1 = n
        BY <1>1
      <3>2. \A i \in 1..(n - 1 + 1) : SubSeq(e, 1, n)[i] = e[1 + i - 1]
        BY <2>1, <3>1, SubSeqProperties
      <3> QED
        BY <3>1, <3>2
    <2>3. \A i \in 1..n : 1 + i - 1 = i
      OBVIOUS
    <2> QED
      BY <2>2, <2>3
  <1>4. ASSUME NEW i \in 1..k, p + i - 1 <= n PROVE SubSeq(e, 1, n)[p + i - 1] = s[i]
    <2>1. e[p + i - 1] = s[i]
      BY <1>1 DEF Holds
    <2>2. p + i - 1 \in 1..n
      BY <1>1, <1>4
    <2> QED
      BY <1>3, <2>1, <2>2
  <1> QED
    BY <1>1, <1>2, <1>4 DEF Begins

CutAt(m, n) == n \in Cuts(m) /\ wire = SubSeq(Encode(m), 1, n)

\* The payload of an encoding that is cut after n bytes: it is refused where a field is
\* cut, and read to its end otherwise.
LEMMA CutStep ==
  ASSUME TypeOK, state = "decoding", Next,
         NEW m \in Plain, NEW o, Spells(Encode(m), o), IsOutlineOf(o, m),
         NEW n, CutAt(m, n), NEW j \in 0..7, Reached(o, j)
  PROVE  /\ UNCHANGED <<how, origin, tail, buffer, wire>>
         /\ \/ state' = "decoded" /\ UNCHANGED <<pos, msg>> /\ pos = Len(wire) + 1
            \/ /\ state' = "decoding"
               /\ \E k \in 0..7 : pos' = o.off[k] + 1 /\ msg' = o.after[k]
            \/ /\ state' = "refused" /\ UNCHANGED <<pos, msg>>
               /\ \E k \in 0..6 : /\ Reached(o, k)
                                  /\ o.off[k] < Len(wire) /\ Len(wire) < o.off[k + 1]
  <1>0. wire \in Seq(Bytes) /\ pos \in 1..(Len(wire) + 1)
    BY DEF TypeOK
  <1>1. m \in Sendable /\ IsOutline(o) /\ o.n = 7
    BY DEF Plain, Spells, IsOutlineOf
  <1>2. PICK e \in Seq(Bytes), l \in Nat : e = Encode(m) /\ l = Len(e) /\ l = o.off[7]
    BY <1>1, EncodedIsBytes, LenProperties DEF Spells
  <1>3. n \in 0..l /\ n < l /\ n \in Nat
    BY <1>2 DEF Cuts, CutAt
  <1>4. Len(wire) = n /\ wire = SubSeq(e, 1, n)
    <2>1. 1 \in Nat \ {0} /\ 1 <= n + 1 /\ (n - 1) + 1 = n
      BY <1>3
    <2> QED
      BY <1>2, <1>3, <2>1, PartOfBytes DEF CutAt
  <1>5. PICK k \in 0..7 : Reached(o, k) /\ (k < 7 => o.part[k + 1] # <<>>)
    BY <1>1, Furthest
  <1>6. PICK q \in Nat : q = o.off[k] /\ pos = q + 1 /\ q <= n
    <2>1. o.off[k] \in Nat
      BY <1>1 DEF IsOutline
    <2>2. PICK q \in Nat : q = o.off[k] /\ pos = q + 1
      BY <1>5, <2>1 DEF Reached
    <2>3. q + 1 \in 1..(n + 1)
      BY <1>0, <1>4, <2>2
    <2> QED
      BY <1>3, <2>2, <2>3
  <1>7. k # 7
    <2>1. q # l
      BY <1>2, <1>3, <1>6
    <2> QED
      BY <1>2, <1>6, <2>1
  <1>8. k \in 0..(o.n - 1) /\ k \in 0..6
    BY <1>1, <1>7
  <1>9. PICK c \in Seq(Bytes), x \in Nat, z \in Nat :
          c = o.part[k + 1] /\ x = Len(c) /\ z = o.off[k + 1] /\ z = q + x
    <2>1. o.part[k + 1] \in Seq(Bytes) /\ o.off[k + 1] = o.off[k] + Len(o.part[k + 1])
      BY <1>1, <1>8, OutlineStep
    <2>2. PICK c \in Seq(Bytes), x \in Nat : c = o.part[k + 1] /\ x = Len(c)
      BY <2>1, LenProperties
    <2>3. o.off[k + 1] = q + x /\ q + x \in Nat
      BY <1>6, <2>1, <2>2
    <2> QED
      BY <2>2, <2>3
  <1>10. k + 1 \in 1..7 /\ (k + 1) - 1 = k
    BY <1>8
  <1>11. c = EncodeField(m, k + 1) /\ c # <<>>
    <2>1. o.part[k + 1] = EncodeField(m, k + 1)
      BY <1>10 DEF IsOutlineOf
    <2>2. k < 7
      BY <1>8
    <2> QED
      BY <1>5, <1>9, <2>1, <2>2
  <1>12. Holds(e, pos, c)
    <2>1. PICK i \in 1..o.n : i = k + 1 /\ i - 1 = k
      BY <1>1, <1>10, Zenon
    <2>2. Holds(e, o.off[i - 1] + 1, o.part[i])
      BY <1>2 DEF Spells
    <2> QED
      BY <1>6, <1>9, <2>1, <2>2
  <1>18. pos \in Nat \ {0} /\ pos = q + 1
    BY <1>6
  <1>13. Begins(wire, pos, c)
    <2>1. n \in 0..Len(e)
      BY <1>2, <1>3
    <2>2. Begins(SubSeq(e, 1, n), pos, c)
      BY <1>12, <1>18, <2>1, CutBegins
    <2> QED
      BY <1>4, <2>2
  <1>19. n \in Nat /\ z = q + x
    BY <1>3, <1>9
  <1>14. CASE z <= n
    <2>1. pos + Len(c) <= Len(wire) + 1
      <3>1. (q + 1) + x <= n + 1
        BY <1>14, <1>19
      <3> QED
        BY <1>4, <1>6, <1>9, <3>1
    <2>2. Holds(wire, pos, c)
      BY <1>0, <1>13, <1>18, <2>1, BeginsAndFits
    <2>3. /\ pos' = o.off[k + 1] + 1 /\ msg' = o.after[k + 1] /\ k + 1 \in 0..o.n
          /\ state' = "decoding" /\ UNCHANGED <<how, origin, tail, buffer, wire>>
      BY <1>0, <1>1, <1>5, <1>8, <1>9, <1>11, <2>2, OutlineMoves
    <2> QED
      BY <1>1, <2>3
  <1>15. CASE n < z /\ pos <= n
    <2>1. Len(wire) + 1 < pos + Len(c)
      <3>1. n + 1 < (q + 1) + x
        BY <1>15, <1>19
      <3> QED
        BY <1>4, <1>6, <1>9, <3>1
    <2>2. PICK f \in 1..7 : f = k + 1
      BY <1>10
    <2>3. m[FieldName[f]] # Default(f) /\ Begins(wire, pos, EncodeField(m, f))
          /\ Len(wire) + 1 < pos + Len(EncodeField(m, f))
      BY <1>11, <1>13, <2>1, <2>2, FieldAbsent
    <2>4. ~ Whole
      <3>1. CASE f \in Numbers
        <4>1. m[FieldName[f]] # 0
          BY <2>3, <3>1, FieldsAreNumbers
        <4> QED
          BY <1>0, <1>1, <1>18, <2>3, <3>1, <4>1, NumberCutShort
      <3>2. CASE f \in Texts
        <4>1. m[FieldName[f]] # <<>>
          BY <2>3, <3>2, FieldsAreNumbers
        <4> QED
          BY <1>0, <1>1, <1>18, <2>3, <3>2, <4>1, TextCutShort
      <3> QED
        BY <3>1, <3>2, FieldsAreNumbers
    <2>5. Refuse
      BY <1>3, <1>4, <1>15, <1>18, <2>4, NotWholeSteps
    <2>6. o.off[k] < Len(wire) /\ Len(wire) < o.off[k + 1]
      <3>1. q < n /\ n < z
        BY <1>3, <1>6, <1>15
      <3> QED
        BY <1>4, <1>6, <1>9, <3>1
    <2> QED
      BY <1>5, <1>8, <2>5, <2>6 DEF Refuse
  <1>16. CASE pos = n + 1
    <2>1. Done
      BY <1>0, <1>4, <1>16, AtEndSteps
    <2> QED
      BY <1>4, <1>16, <2>1 DEF Done
  <1>17. z <= n \/ (n < z /\ pos <= n) \/ pos = n + 1
    BY <1>3, <1>6, <1>9
  <1> QED
    BY <1>14, <1>15, <1>16, <1>17
-----------------------------------------------------------------------------
(* The payload that how and origin tell of, in the buffer and then in wire.*)

Made(p) ==
  \/ how = "whole" /\ \E m \in Plain : origin = <<m>> /\ p = Encode(m)
  \/ how = "cut" /\ \E m \in Plain : origin = <<m>> /\ \E n \in Cuts(m) : p = SubSeq(Encode(m), 1, n)
  \/ how = "unknown" /\ \E m \in Plain : /\ origin = <<m>>
       /\ \E u \in Unknown, k \in 0..7 : p = EncodeFields(m, 1, k) \o u \o EncodeFields(m, k + 1, 7)
  \/ how = "merged" /\ \E m \in Plain, n \in Plain : origin = <<m, n>> /\ p = Encode(m) \o Encode(n)

Buffered(p) == Made(p) /\ Len(p) <= MaxFrame /\ buffer = MakeFrame(p) \o tail

PayloadInv ==
  how # "noise" =>
    /\ state = "buffered" => \E p \in Seq(Bytes) : Buffered(p)
    /\ state # "buffered" => Made(wire) /\ buffer = tail /\ state # "unread"

(* The message that the outlines of the payload lead to.                   *)
Goal(y) ==
  \/ how \in {"whole", "unknown"} /\ y = origin[1]
  \/ how = "merged" /\ y = Merged(origin[1], origin[2])

WholeRead ==
  how \in {"whole", "unknown", "merged"} /\ state # "buffered" =>
    /\ state \in {"decoding", "decoded"} /\ (state = "decoded" => pos = Len(wire) + 1)
    /\ \E o : Spells(wire, o) /\ Goal(o.after[o.n]) /\ \E k \in 0..o.n : Reached(o, k)

CutReached(o, k) ==
  /\ Reached(o, k) /\ (state = "decoded" => pos = Len(wire) + 1)
  /\ state = "refused" => k < 7 /\ o.off[k] < Len(wire) /\ Len(wire) < o.off[k + 1]

CutRead ==
  how = "cut" /\ state # "buffered" =>
    \E m \in Plain : \E o, n :
      /\ origin = <<m>> /\ Spells(Encode(m), o) /\ IsOutlineOf(o, m)
      /\ CutAt(m, n) /\ \E k \in 0..7 : CutReached(o, k)

IInv == TypeInv /\ PayloadInv /\ WholeRead /\ CutRead

\* Every message is one that the codec is made for: its status is none of those that
\* encode() writes and decode() refuses.
NoNegativeStatus == \A m \in Messages \cup Updates : m["status"] >= 0

LEMMA InputsArePlain == ASSUME NoNegativeStatus PROVE Messages \subseteq Plain /\ Updates \subseteq Plain
  BY InputsAssumption DEF NoNegativeStatus, Plain

LEMMA MadeIsBytes == ASSUME NEW p, Made(p) PROVE p \in Seq(Bytes) /\ how # "noise"
  <1>1. ASSUME NEW m \in Plain, NEW n \in Cuts(m) PROVE SubSeq(Encode(m), 1, n) \in Seq(Bytes)
    <2>1. PICK e \in Seq(Bytes), l \in Nat : e = Encode(m) /\ l = Len(e)
      BY OutlinedEncode, LenProperties
    <2>2. n \in 0..l
      BY <2>1 DEF Cuts
    <2> QED
      BY <2>1, <2>2, PartOfBytes
  <1>2. ASSUME NEW m \in Plain, NEW n \in Plain PROVE Encode(m) \o Encode(n) \in Seq(Bytes)
    BY OutlinedEncode, ConcatProperties
  <1> QED
    BY <1>1, <1>2, OutlinedEncode, OutlinedUnknown DEF Made

LEMMA MadeIsOutlined ==
  ASSUME NEW p, Made(p), how \in {"whole", "unknown", "merged"}
  PROVE  \E o : Spells(p, o) /\ Goal(o.after[o.n])
  <1>1. ASSUME NEW y, Outlined(p, y), Goal(y) PROVE \E o : Spells(p, o) /\ Goal(o.after[o.n])
    BY <1>1 DEF Outlined
  <1>2. CASE how = "whole"
    <2>1. PICK m \in Plain : origin = <<m>> /\ p = Encode(m)
      BY <1>2 DEF Made
    <2> QED
      BY <1>1, <1>2, <2>1, OutlinedEncode DEF Goal
  <1>3. CASE how = "unknown"
    <2>1. PICK m \in Plain, u \in Unknown, k \in 0..7 :
            origin = <<m>> /\ p = EncodeFields(m, 1, k) \o u \o EncodeFields(m, k + 1, 7)
      BY <1>3 DEF Made
    <2>2. Outlined(p, m)
      BY <2>1, OutlinedUnknown
    <2> QED
      BY <1>1, <1>3, <2>1, <2>2 DEF Goal
  <1>4. CASE how = "merged"
    <2>1. PICK m \in Plain, n \in Plain : origin = <<m, n>> /\ p = Encode(m) \o Encode(n)
      BY <1>4 DEF Made
    <2>2. Outlined(p, Merged(m, n))
      BY <2>1, OutlinedMerged
    <2> QED
      BY <1>1, <1>4, <2>1, <2>2 DEF Goal
  <1> QED
    BY <1>2, <1>3, <1>4

\* The first place of every outline is where decode() begins.
LEMMA AtFirstPlace ==
  ASSUME NEW o, IsOutline(o), pos = 1, msg = Empty
  PROVE  Reached(o, 0) /\ 0 \in 0..o.n
  BY DEF IsOutline, Reached

\* Before a frame is popped nothing is known of wire.
LEMMA BufferedInv ==
  ASSUME TypeInv, state = "buffered",
         how # "noise" => \E p \in Seq(Bytes) : Buffered(p)
  PROVE  IInv
  BY DEF IInv, PayloadInv, WholeRead, CutRead

LEMMA InitIInv == ASSUME NoNegativeStatus, Init PROVE IInv
  <1>1. state = "buffered" /\ TypeInv
    BY InitTypeInv DEF Init
  <1>2. ASSUME NEW h, NEW o, NEW p, Payload(h, o, p), Made(p)
        PROVE  \E q \in Seq(Bytes) : Buffered(q)
    BY <1>2, MadeIsBytes DEF Payload, Buffered
  <1>3. ASSUME how # "noise" PROVE \E p \in Seq(Bytes) : Buffered(p)
    <2>1. ASSUME NEW m \in Messages, Payload("whole", <<m>>, Encode(m))
          PROVE  Made(Encode(m))
      BY <2>1, InputsArePlain DEF Payload, Made
    <2>2. ASSUME NEW m \in Messages, NEW n \in Cuts(m),
                 Payload("cut", <<m>>, SubSeq(Encode(m), 1, n))
          PROVE  Made(SubSeq(Encode(m), 1, n))
      BY <2>2, InputsArePlain DEF Payload, Made
    <2>3. ASSUME NEW m \in Messages, NEW u \in Unknown, NEW k \in 0..7,
                 Payload("unknown", <<m>>, EncodeFields(m, 1, k) \o u \o EncodeFields(m, k + 1, 7))
          PROVE  Made(EncodeFields(m, 1, k) \o u \o EncodeFields(m, k + 1, 7))
      BY <2>3, InputsArePlain DEF Payload, Made
    <2>4. ASSUME NEW m \in Messages, NEW n \in Updates,
                 Payload("merged", <<m, n>>, Encode(m) \o Encode(n))
          PROVE  Made(Encode(m) \o Encode(n))
      BY <2>4, InputsArePlain DEF Payload, Made
    <2>5. ASSUME NEW p \in Noise, Payload("noise", <<>>, p) PROVE FALSE
      BY <1>3, <2>5 DEF Payload
    <2> QED
      BY <1>2, <1>3, <2>1, <2>2, <2>3, <2>4, <2>5 DEF Init
  <1> QED
    BY <1>1, <1>3, BufferedInv

LEMMA PopFrameIInv == ASSUME IInv, PopFrame PROVE PayloadInv' /\ WholeRead' /\ CutRead'
  <1>1. /\ state = "buffered" /\ state' = "decoding"
        /\ how' = how /\ origin' = origin /\ pos' = 1 /\ msg' = Empty
    BY DEF IInv, TypeInv, PopFrame
  <1>2. CASE how = "noise"
    BY <1>1, <1>2 DEF PayloadInv, WholeRead, CutRead
  <1>3. CASE how # "noise"
    <2>1. PICK p \in Seq(Bytes) : Buffered(p)
      BY <1>1, <1>3 DEF IInv, PayloadInv
    <2>2. wire' = p /\ buffer' = tail /\ tail' = tail
      <3>1. tail \in Seq(Bytes)
        BY DEF IInv, TypeInv, TypeOK
      <3>2. Len(p) <= MaxFrame /\ buffer = MakeFrame(p) \o tail
        BY <2>1 DEF Buffered
      <3> QED
        BY <3>1, <3>2, PopsFrame DEF PopFrame, Behind
    <2>3. Made(p)
      BY <2>1 DEF Buffered
    <2>4. Made(wire)'
      BY <1>1, <2>2, <2>3 DEF Made
    <2>5. PayloadInv'
      BY <1>1, <2>2, <2>4 DEF PayloadInv
    <2>6. WholeRead'
      <3>1. SUFFICES ASSUME how \in {"whole", "unknown", "merged"}
                     PROVE  \E o : Spells(p, o) /\ Goal(o.after[o.n])'
                                   /\ \E k \in 0..o.n : Reached(o, k)'
        BY <1>1, <2>2 DEF WholeRead
      <3>2. PICK o : Spells(p, o) /\ Goal(o.after[o.n])
        BY <2>3, <3>1, MadeIsOutlined
      <3>3. Goal(o.after[o.n])'
        BY <1>1, <3>2 DEF Goal
      <3>4. Reached(o, 0)' /\ 0 \in 0..o.n
        BY <1>1, <3>2 DEF Spells, IsOutline, Reached
      <3> QED
        BY <3>2, <3>3, <3>4
    <2>7. CutRead'
      <3>1. SUFFICES ASSUME how = "cut" PROVE CutRead'
        BY <1>1 DEF CutRead
      <3>0. PICK m \in Plain : origin = <<m>> /\ \E n \in Cuts(m) : p = SubSeq(Encode(m), 1, n)
        BY <2>3, <3>1 DEF Made
      <3>2. PICK n \in Cuts(m) : p = SubSeq(Encode(m), 1, n)
        BY <3>0
      <3>3. PICK o : Spells(Encode(m), o) /\ IsOutlineOf(o, m)
        BY OutlineOfEncode
      <3>4. CutAt(m, n)'
        BY <2>2, <3>2 DEF CutAt
      <3>5. CutReached(o, 0)' /\ 0 \in 0..7
        BY <1>1, <3>3 DEF Spells, IsOutline, Reached, CutReached
      <3> QED
        BY <1>1, <3>0, <3>3, <3>4, <3>5 DEF CutRead
    <2> QED
      BY <2>5, <2>6, <2>7
  <1> QED
    BY <1>2, <1>3

LEMMA DecodeSteps ==
  ASSUME state = "decoding", Next
  PROVE  /\ UNCHANGED <<how, origin, tail, buffer, wire>>
         /\ state' \in {"decoding", "decoded", "refused"}
  BY DEF Next, PopFrame, FrameUnread, Done, Refuse, Forward, SkipField, TakeNumber, TakeText, Take,
         Accepted, InField

LEMMA DecodeIInv == ASSUME IInv, state = "decoding", Next PROVE PayloadInv' /\ WholeRead' /\ CutRead'
  <1>1. /\ how' = how /\ origin' = origin /\ tail' = tail /\ buffer' = buffer /\ wire' = wire
        /\ state' \in {"decoding", "decoded", "refused"}
    BY DecodeSteps
  <1>2. TypeOK /\ wire \in Seq(Bytes)
    BY DEF IInv, TypeInv, TypeOK
  <1>3. PayloadInv'
    <2>1. SUFFICES ASSUME how # "noise" PROVE Made(wire)' /\ buffer = tail
      BY <1>1 DEF PayloadInv
    <2>2. Made(wire) /\ buffer = tail
      BY <2>1 DEF IInv, PayloadInv
    <2> QED
      BY <1>1, <2>2 DEF Made
  <1>4. WholeRead'
    <2>1. SUFFICES ASSUME how \in {"whole", "unknown", "merged"} PROVE WholeRead'
      BY <1>1 DEF WholeRead
    <2>2. PICK o : Spells(wire, o) /\ Goal(o.after[o.n]) /\ \E k \in 0..o.n : Reached(o, k)
      BY <2>1 DEF IInv, WholeRead
    <2>3. PICK j \in 0..o.n : Reached(o, j)
      BY <2>2
    <2>4. \/ /\ state' = "decoded" /\ UNCHANGED <<pos, msg>> /\ pos = Len(wire) + 1
          \/ /\ state' = "decoding"
             /\ \E k \in 0..o.n : pos' = o.off[k] + 1 /\ msg' = o.after[k]
      BY <1>2, <2>2, <2>3, WholeStep
    <2>5. \E k \in 0..o.n : Reached(o, k)'
      BY <2>3, <2>4 DEF Reached
    <2>6. Spells(wire', o) /\ Goal(o.after[o.n])'
      BY <1>1, <2>2 DEF Goal
    <2>7. state' \in {"decoding", "decoded"} /\ (state' = "decoded" => pos' = Len(wire') + 1)
      BY <1>1, <2>4
    <2> QED
      BY <2>5, <2>6, <2>7 DEF WholeRead
  <1>5. CutRead'
    <2>1. SUFFICES ASSUME how = "cut" PROVE CutRead'
      BY <1>1 DEF CutRead
    <2>0. PICK m \in Plain : \E o, n :
            /\ origin = <<m>> /\ Spells(Encode(m), o) /\ IsOutlineOf(o, m)
            /\ CutAt(m, n) /\ \E k \in 0..7 : CutReached(o, k)
      BY <2>1 DEF IInv, CutRead
    <2>2. PICK o, n :
            /\ origin = <<m>> /\ Spells(Encode(m), o) /\ IsOutlineOf(o, m)
            /\ CutAt(m, n) /\ \E k \in 0..7 : CutReached(o, k)
      BY <2>0
    <2>3. PICK j \in 0..7 : Reached(o, j)
      BY <2>2 DEF CutReached
    <2>4. \/ state' = "decoded" /\ UNCHANGED <<pos, msg>> /\ pos = Len(wire) + 1
          \/ /\ state' = "decoding"
             /\ \E k \in 0..7 : pos' = o.off[k] + 1 /\ msg' = o.after[k]
          \/ /\ state' = "refused" /\ UNCHANGED <<pos, msg>>
             /\ \E k \in 0..6 : /\ Reached(o, k)
                                /\ o.off[k] < Len(wire) /\ Len(wire) < o.off[k + 1]
      BY <1>2, <2>2, <2>3, CutStep
    <2>5. \E k \in 0..7 : CutReached(o, k)'
      <3>1. CASE state' = "decoded" /\ UNCHANGED <<pos, msg>> /\ pos = Len(wire) + 1
        <4>1. CutReached(o, j)'
          BY <1>1, <2>3, <3>1 DEF CutReached, Reached
        <4> QED
          BY <4>1
      <3>2. ASSUME state' = "decoding", NEW k \in 0..7, pos' = o.off[k] + 1, msg' = o.after[k]
            PROVE  CutReached(o, k)'
        BY <3>2 DEF CutReached, Reached
      <3>3. ASSUME state' = "refused", UNCHANGED <<pos, msg>>, NEW k \in 0..6, Reached(o, k),
                   o.off[k] < Len(wire), Len(wire) < o.off[k + 1]
            PROVE  CutReached(o, k)' /\ k \in 0..7
        BY <1>1, <3>3 DEF CutReached, Reached
      <3> QED
        BY <2>4, <3>1, <3>2, <3>3
    <2>6. CutAt(m, n)'
      BY <1>1, <2>2 DEF CutAt
    <2> QED
      BY <1>1, <2>2, <2>5, <2>6 DEF CutRead
  <1> QED
    BY <1>3, <1>4, <1>5

LEMMA ForwardIInv == ASSUME IInv, Forward PROVE PayloadInv' /\ WholeRead' /\ CutRead'
  <1>1. msg \in Plain
    BY DecodedIsSendable DEF IInv, TypeInv, TypeOK, Plain
  <1>2. PICK e \in Seq(Bytes) : e = Encode(msg) /\ Len(e) <= MaxFrame
    BY <1>1, OutlinedEncode DEF Forward
  <1>3. how' = "whole" /\ origin' = <<msg>> /\ buffer' = MakeFrame(e) /\ tail' = <<>>
        /\ state' = "buffered"
    BY <1>2 DEF Forward
  <1>4. Made(e)'
    BY <1>1, <1>2, <1>3 DEF Made
  <1>5. MakeFrame(e) = MakeFrame(e) \o <<>>
    <2>1. MakeFrame(e) \in Seq(Bytes)
      <3>1. EncodeFrameSize(Len(e)) \in Seq(Bytes)
        BY SizeBytes, LenProperties
      <3> QED
        BY <3>1, ConcatProperties DEF MakeFrame
    <2> QED
      BY <2>1
  <1>6. Buffered(e)'
    BY <1>2, <1>3, <1>4, <1>5 DEF Buffered
  <1> QED
    BY <1>3, <1>6 DEF PayloadInv, WholeRead, CutRead

LEMMA NextIInv == ASSUME IInv, [Next]_vars PROVE IInv'
  <1>1. TypeInv'
    BY NextTypeInv DEF IInv
  <1>2. CASE UNCHANGED vars
    <2>1. /\ how' = how /\ origin' = origin /\ tail' = tail /\ buffer' = buffer /\ wire' = wire
          /\ pos' = pos /\ msg' = msg /\ state' = state
      BY <1>2 DEF vars
    <2>2. PayloadInv'
      BY <2>1 DEF IInv, PayloadInv, Buffered, Made
    <2>3. WholeRead'
      BY <2>1 DEF IInv, WholeRead, Goal, Reached
    <2>4. CutRead'
      BY <2>1 DEF IInv, CutRead, CutAt, CutReached, Reached
    <2> QED
      BY <1>1, <2>2, <2>3, <2>4 DEF IInv
  <1>3. CASE Next
    <2>1. CASE state = "buffered"
      <3>1. PopFrame \/ FrameUnread
        BY <1>3, <2>1 DEF Next, Done, Refuse, Forward, SkipField, TakeNumber, TakeText, Accepted,
                          InField
      <3>2. CASE FrameUnread
        <4>1. how = "noise"
          <5>1. SUFFICES ASSUME how # "noise" PROVE FALSE
            OBVIOUS
          <5>2. PICK p \in Seq(Bytes) : Buffered(p)
            BY <2>1, <5>1 DEF IInv, PayloadInv
          <5>3. tail \in Seq(Bytes) /\ Len(p) <= MaxFrame /\ buffer = MakeFrame(p) \o tail
            BY <5>2 DEF Buffered, IInv, TypeInv, TypeOK
          <5>4. FrameWhole
            BY <5>3, PopsFrame
          <5> QED
            BY <3>2, <5>4 DEF FrameUnread
        <4>2. how' = "noise"
          BY <3>2, <4>1 DEF FrameUnread
        <4> QED
          BY <1>1, <4>2 DEF IInv, PayloadInv, WholeRead, CutRead
      <3> QED
        BY <1>1, <3>1, <3>2, PopFrameIInv DEF IInv
    <2>2. CASE state = "decoding"
      BY <1>1, <1>3, <2>2, DecodeIInv DEF IInv
    <2>3. CASE state \notin {"buffered", "decoding"}
      <3>1. Forward
        BY <1>3, <2>3 DEF Next, PopFrame, FrameUnread, Done, Refuse, SkipField, TakeNumber, TakeText,
                          Accepted, InField
      <3> QED
        BY <1>1, <3>1, ForwardIInv DEF IInv
    <2> QED
      BY <2>1, <2>2, <2>3
  <1> QED
    BY <1>2, <1>3

LEMMA SpecIInv == ASSUME NoNegativeStatus PROVE Spec => []IInv
  <1>1. Init => IInv
    BY InitIInv
  <1>2. IInv /\ [Next]_vars => IInv'
    BY NextIInv
  <1> QED
    BY <1>1, <1>2, PTL DEF Spec

\* A payload that is read to its end became the message of its outline.
LEMMA WholeDecoded ==
  ASSUME IInv, how \in {"whole", "unknown", "merged"}, Ended
  PROVE  /\ state = "decoded" /\ buffer = tail
         /\ \E y : Goal(y) /\ msg = y
  <1>1. state # "buffered" /\ how # "noise"
    BY DEF Ended
  <1>2. state \in {"decoding", "decoded"} /\ (state = "decoded" => pos = Len(wire) + 1)
    BY <1>1 DEF IInv, WholeRead
  <1>3. state = "decoded" /\ pos = Len(wire) + 1
    BY <1>2 DEF Ended
  <1>4. PICK o : Spells(wire, o) /\ Goal(o.after[o.n]) /\ \E k \in 0..o.n : Reached(o, k)
    BY <1>1 DEF IInv, WholeRead
  <1>5. msg = o.after[o.n]
    BY <1>3, <1>4, WholeEnd
  <1> QED
    BY <1>1, <1>3, <1>4, <1>5 DEF IInv, PayloadInv

\* The message before the k-th place of an encoding has the fields before it.
LEMMA FirstFields ==
  ASSUME NEW m \in Sendable, NEW k \in 0..7
  PROVE  Over(Empty, m, 1, k) =
           [x \in DOMAIN m |-> IF \E f \in 1..k : FieldName[f] = x THEN m[x] ELSE Empty[x]]
  <1>1. DOMAIN m = Members
    <2>1. m = [y \in Members |-> m[y]]
      BY MembersAre
    <2>2. DOMAIN [y \in Members |-> m[y]] = Members
      OBVIOUS
    <2> QED
      BY <2>1, <2>2
  <1>2. ASSUME NEW x \in Members
        PROVE  (IF \E f \in 1..k : FieldName[f] = x /\ m[x] # Empty[x] THEN m[x] ELSE Empty[x])
               = (IF \E f \in 1..k : FieldName[f] = x THEN m[x] ELSE Empty[x])
    OBVIOUS
  <1> QED
    BY <1>1, <1>2 DEF Over

LEMMA CutDecoded == ASSUME IInv PROVE WholeFieldsOnly
  <1>1. SUFFICES ASSUME how = "cut", Ended PROVE WholeFieldsOnly
    BY DEF WholeFieldsOnly
  <1>2. state # "buffered" /\ state # "decoding"
    BY <1>1 DEF Ended
  <1>3. PICK m \in Plain : \E o, n :
          /\ origin = <<m>> /\ Spells(Encode(m), o) /\ IsOutlineOf(o, m)
          /\ CutAt(m, n) /\ \E k \in 0..7 : CutReached(o, k)
    BY <1>1, <1>2 DEF IInv, CutRead
  <1>4. PICK o : origin = <<m>> /\ Spells(Encode(m), o) /\ IsOutlineOf(o, m)
                 /\ \E k \in 0..7 : CutReached(o, k)
    BY <1>3
  <1>5. PICK k \in 0..7 : CutReached(o, k)
    BY <1>4
  <1>6. IsOutline(o) /\ o.n = 7 /\ m \in Sendable /\ origin[1] = m
    BY <1>4 DEF Spells, IsOutlineOf, Plain
  <1> DEFINE Boundaries == {h \in 0..7 : Len(EncodeFields(m, 1, h)) = Len(wire)}
             First(h) == [x \in DOMAIN m |-> IF \E f \in 1..h : FieldName[f] = x
                                             THEN m[x] ELSE Empty[x]]
  <1>7. \A h \in 0..7 : o.off[h] = Len(EncodeFields(m, 1, h)) /\ o.after[h] = First(h)
    BY <1>4, <1>6, FirstFields DEF IsOutlineOf
  <1>8. \A h \in 0..7 : h \in Boundaries <=> o.off[h] = Len(wire)
    BY <1>7
  <1>9. \A i \in 0..7 : \A j \in i..7 :
          /\ o.off[i] <= o.off[j] /\ o.off[i] \in Nat /\ o.off[j] \in Nat
          /\ o.off[i] = o.off[j] => o.after[i] = o.after[j]
    BY <1>6, PlacesInOrder
  <1>10. CASE state = "decoded"
    <2>1. pos = Len(wire) + 1 /\ pos = o.off[k] + 1 /\ msg = o.after[k]
      BY <1>5, <1>10 DEF CutReached, Reached
    <2>2. o.off[k] = Len(wire)
      <3>1. o.off[k] \in Nat
        BY <1>6 DEF IsOutline
      <3>2. Len(wire) \in Nat
        BY LenProperties DEF IInv, TypeInv, TypeOK
      <3> QED
        BY <2>1, <3>1, <3>2
    <2>3. k \in Boundaries
      BY <1>8, <2>2
    <2>4. ASSUME NEW h \in Boundaries PROVE msg = First(h)
      <3>1. h \in 0..7 /\ o.off[h] = o.off[k]
        BY <1>8, <2>2
      <3>2. h \in k..7 \/ k \in h..7
        BY <3>1
      <3>3. o.after[h] = o.after[k]
        BY <1>9, <3>1, <3>2
      <3> QED
        BY <1>7, <2>1, <3>1, <3>3
    <2>5. Boundaries # {} /\ \A h \in Boundaries : Decoded(First(h))
      BY <1>10, <2>3, <2>4 DEF Decoded
    <2> HIDE DEF First
    <2> QED
      BY <1>6, <2>5 DEF WholeFieldsOnly, First
  <1>11. CASE state = "refused"
    <2>1. k < 7 /\ o.off[k] < Len(wire) /\ Len(wire) < o.off[k + 1]
      BY <1>5, <1>11 DEF CutReached
    <2>2. ASSUME NEW h \in Boundaries PROVE FALSE
      <3>1. PICK l \in Nat : l = Len(wire)
        BY LenProperties DEF IInv, TypeInv, TypeOK
      <3>2. h \in 0..7 /\ o.off[h] = l
        BY <1>8, <3>1
      <3>3. CASE h \in 0..k
        <4>1. k \in h..7
          BY <3>3
        <4>2. o.off[h] <= o.off[k] /\ o.off[k] \in Nat
          BY <1>9, <3>2, <4>1
        <4> QED
          BY <2>1, <3>1, <3>2, <4>2
      <3>4. CASE h \in (k + 1)..7
        <4>1. k + 1 \in 0..7
          BY <2>1
        <4>2. o.off[k + 1] <= o.off[h] /\ o.off[k + 1] \in Nat
          BY <1>9, <3>4, <4>1
        <4> QED
          BY <2>1, <3>1, <3>2, <4>2
      <3> QED
        BY <3>2, <3>3, <3>4
    <2>3. Boundaries = {}
      BY <2>2
    <2> QED
      BY <1>6, <1>11, <2>3 DEF WholeFieldsOnly
  <1>12. state # "unread"
    BY <1>1, <1>2 DEF IInv, PayloadInv
  <1> QED
    BY <1>1, <1>10, <1>11, <1>12 DEF Ended
-----------------------------------------------------------------------------
(* What decode() makes of an encoding.                                     *)

\* decode() is the inverse of encode(), whatever the numbers and texts, for as long as
\* no status is negative: a frame that Session::send() makes is read as that frame, what
\* follows it stays in the buffer, and every member arrives as it was, those that the
\* encoder leaves out included.  It holds as well of a message that was decoded of
\* arbitrary bytes and is sent on.
THEOREM RoundTripHolds == ASSUME NoNegativeStatus PROVE Spec => []RoundTrip
  <1>1. IInv => RoundTrip
    <2>1. SUFFICES ASSUME IInv, how = "whole", Ended PROVE Decoded(origin[1]) /\ buffer = tail
      BY DEF RoundTrip
    <2> QED
      BY <2>1, WholeDecoded DEF Goal, Decoded
  <1> QED
    BY <1>1, SpecIInv, PTL

\* skip_field() steps over exactly the field: one of a later schema, of any number, wire
\* type and length, before, between or behind the others, leaves all of them as they were.
THEOREM ForwardCompatibility == ASSUME NoNegativeStatus PROVE Spec => []ForwardCompatible
  <1>1. IInv => ForwardCompatible
    <2>1. SUFFICES ASSUME IInv, how = "unknown", Ended PROVE Decoded(origin[1])
      BY DEF ForwardCompatible
    <2> QED
      BY <2>1, WholeDecoded DEF Goal, Decoded
  <1> QED
    BY <1>1, SpecIInv, PTL

\* decode() of a payload that was cut anywhere: it returns nothing where the cut is inside
\* a field, in its tag, its length or its value, and the fields before a cut between two;
\* never a part of a field, and never a field that was not there.
THEOREM CutPayloads == ASSUME NoNegativeStatus PROVE Spec => []WholeFieldsOnly
  BY CutDecoded, SpecIInv, PTL

\* decode() overwrites a member with every field of its number, so that an encoding behind
\* another in one payload is merged into it field by field.
THEOREM MergedPayloads == ASSUME NoNegativeStatus PROVE Spec => []LastValueWins
  <1>1. IInv => LastValueWins
    <2>1. SUFFICES ASSUME IInv, how = "merged", Ended
                   PROVE  Decoded(Merged(origin[1], origin[2]))
      BY DEF LastValueWins, Merged, Members
    <2> QED
      BY <2>1, WholeDecoded DEF Goal, Decoded
  <1> QED
    BY <1>1, SpecIInv, PTL
=============================================================================
