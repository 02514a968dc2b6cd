--------------------------- MODULE OnlineSoftmax ----------------------------
(***************************************************************************)
(* The arithmetic of the flash-attention kernels, one row of the output    *)
(* after another: a warp's dot product and the online softmax.             *)
(*                                                                         *)
(* Scores are integers, in units of 1 / sqrt(D); a sum of terms of * e^exp *)
(* is the sequence of its terms, in the order they are added.  Operators   *)
(* named Mutant... are plausible mistakes in the definition below them.    *)
(***************************************************************************)
EXTENDS Integers, Sequences, FiniteSetsExt

CONSTANTS WarpSize,  \* WARP_SIZE, a power of two
          MaxD,      \* MAX_D
          FltMax     \* FLT_MAX, more than any score

ASSUME WarpAssumption == WarpSize \in Nat \ {0} /\ MaxD \in Nat /\ FltMax \in Nat

ASSUME PowerAssumption ==      \* no divisor of a power of two is odd, except 1
  \A d, e \in 1..WarpSize : WarpSize = d * e => d = 1 \/ d % 2 = 0

Lanes == 0..(WarpSize - 1)
MaxDPerLane == (MaxD + WarpSize - 1) \div WarpSize

\* Each lane's share of the dimensions, in every loop over them.
LaneDims(lane, D) == {d \in {lane + t * WarpSize : t \in 0..(MaxDPerLane - 1)} : d < D}

\* __shfl_down_sync(): a lane with no lane that far above keeps its own value.
ShflDown(x, offset) == [lane \in Lanes |-> x[IF lane + offset < WarpSize THEN lane + offset ELSE lane]]

\* The loop's offsets, above them WarpSize itself: the divisors of a power of two.
Offsets == {o \in 1..WarpSize : \E e \in 1..WarpSize : WarpSize = o * e}

\* after[o]: the lanes' values once the turns of the loop have come down to offset o.
WarpReduceSum(x) ==
  LET after[o \in Offsets] ==
        IF o = WarpSize THEN x
        ELSE [lane \in Lanes |-> after[2 * o][lane] + ShflDown(after[2 * o], o)[lane]]
  IN after[1][0]

\* The score of a query against a key, both given cell by cell: each lane's part of the
\* product, then the sum over the lanes.
Product(q, k, dims) == MapThenSumSet(LAMBDA d : q[d] * k[d], dims)
Dot(q, k, D) == WarpReduceSum([lane \in Lanes |-> Product(q, k, LaneDims(lane, D))])
-----------------------------------------------------------------------------
(* The state of the softmax: the largest score, the denominator and the    *)
(* numerators, both relative to that score.                                *)

Start(D) == [m |-> -FltMax, l |-> <<>>, acc |-> [d \in 0..(D - 1) |-> <<>>]]

Scale(sum, by) == [i \in DOMAIN sum |-> [sum[i] EXCEPT !.exp = @ + by]]
AddTerm(sum, of, exp) == Append(sum, [of |-> of, exp |-> exp])

MutantUpdate(s, score, v) ==              \* l keeps the old base
  LET m_new == Max({s.m, score}) IN
  [m   |-> m_new,
   l   |-> AddTerm(s.l, 1, score - m_new),
   acc |-> [d \in DOMAIN s.acc |-> AddTerm(Scale(s.acc[d], s.m - m_new), v[d], score - m_new)]]
Update(s, score, v) ==
  LET m_new == Max({s.m, score}) IN
  [m   |-> m_new,
   l   |-> AddTerm(Scale(s.l, s.m - m_new), 1, score - m_new),
   acc |-> [d \in DOMAIN s.acc |-> AddTerm(Scale(s.acc[d], s.m - m_new), v[d], score - m_new)]]

Quotients(s) == [d \in DOMAIN s.acc |-> [over |-> s.acc[d], under |-> s.l]]
=============================================================================
