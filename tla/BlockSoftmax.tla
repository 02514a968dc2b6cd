---------------------------- MODULE BlockSoftmax ----------------------------
(***************************************************************************)
(* softmax_block_kernel: the threads of a block compute the softmax of one *)
(* row, with a reduction in shared memory for the largest value and then   *)
(* one in the same memory for the sum.  A thread runs by itself from one   *)
(* __syncthreads() to the next: the few threads of a run stand for threads *)
(* of different warps.                                                     *)
(*                                                                         *)
(* A value is known by what it was made of: its kind, and how often each   *)
(* column went into it (a maximum counts a column once).                   *)
(***************************************************************************)
EXTENDS Integers, Sequences

CONSTANTS BlockSize,  \* blockDim.x, a power of two (the benchmark refuses others)
          Cols        \* cols

VARIABLES
  pc,        \* each thread's place
  kind,      \* the reduction it is in, "max" or "sum"
  stride,    \* its stride in the loop that halves it
  smem,
  max_val,   \* each thread's max_val
  y          \* row_y: what each column's exponent is relative to, what it was divided by

vars == <<pc, kind, stride, smem, max_val, y>>

Threads == 0..(BlockSize - 1)
Columns == 0..(Cols - 1)
Share(t) == {c \in Columns : c % BlockSize = t}
Made(k, count(_)) == [kind |-> k, of |-> [c \in Columns |-> count(c)]]
Nothing == Made("none", LAMBDA c : 0)
Whole(k) == Made(k, LAMBDA c : 1)

Init ==
  /\ pc = [t \in Threads |-> "gather"] /\ kind = [t \in Threads |-> "max"]
  /\ stride = [t \in Threads |-> 0]
  /\ smem = [t \in Threads |-> Nothing]
  /\ max_val = [t \in Threads |-> Nothing]
  /\ y = [c \in Columns |-> <<>>]

\* The thread's own columns, into its cell; the second time also exp() into row_y.
Gather(t) ==
  /\ pc[t] = "gather" /\ pc' = [pc EXCEPT ![t] = "wait"]
  /\ smem' = [smem EXCEPT ![t] = Made(kind[t], LAMBDA c : IF c \in Share(t) THEN 1 ELSE 0)]
  /\ stride' = [stride EXCEPT ![t] = BlockSize \div 2]
  /\ y' = IF kind[t] = "max" THEN y
          ELSE [c \in Columns |-> IF c \in Share(t) THEN Append(y[c], max_val[t]) ELSE y[c]]
  /\ UNCHANGED <<kind, max_val>>

Combined(a, b) ==
  [a EXCEPT !.of = [c \in Columns |->
     CASE a.kind = "max" -> IF a.of[c] > b.of[c] THEN a.of[c] ELSE b.of[c]
       [] OTHER -> a.of[c] + b.of[c]]]

Fold(t) ==
  /\ pc[t] = "fold" /\ pc' = [pc EXCEPT ![t] = "wait"]
  /\ smem' = IF t < stride[t] THEN [smem EXCEPT ![t] = Combined(@, smem[t + stride[t]])] ELSE smem
  /\ stride' = [stride EXCEPT ![t] = @ \div 2]
  /\ UNCHANGED <<kind, max_val, y>>

\* __syncthreads(), in front of the loop's next turn or behind its last.
Sync ==
  /\ \A t \in Threads : pc[t] = "wait"
  /\ pc' = [t \in Threads |-> IF stride[t] > 0 THEN "fold" ELSE "read"]
  /\ UNCHANGED <<kind, stride, smem, max_val, y>>

ReadMax(t) ==
  /\ pc[t] = "read" /\ kind[t] = "max" /\ max_val' = [max_val EXCEPT ![t] = smem[0]]
  /\ pc' = [pc EXCEPT ![t] = "gather"] /\ kind' = [kind EXCEPT ![t] = "sum"]
  /\ UNCHANGED <<stride, smem, y>>

\* sum_val is smem[0]; the thread divides its columns by it.
Normalize(t) ==
  /\ pc[t] = "read" /\ kind[t] = "sum" /\ pc' = [pc EXCEPT ![t] = "done"]
  /\ y' = [c \in Columns |-> IF c \in Share(t) THEN Append(y[c], smem[0]) ELSE y[c]]
  /\ UNCHANGED <<kind, stride, smem, max_val>>

Next == Sync \/ \E t \in Threads : Gather(t) \/ Fold(t) \/ ReadMax(t) \/ Normalize(t)

Spec == Init /\ [][Next]_vars
-----------------------------------------------------------------------------
\* A finished column is exp(x - max) / sum, with the largest value of the whole row and
\* the sum over the whole row, as the reference the kernel is to agree with computes it.
AgreesWithReference ==
  \A c \in Columns : Len(y[c]) = 2 => y[c] = <<Whole("max"), Whole("sum")>>
=============================================================================
