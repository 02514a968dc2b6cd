---------------------------- MODULE MCFlashTiles ----------------------------
(* FlashTiles for TLC: warps of four lanes, three rows of Q and four of K  *)
(* and V to a tile, so that no size divides another, and calls of every    *)
(* length up to two tiles and of every width, the refused ones included.   *)
EXTENDS FlashTiles

CONSTANTS MaxS

\* Cells whose scores rise, fall, tie and change sign along the sequence.
Rising(r, d) == r + d
Mixed(r, d) == ((3 * r + 2 * d) % 5) - 2
Level(r, d) == 1

\* Each cell of V tells where it is, and is neither padding nor Junk.
Place(r, d) == 10 * r + d + 1

MCCalls ==
  UNION {LET Array(cell(_, _)) == [r \in 0..(s - 1) |-> [d \in 0..(n - 1) |-> cell(r, d)]]
         IN {[S |-> s, D |-> n, causal |-> c, Q |-> m[1], K |-> m[2],
               V |-> Array(Place)] :
               c \in BOOLEAN,
               m \in {<<Array(Level), Array(Rising)>>, <<Array(Mixed), Array(Rising)>>,
                      <<Array(Mixed), Array(Mixed)>>}} :
         s \in 0..MaxS, n \in 0..(MaxD + 1)}
=============================================================================
