----------------------------- MODULE FlashTiles -----------------------------
(***************************************************************************)
(* tiled_flash_attention_stand_hpc.cu: a block of BlockM warps, a row of   *)
(* the output for each, that reads the keys and values tile by tile into   *)
(* shared memory.  A step is one iteration of a loop by one warp, whose    *)
(* lanes take it together; __syncthreads() lets the warps go on when all   *)
(* have come to it.  Blocks share nothing: they run one after another.     *)
(*                                                                         *)
(* One head of one batch is modelled.  Operators named Mutant... are       *)
(* plausible mistakes in the definition below them.                        *)
(***************************************************************************)
EXTENDS OnlineSoftmax

CONSTANTS BlockM, BlockN,  \* rows of a tile of Q; of K and of V
          Calls,           \* calls of solve(): S, D, causal and the contents of Q, K and V
          NotWritten,
          Junk             \* what shared memory holds before it is written

ASSUME TileAssumption == BlockM \in Nat \ {0} /\ BlockN \in Nat \ {0}
ASSUME CallsAssumption ==   \* the caller's arrays have S rows of D numbers
  \A c \in Calls :
    /\ c.S \in Int /\ c.D \in Int /\ c.causal \in BOOLEAN
    /\ c.Q \in [0..(c.S - 1) -> [0..(c.D - 1) -> Int]]
    /\ c.K \in [0..(c.S - 1) -> [0..(c.D - 1) -> Int]]
    /\ c.V \in [0..(c.S - 1) -> [0..(c.D - 1) -> Int]]
ASSUME JunkAssumption == Junk \in Int

ScoreIn(c, q, k) == Product(c.Q[q], c.K[k], 0..(c.D - 1))

ASSUME ScoresAssumption ==  \* FLT_MAX is the largest number: m starts below every score
  \A c \in Calls : \A q, k \in 0..(c.S - 1) : -FltMax <= ScoreIn(c, q, k)

VARIABLES
  call,
  block,           \* blockIdx.x
  pc, at,          \* each warp's place, and its loop's counter there
  kv_block,        \* each warp's kv_block
  sQ, sK, sV,      \* the tiles in shared memory
  soft,            \* m, l and acc of the warp of each row
  O

vars == <<call, block, pc, at, kv_block, sQ, sK, sV, soft, O>>

Warps == 0..(BlockM - 1)
BlockDim == BlockM * WarpSize
Dims == 0..(call.D - 1)
Launched == call.S > 0 /\ call.D > 0 /\ call.D <= MaxD
Grid == IF Launched THEN (call.S + BlockM - 1) \div BlockM ELSE 0
Rows == IF Launched THEN 0..(call.S - 1) ELSE {}

QBlock == block * BlockM
QRow(w) == QBlock + w
ValidQ(w) == QRow(w) < call.S

MutantKvEnd(w) == IF call.causal THEN Min({call.S, QRow(w) + 1}) ELSE call.S
MutantCausalEnd(w) == IF call.causal THEN QBlock + BlockM ELSE call.S
KvEnd(w) == IF call.causal THEN Min({call.S, QBlock + BlockM}) ELSE call.S

Cells(rows) == (0..(rows - 1)) \X Dims
Everywhere(rows, x) == [c \in Cells(rows) |-> x]
Init ==
  /\ call \in Calls
  /\ block = 0
  /\ pc = [w \in Warps |-> IF Launched THEN "load Q" ELSE "done"]
  /\ at = [w \in Warps |-> 0] /\ kv_block = [w \in Warps |-> 0]
  /\ sQ = Everywhere(BlockM, Junk)
  /\ sK = Everywhere(BlockN, Junk) /\ sV = Everywhere(BlockN, Junk)
  /\ soft = [q \in Rows |-> Start(call.D)]
  /\ O = [q \in Rows |-> NotWritten]
-----------------------------------------------------------------------------
(* Loading.  The loops stride over a tile's cells by the threads of the    *)
(* block; lane 0 is the last of a warp to run out of them.                 *)

Share(w, rows) ==
  {idx \in {at[w] + w * WarpSize + lane : lane \in Lanes} : idx < rows * call.D}

\* The tile with those cells filled from the rows of src that begin at first.
Fill(tile, cells, first, src) ==
  [c \in DOMAIN tile |->
     IF c[1] * call.D + c[2] \notin cells THEN tile[c]
     ELSE IF first + c[1] < call.S THEN src[first + c[1]][c[2]] ELSE 0]

LoadQ(w) ==
  /\ pc[w] = "load Q" /\ Share(w, BlockM) # {}
  /\ sQ' = Fill(sQ, Share(w, BlockM), QBlock, call.Q)
  /\ at' = [at EXCEPT ![w] = @ + BlockDim]
  /\ UNCHANGED <<call, block, pc, kv_block, sK, sV, soft, O>>

LoadKV(w) ==
  /\ pc[w] = "load KV" /\ Share(w, BlockN) # {}
  /\ sK' = Fill(sK, Share(w, BlockN), kv_block[w], call.K)
  /\ sV' = Fill(sV, Share(w, BlockN), kv_block[w], call.V)
  /\ at' = [at EXCEPT ![w] = @ + BlockDim]
  /\ UNCHANGED <<call, block, pc, kv_block, sQ, soft, O>>

\* The warp has no cell left and waits at the barrier behind its loop.
Loaded(w) ==
  /\ \/ pc[w] = "load Q" /\ Share(w, BlockM) = {} /\ pc' = [pc EXCEPT ![w] = "Q loaded"]
     \/ pc[w] = "load KV" /\ Share(w, BlockN) = {} /\ pc' = [pc EXCEPT ![w] = "KV loaded"]
  /\ at' = [at EXCEPT ![w] = 0]
  /\ UNCHANGED <<call, block, kv_block, sQ, sK, sV, soft, O>>
-----------------------------------------------------------------------------
(* Scanning a tile, key by key.                                            *)

KeyRow(w) == kv_block[w] + at[w]
MutantSkipped(w) == ~ValidQ(w) \/ KeyRow(w) >= call.S \/ (call.causal /\ KeyRow(w) >= QRow(w))
Skipped(w) == ~ValidQ(w) \/ KeyRow(w) >= call.S \/ (call.causal /\ KeyRow(w) > QRow(w))

RowOf(tile, r) == [d \in Dims |-> tile[<<r, d>>]]
Step(w) == at' = [at EXCEPT ![w] = @ + 1]

ScanKey(w) ==
  /\ pc[w] = "scan" /\ at[w] < BlockN /\ ~Skipped(w) /\ Step(w)
  /\ soft' = [soft EXCEPT ![QRow(w)] =
       Update(@, Dot(RowOf(sQ, w), RowOf(sK, at[w]), call.D), RowOf(sV, at[w]))]
  /\ UNCHANGED <<call, block, pc, kv_block, sQ, sK, sV, O>>

SkipKey(w) ==
  /\ pc[w] = "scan" /\ at[w] < BlockN /\ Skipped(w) /\ Step(w)
  /\ UNCHANGED <<call, block, pc, kv_block, sQ, sK, sV, soft, O>>

Scanned(w) ==
  /\ pc[w] = "scan" /\ at[w] = BlockN
  /\ pc' = [pc EXCEPT ![w] = "scanned"] /\ at' = [at EXCEPT ![w] = 0]
  /\ UNCHANGED <<call, block, kv_block, sQ, sK, sV, soft, O>>

\* O = acc / l, for the warps that have a row.
Write(w) ==
  /\ pc[w] = "write" /\ pc' = [pc EXCEPT ![w] = "done"]
  /\ O' = IF ValidQ(w) THEN [O EXCEPT ![QRow(w)] = Quotients(soft[QRow(w)])] ELSE O
  /\ UNCHANGED <<call, block, at, kv_block, sQ, sK, sV, soft>>
-----------------------------------------------------------------------------
(* The barriers, and the end of a block.                                   *)

AllAt(place) == \A w \in Warps : pc[w] = place

QReady ==
  /\ AllAt("Q loaded") /\ pc' = [w \in Warps |-> "load KV"]
  /\ UNCHANGED <<call, block, at, kv_block, sQ, sK, sV, soft, O>>

KVReady ==
  /\ AllAt("KV loaded") /\ pc' = [w \in Warps |-> "scan"]
  /\ UNCHANGED <<call, block, at, kv_block, sQ, sK, sV, soft, O>>

AfterTile(w) == IF kv_block[w] + BlockN < KvEnd(w) THEN "load KV" ELSE "write"
MutantNextTile ==                         \* no barrier behind the scan
  /\ \E w \in Warps :
       /\ pc[w] = "scanned" /\ pc' = [pc EXCEPT ![w] = AfterTile(w)]
       /\ kv_block' = [kv_block EXCEPT ![w] = @ + BlockN]
  /\ UNCHANGED <<call, block, at, sQ, sK, sV, soft, O>>
NextTile ==
  /\ AllAt("scanned") /\ pc' = [w \in Warps |-> AfterTile(w)]
  /\ kv_block' = [w \in Warps |-> kv_block[w] + BlockN]
  /\ UNCHANGED <<call, block, at, sQ, sK, sV, soft, O>>

NextBlock ==
  /\ AllAt("done") /\ block + 1 < Grid /\ block' = block + 1
  /\ pc' = [w \in Warps |-> "load Q"] /\ kv_block' = [w \in Warps |-> 0]
  /\ sQ' = Everywhere(BlockM, Junk)
  /\ sK' = Everywhere(BlockN, Junk) /\ sV' = Everywhere(BlockN, Junk)
  /\ UNCHANGED <<call, at, soft, O>>

WarpStep(w) == \/ LoadQ(w) \/ LoadKV(w) \/ Loaded(w)
               \/ ScanKey(w) \/ SkipKey(w) \/ Scanned(w) \/ Write(w)
Next == QReady \/ KVReady \/ NextTile \/ NextBlock \/ \E w \in Warps : WarpStep(w)

Spec == Init /\ [][Next]_vars

\* The device runs every warp of a resident block, and every block of a grid.
FairSpec == Spec /\ WF_vars(Next)
-----------------------------------------------------------------------------
Places == {"load Q", "Q loaded", "load KV", "KV loaded", "scan", "scanned", "write", "done"}

\* Every variable has its type, and no warp scans beyond its tile or stands in a tile
\* beyond the sequence.
Sum == Seq([of : Int, exp : Int])
TypeOK ==
  /\ call \in Calls /\ block \in 0..Grid
  /\ pc \in [Warps -> Places] /\ at \in [Warps -> Nat] /\ kv_block \in [Warps -> Nat]
  /\ \A w \in Warps : pc[w] = "scan" => at[w] <= BlockN /\ kv_block[w] < call.S
  /\ sQ \in [Cells(BlockM) -> Int]
  /\ sK \in [Cells(BlockN) -> Int] /\ sV \in [Cells(BlockN) -> Int]
  /\ soft \in [Rows -> [m : Int, l : Sum, acc : [Dims -> Sum]]]
  /\ O \in [Rows -> [Dims -> [over : Sum, under : Sum]] \cup {NotWritten}]

\* What a warp still has to read is in shared memory: its row of Q, from the block it is
\* in, and the rows of K and V at its own kv_block, none left from the tile before and none
\* that a faster warp has put there.
TileIsCurrent ==
  \A w \in Warps, d \in Dims : pc[w] = "scan" =>
    /\ ValidQ(w) => sQ[<<w, d>>] = call.Q[QRow(w)][d]
    /\ \A r \in at[w]..(BlockN - 1) :
         kv_block[w] + r < call.S =>
           /\ sK[<<r, d>>] = call.K[kv_block[w] + r][d]
           /\ sV[<<r, d>>] = call.V[kv_block[w] + r][d]

\* A row of O is softmax(Q K^T / sqrt(D)) V: the values of exactly the keys the row may
\* see, each once, over the sum of the same weights, e^(score - the largest score).
Score(q, k) == ScoreIn(call, q, k)
Seen(q) == {k \in 0..(call.S - 1) : call.causal => k <= q}
Largest(q) == Max({Score(q, k) : k \in Seen(q)})
Softmax(q, of(_)) ==
  [i \in 1..Cardinality(Seen(q)) |-> [of |-> of(i - 1), exp |-> Score(q, i - 1) - Largest(q)]]
Attention ==
  \A q \in Rows : O[q] # NotWritten =>
    O[q] = [d \in Dims |-> [over |-> Softmax(q, LAMBDA k : call.V[k][d]),
                            under |-> Softmax(q, LAMBDA k : 1)]]

\* The kernel computes what the simple kernel computes, step for step: a key scanned is a
\* key scanned there, everything else is invisible, and a row is written once.
Simple == INSTANCE FlashSimple WITH k_row <- [q \in Rows |-> Len(soft[q].l)]
ImplementsSimple == Simple!Spec

\* The launch ends with every row written: no warp waits for ever at a barrier another
\* does not come to.
Completes == <>(\A q \in Rows : O[q] # NotWritten)
=============================================================================
