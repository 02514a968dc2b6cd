-------------------------- MODULE FlashTilesProofs --------------------------
(***************************************************************************)
(* Proofs about FlashTiles, for every size of a warp and of a tile and for *)
(* every set of calls.                                                     *)
(***************************************************************************)
EXTENDS FlashTiles, OnlineSoftmaxProofs, SequenceTheorems, TLAPS

(* Products and remainders, of which the provers know little.              *)

LEMMA ProductInNat == ASSUME NEW a \in Nat, NEW b \in Nat PROVE a * b \in Nat
  OBVIOUS

LEMMA ProductMonotonic ==
  ASSUME NEW a \in Int, NEW b \in Int, NEW n \in Nat, a <= b PROVE a * n <= b * n
  <1>1. (b - a) * n >= 0
    <2>1. b - a \in Nat
      OBVIOUS
    <2> QED
      BY <2>1, ProductInNat
  <1> QED
    BY <1>1

LEMMA Division ==
  ASSUME NEW i \in Nat, NEW n \in Nat \ {0}
  PROVE  \E t \in Nat, r \in 0..(n - 1) : i = t * n + r
  <1>1. i \div n \in Int
    OBVIOUS
  <1>2. i % n \in 0..(n - 1)
    OBVIOUS
  <1>3. i = n * (i \div n) + (i % n)
    OBVIOUS
  <1>4. i \div n >= 0
    OBVIOUS
  <1>5. PICK t \in Nat : t = i \div n
    BY <1>1, <1>4
  <1>6. PICK r \in 0..(n - 1) : r = i % n
    BY <1>2
  <1>7. i = t * n + r
    BY <1>3, <1>5, <1>6
  <1> QED
    BY <1>7

LEMMA MinOfTwo ==
  ASSUME NEW a \in Int, NEW b \in Int PROVE Min({a, b}) = IF a <= b THEN a ELSE b
  <1>1. \E x \in {a, b} : \A y \in {a, b} : x <= y
    OBVIOUS
  <1>2. /\ Min({a, b}) \in {a, b}
        /\ \A y \in {a, b} : Min({a, b}) <= y
    BY <1>1 DEF Min
  <1> QED
    BY <1>2
-----------------------------------------------------------------------------
(* How the loops of a block's threads cover a tile.                        *)

\* The cell that lane of warp w takes in the t-th iteration.
CellAt(t, w, lane) == t * BlockDim + w * WarpSize + lane

LEMMA Sizes ==
  /\ WarpSize \in Nat \ {0} /\ BlockM \in Nat \ {0} /\ BlockN \in Nat \ {0}
  /\ BlockDim \in Nat \ {0}
  /\ \A w \in Warps : w \in Nat /\ w * WarpSize \in Nat
  <1>1. WarpSize \in Nat \ {0} /\ BlockM \in Nat \ {0} /\ BlockN \in Nat \ {0}
    BY WarpAssumption, TileAssumption
  <1>2. BlockDim \in Nat /\ 1 * WarpSize <= BlockDim
    BY <1>1, ProductInNat, ProductMonotonic DEF BlockDim
  <1>3. \A w \in Warps : w \in Nat /\ w * WarpSize \in Nat
    BY <1>1, ProductInNat DEF Warps
  <1> QED
    BY <1>1, <1>2, <1>3

(* Every cell is a thread's.                                               *)
LEMMA EveryCellHasAThread ==
  ASSUME NEW i \in Nat
  PROVE  \E w \in Warps, t \in Nat, lane \in Lanes : i = CellAt(t, w, lane)
  <1>1. PICK a \in Nat, lane \in 0..(WarpSize - 1) : i = a * WarpSize + lane
    BY Division, Sizes
  <1>2. PICK t \in Nat, w \in 0..(BlockM - 1) : a = t * BlockM + w
    BY Division, Sizes
  <1>3. a * WarpSize = t * (BlockM * WarpSize) + w * WarpSize
    BY <1>2, Sizes
  <1> QED
    BY <1>1, <1>2, <1>3 DEF CellAt, BlockDim, Warps, Lanes

(* A cell a warp comes to with its next iteration is in its share.         *)
LEMMA NextIteration ==
  ASSUME NEW a \in Nat, \E t \in Nat : a = t * BlockDim, NEW w \in Warps,
         NEW t \in Nat, NEW lane \in Lanes, t * BlockDim < a + BlockDim, ~(t * BlockDim < a)
  PROVE  CellAt(t, w, lane) = a + w * WarpSize + lane
  <1>1. PICK t0 \in Nat : a = t0 * BlockDim
    OBVIOUS
  <1>2. t * BlockDim \in Nat /\ (t0 + 1) * BlockDim = a + BlockDim
    BY <1>1, Sizes, ProductInNat
  <1>3. t <= t0
    <2>1. SUFFICES ASSUME t0 + 1 <= t PROVE FALSE
      OBVIOUS
    <2>2. (t0 + 1) * BlockDim <= t * BlockDim
      BY <2>1, Sizes, ProductMonotonic
    <2> QED
      BY <2>2, <1>2, Sizes
  <1>4. t * BlockDim <= t0 * BlockDim
    BY <1>3, Sizes, ProductMonotonic
  <1>5. t * BlockDim = a
    BY <1>1, <1>2, <1>4
  <1> QED
    BY <1>5 DEF CellAt

(* A warp that has no share left has come to all its cells.                *)
LEMMA NoneLeft ==
  ASSUME NEW a \in Nat, NEW size \in Int, NEW w \in Warps,
         {idx \in {a + w * WarpSize + lane : lane \in Lanes} : idx < size} = {},
         NEW t \in Nat, NEW lane \in Lanes, CellAt(t, w, lane) < size
  PROVE  t * BlockDim < a
  <1>1. 0 \in Lanes /\ lane \in Nat
    BY Sizes DEF Lanes
  <1>2. ~(a + w * WarpSize + 0 < size)
    BY <1>1
  <1>3. t * BlockDim \in Nat /\ w * WarpSize \in Nat
    BY Sizes, ProductInNat
  <1> QED
    BY <1>1, <1>2, <1>3 DEF CellAt

LEMMA CellInTile ==
  ASSUME NEW rows \in Nat, NEW D \in Nat, NEW r \in 0..(rows - 1), NEW d \in 0..(D - 1)
  PROVE  r * D + d \in Nat /\ r * D + d < rows * D
  <1>1. r * D <= (rows - 1) * D
    BY ProductMonotonic
  <1>2. (rows - 1) * D = rows * D - D
    OBVIOUS
  <1>3. r * D \in Nat /\ rows * D \in Nat
    BY ProductInNat
  <1> QED
    BY <1>1, <1>2, <1>3
-----------------------------------------------------------------------------
(* Where the block and its warps are.                                      *)

\* The warps are between the same two barriers.
Stages == {{"load Q", "Q loaded"}, {"load KV", "KV loaded"}, {"scan", "scanned"}, {"write", "done"}}
Together ==
  /\ \E stage \in Stages : \A w \in Warps : pc[w] \in stage
  /\ \A v, w \in Warps : kv_block[v] = kv_block[w]

\* A warp's counters, by its place.
Counters(w) ==
  /\ pc[w] \in {"Q loaded", "KV loaded", "scanned", "write", "done"} => at[w] = 0
  /\ pc[w] = "scan" => at[w] <= BlockN
  /\ pc[w] \in {"load Q", "load KV"} => \E t \in Nat : at[w] = t * BlockDim
  /\ pc[w] \in {"load Q", "Q loaded"} => kv_block[w] = 0
  /\ pc[w] \in {"load KV", "KV loaded", "scan", "scanned"} => kv_block[w] < KvEnd(w)
  /\ pc[w] \in {"write", "done"} /\ Launched => KvEnd(w) <= kv_block[w]
  /\ pc[w] # "done" => Launched

Shapes ==
  /\ call \in Calls /\ block \in 0..Grid
  /\ pc \in [Warps -> Places] /\ at \in [Warps -> Nat] /\ kv_block \in [Warps -> Nat]
  /\ DOMAIN sQ = Cells(BlockM) /\ DOMAIN sK = Cells(BlockN) /\ DOMAIN sV = Cells(BlockN)
  /\ DOMAIN soft = Rows /\ DOMAIN O = Rows

PlaceInv == Shapes /\ Together /\ \A w \in Warps : Counters(w)

LEMMA CallType ==
  ASSUME NEW c \in Calls
  PROVE  /\ c.S \in Int /\ c.D \in Int /\ c.causal \in BOOLEAN
         /\ c.Q \in [0..(c.S - 1) -> [0..(c.D - 1) -> Int]]
         /\ c.K \in [0..(c.S - 1) -> [0..(c.D - 1) -> Int]]
         /\ c.V \in [0..(c.S - 1) -> [0..(c.D - 1) -> Int]]
  BY CallsAssumption

LEMMA GridInNat == call \in Calls => Grid \in Nat
  <1> SUFFICES ASSUME call \in Calls, Launched PROVE (call.S + BlockM - 1) \div BlockM \in Nat
    BY DEF Grid
  <1>1. call.S \in Nat /\ BlockM \in Nat \ {0}
    BY CallType, Sizes DEF Launched
  <1>2. PICK n \in Nat : n = call.S + BlockM - 1
    BY <1>1
  <1>3. n \div BlockM \in Nat
    BY <1>1, <1>2
  <1> QED
    BY <1>2, <1>3

LEMMA KvEndType ==
  ASSUME Shapes, Launched, NEW w \in Warps
  PROVE  /\ QBlock \in Nat /\ KvEnd(w) \in Nat /\ 0 < KvEnd(w) /\ KvEnd(w) <= call.S
         /\ KvEnd(w) = IF call.causal /\ QBlock + BlockM < call.S THEN QBlock + BlockM ELSE call.S
  <1>1. call.S \in Nat /\ 0 < call.S /\ call.causal \in BOOLEAN /\ block \in Nat
    BY CallType, GridInNat DEF Shapes, Launched
  <1>2. QBlock \in Nat
    BY <1>1, Sizes, ProductInNat DEF QBlock
  <1>3. Min({call.S, QBlock + BlockM}) = IF call.S <= QBlock + BlockM THEN call.S ELSE QBlock + BlockM
    BY <1>1, <1>2, Sizes, MinOfTwo
  <1> QED
    BY <1>1, <1>2, <1>3, Sizes DEF KvEnd

LEMMA PlaceInit == Init => PlaceInv
  <1> SUFFICES ASSUME Init PROVE PlaceInv
    OBVIOUS
  <1>1. Grid \in Nat
    BY GridInNat DEF Init
  <1>2. Shapes
    <2>1. call \in Calls /\ at \in [Warps -> Nat] /\ kv_block \in [Warps -> Nat]
      BY DEF Init
    <2>0. block \in 0..Grid
      <3>1. block = 0
        BY DEF Init
      <3> QED
        BY <3>1, <1>1
    <2>2. pc \in [Warps -> Places]
      BY DEF Init, Places
    <2>3. DOMAIN sQ = Cells(BlockM) /\ DOMAIN sK = Cells(BlockN) /\ DOMAIN sV = Cells(BlockN)
      BY DEF Init, Everywhere, Cells
    <2>4. DOMAIN soft = Rows /\ DOMAIN O = Rows
      BY DEF Init
    <2> QED
      BY <2>0, <2>1, <2>2, <2>3, <2>4 DEF Shapes
  <1>3. Together
    <2>1. CASE Launched
      <3>1. \A w \in Warps : pc[w] \in {"load Q", "Q loaded"}
        BY <2>1 DEF Init
      <3> QED
        BY <3>1 DEF Init, Together, Stages
    <2>2. CASE ~Launched
      <3>1. \A w \in Warps : pc[w] \in {"write", "done"}
        BY <2>2 DEF Init
      <3> QED
        BY <3>1 DEF Init, Together, Stages
    <2> QED
      BY <2>1, <2>2
  <1>4. ASSUME NEW w \in Warps PROVE Counters(w)
    <2>1. at[w] = 0 /\ kv_block[w] = 0 /\ pc[w] = IF Launched THEN "load Q" ELSE "done"
      BY DEF Init
    <2>2. 0 = 0 * BlockDim /\ 0 \in Nat
      BY Sizes
    <2> QED
      BY <2>1, <2>2 DEF Counters
  <1> QED
    BY <1>2, <1>3, <1>4 DEF PlaceInv

\* A step in which only warp w moves, and stays between its barriers.
LEMMA OneMoves ==
  ASSUME PlaceInv, NEW w \in Warps,
         UNCHANGED <<call, block, kv_block>>,
         pc' \in [Warps -> Places], at' \in [Warps -> Nat],
         \A v \in Warps \ {w} : pc'[v] = pc[v] /\ at'[v] = at[v],
         \A stage \in Stages : pc[w] \in stage => pc'[w] \in stage,
         UNCHANGED <<DOMAIN sQ, DOMAIN sK, DOMAIN sV, DOMAIN soft, DOMAIN O>>,
         Counters(w)'
  PROVE  PlaceInv'
  <1>1. Shapes'
    BY DEF PlaceInv, Shapes, Grid, Rows, Launched, Cells, Dims
  <1>2. Together'
    <2>1. PICK stage \in Stages : \A v \in Warps : pc[v] \in stage
      BY DEF PlaceInv, Together
    <2>2. \A v \in Warps : pc'[v] \in stage
      BY <2>1
    <2> QED
      BY <2>2 DEF PlaceInv, Together
  <1>3. ASSUME NEW v \in Warps \ {w} PROVE Counters(v)'
    <2>1. Counters(v)
      BY <1>3 DEF PlaceInv
    <2>2. pc'[v] = pc[v] /\ at'[v] = at[v] /\ kv_block'[v] = kv_block[v]
      BY <1>3
    <2>3. KvEnd(v)' = KvEnd(v) /\ (Launched' <=> Launched)
      BY DEF KvEnd, QBlock, Launched
    <2> QED
      BY <2>1, <2>2, <2>3 DEF Counters
  <1> QED
    BY <1>1, <1>2, <1>3 DEF PlaceInv

LEMMA SameKvEnd ==
  ASSUME UNCHANGED <<call, block>>
  PROVE  (Launched' <=> Launched) /\ \A w \in Warps : KvEnd(w)' = KvEnd(w)
  BY DEF KvEnd, QBlock, Launched

LEMMA LoadPlace == ASSUME PlaceInv, NEW w \in Warps, LoadQ(w) \/ LoadKV(w) PROVE PlaceInv'
  <1>1. /\ pc[w] \in {"load Q", "load KV"} /\ UNCHANGED <<call, block, pc, kv_block, soft, O>>
        /\ at' = [at EXCEPT ![w] = at[w] + BlockDim]
        /\ UNCHANGED <<DOMAIN sQ, DOMAIN sK, DOMAIN sV>>
    <2>1. CASE LoadQ(w)
      BY <2>1 DEF LoadQ, Fill
    <2>2. CASE LoadKV(w)
      <3>1. DOMAIN sK' = DOMAIN sK
        BY <2>2 DEF LoadKV, Fill
      <3>2. DOMAIN sV' = DOMAIN sV
        BY <2>2 DEF LoadKV, Fill
      <3> QED
        BY <2>2, <3>1, <3>2 DEF LoadKV
    <2> QED
      BY <2>1, <2>2
  <1>2. at \in [Warps -> Nat] /\ pc \in [Warps -> Places] /\ Counters(w)
    BY DEF PlaceInv, Shapes
  <1>3. at' \in [Warps -> Nat] /\ at'[w] = at[w] + BlockDim
    <2>1. at[w] + BlockDim \in Nat
      BY <1>2, Sizes
    <2> QED
      BY <1>1, <1>2, <2>1
  <1>4. \E t \in Nat : at'[w] = t * BlockDim
    <2>1. PICK t \in Nat : at[w] = t * BlockDim
      BY <1>1, <1>2 DEF Counters
    <2>2. at'[w] = (t + 1) * BlockDim
      BY <1>3, <2>1, Sizes
    <2> QED
      BY <2>2
  <1>5. Counters(w)'
    BY <1>1, <1>2, <1>4, SameKvEnd DEF Counters
  <1> QED
    BY <1>1, <1>2, <1>3, <1>5, OneMoves

LEMMA LoadedPlace == ASSUME PlaceInv, NEW w \in Warps, Loaded(w) PROVE PlaceInv'
  <1>1. /\ \/ pc[w] = "load Q" /\ pc' = [pc EXCEPT ![w] = "Q loaded"]
           \/ pc[w] = "load KV" /\ pc' = [pc EXCEPT ![w] = "KV loaded"]
        /\ at' = [at EXCEPT ![w] = 0]
        /\ UNCHANGED <<call, block, kv_block, sQ, sK, sV, soft, O>>
    BY DEF Loaded
  <1>2. at \in [Warps -> Nat] /\ pc \in [Warps -> Places] /\ Counters(w)
    BY DEF PlaceInv, Shapes
  <1>3. at' \in [Warps -> Nat] /\ at'[w] = 0 /\ pc' \in [Warps -> Places]
    BY <1>1, <1>2 DEF Places
  <1>4. \A stage \in Stages : pc[w] \in stage => pc'[w] \in stage
    BY <1>1, <1>2 DEF Stages
  <1>5. Counters(w)'
    BY <1>1, <1>2, <1>3, SameKvEnd DEF Counters
  <1> QED
    BY <1>1, <1>2, <1>3, <1>4, <1>5, OneMoves

LEMMA ScanPlace ==
  ASSUME PlaceInv, NEW w \in Warps, ScanKey(w) \/ SkipKey(w) PROVE PlaceInv'
  <1>1. /\ pc[w] = "scan" /\ at[w] < BlockN /\ at' = [at EXCEPT ![w] = at[w] + 1]
        /\ UNCHANGED <<call, block, pc, kv_block, sQ, sK, sV, O>>
        /\ DOMAIN soft' = DOMAIN soft
    BY DEF ScanKey, SkipKey, Step
  <1>2. at \in [Warps -> Nat] /\ pc \in [Warps -> Places] /\ Counters(w)
    BY DEF PlaceInv, Shapes
  <1>3. at' \in [Warps -> Nat] /\ at'[w] = at[w] + 1 /\ at'[w] <= BlockN
    BY <1>1, <1>2, Sizes
  <1>5. Counters(w)'
    BY <1>1, <1>2, <1>3, SameKvEnd DEF Counters
  <1> QED
    BY <1>1, <1>2, <1>3, <1>5, OneMoves

LEMMA ScannedPlace == ASSUME PlaceInv, NEW w \in Warps, Scanned(w) PROVE PlaceInv'
  <1>1. /\ pc[w] = "scan" /\ pc' = [pc EXCEPT ![w] = "scanned"] /\ at' = [at EXCEPT ![w] = 0]
        /\ UNCHANGED <<call, block, kv_block, sQ, sK, sV, soft, O>>
    BY DEF Scanned
  <1>2. at \in [Warps -> Nat] /\ pc \in [Warps -> Places] /\ Counters(w)
    BY DEF PlaceInv, Shapes
  <1>3. at' \in [Warps -> Nat] /\ at'[w] = 0 /\ pc' \in [Warps -> Places] /\ pc'[w] = "scanned"
    BY <1>1, <1>2 DEF Places
  <1>4. \A stage \in Stages : pc[w] \in stage => pc'[w] \in stage
    BY <1>1, <1>3 DEF Stages
  <1>5. Counters(w)'
    BY <1>1, <1>2, <1>3, SameKvEnd DEF Counters
  <1> QED
    BY <1>1, <1>2, <1>3, <1>4, <1>5, OneMoves

LEMMA WritePlace == ASSUME PlaceInv, NEW w \in Warps, Write(w) PROVE PlaceInv'
  <1>1. /\ pc[w] = "write" /\ pc' = [pc EXCEPT ![w] = "done"]
        /\ UNCHANGED <<call, block, at, kv_block, sQ, sK, sV, soft>>
        /\ DOMAIN O' = DOMAIN O
    BY DEF Write
  <1>2. at \in [Warps -> Nat] /\ pc \in [Warps -> Places] /\ Counters(w)
    BY DEF PlaceInv, Shapes
  <1>3. pc' \in [Warps -> Places] /\ pc'[w] = "done"
    BY <1>1, <1>2 DEF Places
  <1>4. \A stage \in Stages : pc[w] \in stage => pc'[w] \in stage
    BY <1>1, <1>3 DEF Stages
  <1>5. Counters(w)'
    BY <1>1, <1>2, <1>3, SameKvEnd DEF Counters
  <1> QED
    BY <1>1, <1>2, <1>3, <1>4, <1>5, OneMoves

\* A barrier that every warp has come to.
LEMMA AtBarrier ==
  ASSUME PlaceInv, NEW place \in {"Q loaded", "KV loaded", "scanned", "done"}, AllAt(place)
  PROVE  \A w \in Warps : at[w] = 0
  BY DEF PlaceInv, Counters, AllAt

LEMMA QReadyPlace == PlaceInv /\ QReady => PlaceInv'
  <1> SUFFICES ASSUME PlaceInv, QReady PROVE PlaceInv'
    OBVIOUS
  <1>1. /\ AllAt("Q loaded") /\ pc' = [w \in Warps |-> "load KV"]
        /\ UNCHANGED <<call, block, at, kv_block, sQ, sK, sV, soft, O>>
    BY DEF QReady
  <1>2. Shapes'
    <2>1. pc' \in [Warps -> Places]
      BY <1>1 DEF Places
    <2> QED
      BY <1>1, <2>1 DEF PlaceInv, Shapes, Grid, Rows, Launched, Cells, Dims
  <1>3. Together'
    <2>1. \A w \in Warps : pc'[w] \in {"load KV", "KV loaded"}
      BY <1>1
    <2> QED
      BY <1>1, <2>1 DEF PlaceInv, Together, Stages
  <1>4. ASSUME NEW w \in Warps PROVE Counters(w)'
    <2>1. pc[w] = "Q loaded" /\ at[w] = 0 /\ Counters(w)
      BY <1>1, AtBarrier DEF AllAt, PlaceInv
    <2>2. kv_block[w] = 0 /\ Launched
      BY <2>1 DEF Counters
    <2>3. 0 < KvEnd(w) /\ 0 = 0 * BlockDim
      BY <2>2, KvEndType, Sizes DEF PlaceInv
    <2>4. pc'[w] = "load KV" /\ at'[w] = 0 /\ kv_block'[w] = 0
      BY <1>1, <2>1, <2>2
    <2> QED
      BY <1>1, <2>2, <2>3, <2>4, SameKvEnd DEF Counters
  <1> QED
    BY <1>2, <1>3, <1>4 DEF PlaceInv

LEMMA KVReadyPlace == PlaceInv /\ KVReady => PlaceInv'
  <1> SUFFICES ASSUME PlaceInv, KVReady PROVE PlaceInv'
    OBVIOUS
  <1>1. /\ AllAt("KV loaded") /\ pc' = [w \in Warps |-> "scan"]
        /\ UNCHANGED <<call, block, at, kv_block, sQ, sK, sV, soft, O>>
    BY DEF KVReady
  <1>2. Shapes'
    <2>1. pc' \in [Warps -> Places]
      BY <1>1 DEF Places
    <2> QED
      BY <1>1, <2>1 DEF PlaceInv, Shapes, Grid, Rows, Launched, Cells, Dims
  <1>3. Together'
    <2>1. \A w \in Warps : pc'[w] \in {"scan", "scanned"}
      BY <1>1
    <2> QED
      BY <1>1, <2>1 DEF PlaceInv, Together, Stages
  <1>4. ASSUME NEW w \in Warps PROVE Counters(w)'
    <2>1. pc[w] = "KV loaded" /\ at[w] = 0 /\ Counters(w)
      BY <1>1, AtBarrier DEF AllAt, PlaceInv
    <2>2. pc'[w] = "scan" /\ at'[w] = 0 /\ kv_block'[w] = kv_block[w]
      BY <1>1, <2>1
    <2>3. 0 <= BlockN
      BY Sizes
    <2> QED
      BY <1>1, <2>1, <2>2, <2>3, SameKvEnd DEF Counters
  <1> QED
    BY <1>2, <1>3, <1>4 DEF PlaceInv

LEMMA NextTilePlace == PlaceInv /\ NextTile => PlaceInv'
  <1> SUFFICES ASSUME PlaceInv, NextTile PROVE PlaceInv'
    OBVIOUS
  <1>1. /\ AllAt("scanned") /\ pc' = [w \in Warps |-> AfterTile(w)]
        /\ kv_block' = [w \in Warps |-> kv_block[w] + BlockN]
        /\ UNCHANGED <<call, block, at, sQ, sK, sV, soft, O>>
    BY DEF NextTile
  <1>2. kv_block \in [Warps -> Nat] /\ \A v, w \in Warps : kv_block[v] = kv_block[w]
    BY DEF PlaceInv, Shapes, Together
  <1>3. Shapes'
    <2>1. pc' \in [Warps -> Places]
      BY <1>1 DEF AfterTile, Places
    <2>2. kv_block' \in [Warps -> Nat]
      BY <1>1, <1>2, Sizes
    <2> QED
      BY <1>1, <2>1, <2>2 DEF PlaceInv, Shapes, Grid, Rows, Launched, Cells, Dims
  <1>4. Together'
    <2>1. \A v, w \in Warps : KvEnd(v) = KvEnd(w)
      BY DEF KvEnd
    <2>2. \A v, w \in Warps : AfterTile(v) = AfterTile(w)
      BY <1>2, <2>1 DEF AfterTile
    <2>3. \/ \A w \in Warps : pc'[w] \in {"load KV", "KV loaded"}
          \/ \A w \in Warps : pc'[w] \in {"write", "done"}
      BY <1>1, <2>2 DEF AfterTile
    <2>4. \A v, w \in Warps : kv_block'[v] = kv_block'[w]
      BY <1>1, <1>2
    <2> QED
      BY <2>3, <2>4 DEF Together, Stages
  <1>5. ASSUME NEW w \in Warps PROVE Counters(w)'
    <2>1. pc[w] = "scanned" /\ at[w] = 0 /\ Counters(w)
      BY <1>1, AtBarrier DEF AllAt, PlaceInv
    <2>2. Launched /\ 0 = 0 * BlockDim
      BY <2>1, Sizes DEF Counters
    <2>3. KvEnd(w) \in Nat /\ kv_block[w] + BlockN \in Nat
      BY <1>2, <2>2, KvEndType, Sizes DEF PlaceInv
    <2>4. pc'[w] = AfterTile(w) /\ at'[w] = 0 /\ kv_block'[w] = kv_block[w] + BlockN
      BY <1>1, <2>1
    <2>5. CASE kv_block[w] + BlockN < KvEnd(w)
      <3>1. pc'[w] = "load KV"
        BY <2>4, <2>5 DEF AfterTile
      <3>2. kv_block'[w] < KvEnd(w)' /\ Launched'
        BY <1>1, <2>2, <2>4, <2>5, SameKvEnd
      <3>3. \E t \in Nat : at'[w] = t * BlockDim
        BY <2>2, <2>4
      <3> QED
        BY <3>1, <3>2, <3>3 DEF Counters
    <2>6. CASE ~(kv_block[w] + BlockN < KvEnd(w))
      <3>1. pc'[w] = "write" /\ KvEnd(w) <= kv_block[w] + BlockN
        BY <2>3, <2>4, <2>6 DEF AfterTile
      <3> QED
        BY <1>1, <2>2, <2>4, <3>1, SameKvEnd DEF Counters
    <2> QED
      BY <2>5, <2>6
  <1> QED
    BY <1>3, <1>4, <1>5 DEF PlaceInv

LEMMA NextBlockPlace == PlaceInv /\ NextBlock => PlaceInv' /\ Launched
  <1> SUFFICES ASSUME PlaceInv, NextBlock PROVE PlaceInv' /\ Launched
    OBVIOUS
  <1>1. /\ AllAt("done") /\ block + 1 < Grid /\ block' = block + 1
        /\ pc' = [w \in Warps |-> "load Q"] /\ kv_block' = [w \in Warps |-> 0]
        /\ sQ' = Everywhere(BlockM, Junk)
        /\ sK' = Everywhere(BlockN, Junk) /\ sV' = Everywhere(BlockN, Junk)
        /\ UNCHANGED <<call, at, soft, O>>
    BY DEF NextBlock
  <1>2. Grid \in Nat /\ block \in Nat
    BY GridInNat DEF PlaceInv, Shapes
  <1>0. block + 1 < Grid /\ block' = block + 1
    BY <1>1
  <1>3. Launched
    <2>1. Grid # 0
      BY <1>0, <1>2
    <2> QED
      BY <2>1 DEF Grid
  <1>4. Shapes'
    <2>1. pc' \in [Warps -> Places] /\ kv_block' \in [Warps -> Nat]
      BY <1>1 DEF Places
    <2>2. Grid' = Grid
      BY <1>1 DEF Grid, Launched
    <2>3. block' \in 0..Grid
      BY <1>0, <1>2
    <2>4. /\ DOMAIN sQ' = Cells(BlockM)' /\ DOMAIN sK' = Cells(BlockN)'
          /\ DOMAIN sV' = Cells(BlockN)'
      BY <1>1 DEF Everywhere, Cells, Dims
    <2> QED
      BY <1>1, <2>1, <2>2, <2>3, <2>4 DEF PlaceInv, Shapes, Rows, Launched
  <1>5. Together'
    <2>1. \A w \in Warps : pc'[w] \in {"load Q", "Q loaded"}
      BY <1>1
    <2>2. \A v, w \in Warps : kv_block'[v] = kv_block'[w]
      BY <1>1
    <2> QED
      BY <2>1, <2>2 DEF Together, Stages
  <1>6. ASSUME NEW w \in Warps PROVE Counters(w)'
    <2>1. at'[w] = 0 /\ pc'[w] = "load Q" /\ kv_block'[w] = 0
      BY <1>1, AtBarrier
    <2>2. Launched'
      BY <1>1, <1>3 DEF Launched
    <2>3. 0 = 0 * BlockDim
      BY Sizes
    <2> QED
      BY <2>1, <2>2, <2>3 DEF Counters
  <1> QED
    BY <1>3, <1>4, <1>5, <1>6 DEF PlaceInv

LEMMA PlaceStep == PlaceInv /\ [Next]_vars => PlaceInv'
  <1> SUFFICES ASSUME PlaceInv, [Next]_vars PROVE PlaceInv'
    OBVIOUS
  <1>1. CASE UNCHANGED vars
    BY <1>1 DEF vars, PlaceInv, Shapes, Together, Counters, Grid, Rows, Launched, Cells, Dims,
      KvEnd, QBlock
  <1>2. ASSUME NEW w \in Warps, WarpStep(w) PROVE PlaceInv'
    BY <1>2, LoadPlace, LoadedPlace, ScanPlace, ScannedPlace, WritePlace DEF WarpStep
  <1> QED
    BY <1>1, <1>2, QReadyPlace, KVReadyPlace, NextTilePlace, NextBlockPlace DEF Next

LEMMA PlaceHolds == Spec => []PlaceInv
  BY PlaceInit, PlaceStep, PTL DEF Spec
-----------------------------------------------------------------------------
(* What is in the tiles.                                                   *)

Index(c) == c[1] * call.D + c[2]

\* The cells that are warp w's to load, and those of them it has come to.
Own(w, c) == \E t \in Nat, lane \in Lanes : Index(c) = CellAt(t, w, lane)
Came(w, c) == \E t \in Nat, lane \in Lanes : t * BlockDim < at[w] /\ Index(c) = CellAt(t, w, lane)

\* What belongs in a cell.
Cell(first, c, src) == IF first + c[1] < call.S THEN src[first + c[1]][c[2]] ELSE 0

FilledQ(w) == \A c \in Cells(BlockM) :
  \/ pc[w] = "load Q" /\ Came(w, c)
  \/ pc[w] # "load Q" /\ Launched /\ Own(w, c)
  => sQ[c] = Cell(QBlock, c, call.Q)
FilledKV(w) == \A c \in Cells(BlockN) :
  \/ pc[w] = "load KV" /\ Came(w, c)
  \/ pc[w] \in {"KV loaded", "scan", "scanned"} /\ Own(w, c)
  => sK[c] = Cell(kv_block[w], c, call.K) /\ sV[c] = Cell(kv_block[w], c, call.V)
FillInv == \A w \in Warps : FilledQ(w) /\ FilledKV(w)

LEMMA CellIndex ==
  ASSUME PlaceInv, Launched, NEW rows \in Nat, NEW c \in Cells(rows)
  PROVE  /\ c[1] \in 0..(rows - 1) /\ c[2] \in Dims /\ c = <<c[1], c[2]>>
         /\ Index(c) \in Nat /\ Index(c) < rows * call.D /\ call.D \in Nat /\ rows * call.D \in Nat
  <1>1. c[1] \in 0..(rows - 1) /\ c[2] \in Dims /\ c = <<c[1], c[2]>>
    BY DEF Cells
  <1>2. call.D \in Nat
    BY CallType DEF PlaceInv, Shapes, Launched
  <1>3. c[2] \in 0..(call.D - 1)
    BY <1>1 DEF Dims
  <1>4. rows * call.D \in Nat
    BY <1>2, ProductInNat
  <1> QED
    BY <1>1, <1>2, <1>3, <1>4, CellInTile DEF Index

\* A cell that a warp comes to with its next iteration is filled by it.
LEMMA InShare ==
  ASSUME PlaceInv, Launched, NEW rows \in Nat, NEW c \in Cells(rows), NEW w \in Warps,
         pc[w] \in {"load Q", "load KV"}, at'[w] = at[w] + BlockDim, call' = call,
         Came(w, c)', ~Came(w, c)
  PROVE  Index(c) \in Share(w, rows)
  <1>1. at[w] \in Nat /\ \E t \in Nat : at[w] = t * BlockDim
    BY DEF PlaceInv, Shapes, Counters
  <1>2. PICK t \in Nat, lane \in Lanes :
          t * BlockDim < at[w] + BlockDim /\ Index(c) = CellAt(t, w, lane)
    BY DEF Came, Index
  <1>3. ~(t * BlockDim < at[w])
    BY <1>2 DEF Came
  <1>4. Index(c) = at[w] + w * WarpSize + lane
    BY <1>1, <1>2, <1>3, NextIteration
  <1>5. Index(c) < rows * call.D
    BY CellIndex
  <1> QED
    BY <1>4, <1>5 DEF Share

\* A warp whose share is empty has come to all its cells.
LEMMA NoShare ==
  ASSUME PlaceInv, Launched, NEW rows \in Nat, NEW c \in Cells(rows), NEW w \in Warps,
         Share(w, rows) = {}, Own(w, c)
  PROVE  Came(w, c)
  <1>1. at[w] \in Nat
    BY DEF PlaceInv, Shapes
  <1>2. PICK t \in Nat, lane \in Lanes : Index(c) = CellAt(t, w, lane)
    BY DEF Own
  <1>3. CellAt(t, w, lane) < rows * call.D /\ rows * call.D \in Int
    BY <1>2, CellIndex
  <1>4. t * BlockDim < at[w]
    BY <1>1, <1>3, NoneLeft DEF Share
  <1> QED
    BY <1>2, <1>4 DEF Came

LEMMA EveryCellOwned ==
  ASSUME PlaceInv, Launched, NEW rows \in Nat, NEW c \in Cells(rows)
  PROVE  \E w \in Warps : Own(w, c)
  BY CellIndex, EveryCellHasAThread DEF Own

LEMMA KeepsQ ==
  ASSUME FillInv, NEW v \in Warps, UNCHANGED <<call, block, sQ>>,
         \/ pc'[v] = pc[v] /\ at'[v] = at[v]
         \/ pc[v] # "load Q" /\ pc'[v] # "load Q"
  PROVE  FilledQ(v)'
  <1>1. FilledQ(v) /\ QBlock' = QBlock /\ (Launched' <=> Launched) /\ Cells(BlockM)' = Cells(BlockM)
    BY DEF FillInv, QBlock, Launched, Cells, Dims
  <1>2. ASSUME NEW c \in Cells(BlockM)
        PROVE  /\ Own(v, c)' <=> Own(v, c)
               /\ at'[v] = at[v] => (Came(v, c)' <=> Came(v, c))
               /\ sQ'[c] = sQ[c] /\ Cell(QBlock, c, call.Q)' = Cell(QBlock, c, call.Q)
    BY <1>1 DEF Own, Came, Index, Cell
  <1> QED
    BY <1>1, <1>2 DEF FilledQ

LEMMA KeepsKV ==
  ASSUME FillInv, NEW v \in Warps, UNCHANGED <<call, kv_block, sK, sV>>,
         \/ pc'[v] = pc[v] /\ at'[v] = at[v]
         \/ pc'[v] \in {"KV loaded", "scan", "scanned"} /\ pc[v] \in {"KV loaded", "scan", "scanned"}
         \/ pc'[v] \notin {"load KV", "KV loaded", "scan", "scanned"}
  PROVE  FilledKV(v)'
  <1>1. FilledKV(v) /\ Cells(BlockN)' = Cells(BlockN)
    BY DEF FillInv, Cells, Dims
  <1>2. ASSUME NEW c \in Cells(BlockN)
        PROVE  /\ Own(v, c)' <=> Own(v, c)
               /\ at'[v] = at[v] => (Came(v, c)' <=> Came(v, c))
               /\ sK'[c] = sK[c] /\ Cell(kv_block[v], c, call.K)' = Cell(kv_block[v], c, call.K)
               /\ sV'[c] = sV[c] /\ Cell(kv_block[v], c, call.V)' = Cell(kv_block[v], c, call.V)
    BY <1>1 DEF Own, Came, Index, Cell
  <1> QED
    BY <1>1, <1>2 DEF FilledKV

LEMMA LoadQFills == ASSUME PlaceInv, FillInv, NEW w \in Warps, LoadQ(w) PROVE FillInv'
  <1>1. /\ pc[w] = "load Q" /\ sQ' = Fill(sQ, Share(w, BlockM), QBlock, call.Q)
        /\ at' = [at EXCEPT ![w] = at[w] + BlockDim]
        /\ UNCHANGED <<call, block, pc, kv_block, sK, sV>>
    BY DEF LoadQ
  <1>2. Launched /\ at \in [Warps -> Nat] /\ DOMAIN sQ = Cells(BlockM)
    BY <1>1 DEF PlaceInv, Counters, Shapes
  <1>3. ASSUME NEW c \in Cells(BlockM)
        PROVE  sQ'[c] = IF Index(c) \in Share(w, BlockM) THEN Cell(QBlock, c, call.Q) ELSE sQ[c]
    BY <1>1, <1>2 DEF Fill, Cell, Index
  <1>4. ASSUME NEW v \in Warps PROVE FilledQ(v)'
    <2>1. Cells(BlockM)' = Cells(BlockM) /\ QBlock' = QBlock /\ (Launched' <=> Launched)
      BY <1>1 DEF Cells, Dims, QBlock, Launched
    <2>2. SUFFICES ASSUME NEW c \in Cells(BlockM),
                          \/ pc[v] = "load Q" /\ Came(v, c)'
                          \/ pc[v] # "load Q" /\ Own(v, c)'
                   PROVE  sQ'[c] = Cell(QBlock, c, call.Q)
      BY <1>1, <2>1 DEF FilledQ, Cell
    <2>3. CASE Index(c) \in Share(w, BlockM)
      BY <1>3, <2>3
    <2>4. CASE Index(c) \notin Share(w, BlockM)
      <3>1. Own(v, c)' <=> Own(v, c)
        BY <1>1 DEF Own, Index
      <3>2. CASE v = w
        <4>1. at'[w] = at[w] + BlockDim /\ Came(w, c)'
          BY <1>1, <1>2, <2>2, <3>2
        <4>2. Came(w, c)
          BY <1>1, <1>2, <2>4, <4>1, InShare, Sizes
        <4> QED
          BY <1>1, <1>3, <2>4, <3>2, <4>2 DEF FillInv, FilledQ
      <3>3. CASE v # w
        <4>1. at'[v] = at[v]
          BY <1>1, <1>2, <3>3
        <4>2. Came(v, c)' <=> Came(v, c)
          BY <1>1, <4>1 DEF Came, Index
        <4> QED
          BY <1>2, <1>3, <2>2, <2>4, <3>1, <4>2 DEF FillInv, FilledQ
      <3> QED
        BY <3>2, <3>3
    <2> QED
      BY <2>3, <2>4
  <1>5. ASSUME NEW v \in Warps PROVE FilledKV(v)'
    <2>1. CASE v = w
      BY <1>1, <2>1, KeepsKV
    <2>2. CASE v # w
      <3>1. at'[v] = at[v] /\ pc'[v] = pc[v]
        BY <1>1, <1>2, <2>2
      <3> QED
        BY <1>1, <3>1, KeepsKV
    <2> QED
      BY <2>1, <2>2
  <1> QED
    BY <1>4, <1>5 DEF FillInv

LEMMA LoadKVFills == ASSUME PlaceInv, FillInv, NEW w \in Warps, LoadKV(w) PROVE FillInv'
  <1>1. /\ pc[w] = "load KV"
        /\ sK' = Fill(sK, Share(w, BlockN), kv_block[w], call.K)
        /\ sV' = Fill(sV, Share(w, BlockN), kv_block[w], call.V)
        /\ at' = [at EXCEPT ![w] = at[w] + BlockDim]
        /\ UNCHANGED <<call, block, pc, kv_block, sQ>>
    BY DEF LoadKV
  <1>2. /\ Launched /\ at \in [Warps -> Nat] /\ \A v \in Warps : kv_block[v] = kv_block[w]
        /\ DOMAIN sK = Cells(BlockN) /\ DOMAIN sV = Cells(BlockN)
    BY <1>1 DEF PlaceInv, Counters, Shapes, Together
  <1>3. ASSUME NEW c \in Cells(BlockN)
        PROVE  /\ sK'[c] = IF Index(c) \in Share(w, BlockN) THEN Cell(kv_block[w], c, call.K) ELSE sK[c]
               /\ sV'[c] = IF Index(c) \in Share(w, BlockN) THEN Cell(kv_block[w], c, call.V) ELSE sV[c]
    <2>1. sK'[c] = IF Index(c) \in Share(w, BlockN) THEN Cell(kv_block[w], c, call.K) ELSE sK[c]
      BY <1>1, <1>2 DEF Fill, Cell, Index
    <2>2. sV'[c] = IF Index(c) \in Share(w, BlockN) THEN Cell(kv_block[w], c, call.V) ELSE sV[c]
      BY <1>1, <1>2 DEF Fill, Cell, Index
    <2> QED
      BY <2>1, <2>2
  <1>4. ASSUME NEW v \in Warps PROVE FilledKV(v)'
    <2>1. Cells(BlockN)' = Cells(BlockN)
      BY <1>1 DEF Cells, Dims
    <2>2. SUFFICES ASSUME NEW c \in Cells(BlockN),
                          \/ pc[v] = "load KV" /\ Came(v, c)'
                          \/ pc[v] \in {"KV loaded", "scan", "scanned"} /\ Own(v, c)'
                   PROVE  /\ sK'[c] = Cell(kv_block[v], c, call.K)
                          /\ sV'[c] = Cell(kv_block[v], c, call.V)
      BY <1>1, <2>1 DEF FilledKV, Cell
    <2>3. CASE Index(c) \in Share(w, BlockN)
      BY <1>2, <1>3, <2>3
    <2>4. CASE Index(c) \notin Share(w, BlockN)
      <3>1. Own(v, c)' <=> Own(v, c)
        BY <1>1 DEF Own, Index
      <3>2. CASE v = w
        <4>1. at'[w] = at[w] + BlockDim /\ Came(w, c)'
          BY <1>1, <1>2, <2>2, <3>2
        <4>2. Came(w, c)
          BY <1>1, <1>2, <2>4, <4>1, InShare, Sizes
        <4> QED
          BY <1>1, <1>3, <2>4, <3>2, <4>2 DEF FillInv, FilledKV
      <3>3. CASE v # w
        <4>1. at'[v] = at[v]
          BY <1>1, <1>2, <3>3
        <4>2. Came(v, c)' <=> Came(v, c)
          BY <1>1, <4>1 DEF Came, Index
        <4> QED
          BY <1>3, <2>2, <2>4, <3>1, <4>2 DEF FillInv, FilledKV
      <3> QED
        BY <3>2, <3>3
    <2> QED
      BY <2>3, <2>4
  <1>5. ASSUME NEW v \in Warps PROVE FilledQ(v)'
    <2>1. CASE v = w
      BY <1>1, <2>1, KeepsQ
    <2>2. CASE v # w
      <3>1. at'[v] = at[v] /\ pc'[v] = pc[v]
        BY <1>1, <1>2, <2>2
      <3> QED
        BY <1>1, <3>1, KeepsQ
    <2> QED
      BY <2>1, <2>2
  <1> QED
    BY <1>4, <1>5 DEF FillInv

LEMMA LoadedFills == ASSUME PlaceInv, FillInv, NEW w \in Warps, Loaded(w) PROVE FillInv'
  <1>1. /\ \/ pc[w] = "load Q" /\ Share(w, BlockM) = {} /\ pc' = [pc EXCEPT ![w] = "Q loaded"]
           \/ pc[w] = "load KV" /\ Share(w, BlockN) = {} /\ pc' = [pc EXCEPT ![w] = "KV loaded"]
        /\ at' = [at EXCEPT ![w] = 0]
        /\ UNCHANGED <<call, block, kv_block, sQ, sK, sV>>
    BY DEF Loaded
  <1>2. Launched /\ pc \in [Warps -> Places] /\ at \in [Warps -> Nat]
    BY <1>1 DEF PlaceInv, Counters, Shapes
  <1>3. ASSUME NEW v \in Warps, v # w PROVE FilledQ(v)' /\ FilledKV(v)'
    <2>1. at'[v] = at[v] /\ pc'[v] = pc[v]
      BY <1>1, <1>2, <1>3
    <2> QED
      BY <1>1, <2>1, KeepsQ, KeepsKV
  <1>4. FilledQ(w) /\ FilledKV(w)
    BY DEF FillInv
  <1>5. FilledQ(w)'
    <2>1. CASE pc[w] = "load KV"
      <3>1. pc'[w] = "KV loaded"
        BY <1>1, <1>2, <2>1
      <3> QED
        BY <1>1, <2>1, <3>1, KeepsQ
    <2>2. CASE pc[w] = "load Q"
      <3>1. SUFFICES ASSUME NEW c \in Cells(BlockM), Own(w, c) PROVE sQ[c] = Cell(QBlock, c, call.Q)
        BY <1>1, <1>2, <2>2 DEF FilledQ, Own, Index, Cell, QBlock, Cells, Dims
      <3>2. Came(w, c)
        BY <1>1, <1>2, <2>2, <3>1, NoShare, Sizes
      <3> QED
        BY <1>4, <2>2, <3>2 DEF FilledQ
    <2> QED
      BY <1>1, <2>1, <2>2
  <1>6. FilledKV(w)'
    <2>1. CASE pc[w] = "load Q"
      <3>1. pc'[w] = "Q loaded"
        BY <1>1, <1>2, <2>1
      <3> QED
        BY <1>1, <2>1, <3>1, KeepsKV
    <2>2. CASE pc[w] = "load KV"
      <3>1. Cells(BlockN)' = Cells(BlockN) /\ pc'[w] = "KV loaded"
        BY <1>1, <1>2, <2>2 DEF Cells, Dims
      <3>2. \A c : Own(w, c)' <=> Own(w, c)
        BY <1>1 DEF Own, Index
      <3>3. \A c : /\ Cell(kv_block[w], c, call.K)' = Cell(kv_block[w], c, call.K)
                   /\ Cell(kv_block[w], c, call.V)' = Cell(kv_block[w], c, call.V)
        BY <1>1, <3>1 DEF Cell
      <3>4. SUFFICES ASSUME NEW c \in Cells(BlockN)', Own(w, c)'
                     PROVE  (sK[c] = Cell(kv_block[w], c, call.K) /\ sV[c] = Cell(kv_block[w], c, call.V))'
        BY <3>1 DEF FilledKV
      <3>5. c \in Cells(BlockN) /\ Own(w, c)
        BY <3>1, <3>2, <3>4
      <3>6. Came(w, c)
        BY <1>1, <1>2, <2>2, <3>5, NoShare, Sizes
      <3>7. sK[c] = Cell(kv_block[w], c, call.K) /\ sV[c] = Cell(kv_block[w], c, call.V)
        BY <1>4, <2>2, <3>5, <3>6 DEF FilledKV
      <3> QED
        BY <1>1, <3>3, <3>7
    <2> QED
      BY <1>1, <2>1, <2>2
  <1> QED
    BY <1>3, <1>5, <1>6 DEF FillInv

\* Nothing is loaded or the block changed: scans, writes and the barriers behind a load.
LEMMA NoLoadFills ==
  ASSUME PlaceInv, FillInv, UNCHANGED <<call, block, kv_block, sQ, sK, sV>>,
         \A w \in Warps :
           \/ pc'[w] = pc[w] /\ at'[w] = at[w]
           \/ /\ pc[w] # "load Q" /\ pc'[w] # "load Q"
              /\ \/ pc'[w] \in {"scan", "scanned"} /\ pc[w] \in {"KV loaded", "scan", "scanned"}
                 \/ pc'[w] = "done"
  PROVE  FillInv'
  <1>1. ASSUME NEW w \in Warps PROVE FilledQ(w)' /\ FilledKV(w)'
    <2>1. CASE pc'[w] = pc[w] /\ at'[w] = at[w]
      BY <2>1, KeepsQ, KeepsKV
    <2>2. CASE pc[w] # "load Q" /\ pc'[w] # "load Q"
      BY <2>2, KeepsQ, KeepsKV
    <2> QED
      BY <2>1, <2>2
  <1> QED
    BY <1>1 DEF FillInv

\* No warp has come to a cell yet.
LEMMA NotCome == ASSUME NEW w \in Warps, at[w] = 0, NEW c PROVE ~Came(w, c)
  <1>1. \A t \in Nat : t * BlockDim \in Nat
    BY Sizes, ProductInNat
  <1> QED
    BY <1>1 DEF Came

LEMMA WarpFills ==
  ASSUME PlaceInv, FillInv, NEW w \in Warps,
         ScanKey(w) \/ SkipKey(w) \/ Scanned(w) \/ Write(w)
  PROVE  FillInv'
  <1>1. pc \in [Warps -> Places] /\ at \in [Warps -> Nat]
    BY DEF PlaceInv, Shapes
  <1>2. UNCHANGED <<call, block, kv_block, sQ, sK, sV>>
    BY DEF ScanKey, SkipKey, Scanned, Write
  <1>3. \A v \in Warps : v # w => pc'[v] = pc[v] /\ at'[v] = at[v]
    BY <1>1 DEF ScanKey, SkipKey, Scanned, Write, Step
  <1>4. \/ pc[w] = "scan" /\ pc'[w] \in {"scan", "scanned"}
        \/ pc[w] = "write" /\ pc'[w] = "done"
    BY <1>1 DEF ScanKey, SkipKey, Scanned, Write
  <1> QED
    BY <1>2, <1>3, <1>4, NoLoadFills

LEMMA KVReadyFills == PlaceInv /\ FillInv /\ KVReady => FillInv'
  BY NoLoadFills DEF KVReady, AllAt

LEMMA QReadyFills == PlaceInv /\ FillInv /\ QReady => FillInv'
  <1> SUFFICES ASSUME PlaceInv, FillInv, QReady PROVE FillInv'
    OBVIOUS
  <1>1. /\ AllAt("Q loaded") /\ pc' = [w \in Warps |-> "load KV"]
        /\ UNCHANGED <<call, block, at, kv_block, sQ, sK, sV>>
    BY DEF QReady
  <1>2. ASSUME NEW w \in Warps PROVE FilledQ(w)'
    BY <1>1, KeepsQ DEF AllAt
  <1>3. ASSUME NEW w \in Warps PROVE FilledKV(w)'
    <2>1. at'[w] = 0 /\ pc'[w] = "load KV"
      BY <1>1, AtBarrier
    <2>2. \A c : ~Came(w, c)
      BY <1>1, <2>1, NotCome
    <2>3. \A c : ~Came(w, c)'
      BY <1>1, <2>2 DEF Came, Index
    <2> QED
      BY <2>1, <2>3 DEF FilledKV
  <1> QED
    BY <1>2, <1>3 DEF FillInv

LEMMA NextTileFills == PlaceInv /\ FillInv /\ NextTile => FillInv'
  <1> SUFFICES ASSUME PlaceInv, FillInv, NextTile PROVE FillInv'
    OBVIOUS
  <1>1. /\ AllAt("scanned") /\ pc' = [w \in Warps |-> AfterTile(w)]
        /\ UNCHANGED <<call, block, at, sQ, sK, sV>>
    BY DEF NextTile
  <1>2. ASSUME NEW w \in Warps PROVE FilledQ(w)'
    <2>1. pc[w] # "load Q" /\ pc'[w] # "load Q"
      BY <1>1 DEF AllAt, AfterTile
    <2> QED
      BY <1>1, <2>1, KeepsQ
  <1>3. ASSUME NEW w \in Warps PROVE FilledKV(w)'
    <2>1. at'[w] = 0 /\ at[w] = 0 /\ pc'[w] \in {"load KV", "write"}
      BY <1>1, AtBarrier DEF AfterTile
    <2>2. \A c : ~Came(w, c)
      BY <2>1, NotCome
    <2>3. \A c : ~Came(w, c)'
      BY <1>1, <2>2 DEF Came, Index
    <2> QED
      BY <2>1, <2>3 DEF FilledKV
  <1> QED
    BY <1>2, <1>3 DEF FillInv

LEMMA NextBlockFills == PlaceInv /\ NextBlock => FillInv'
  <1> SUFFICES ASSUME PlaceInv, NextBlock PROVE FillInv'
    OBVIOUS
  <1>1. AllAt("done") /\ pc' = [w \in Warps |-> "load Q"] /\ UNCHANGED <<call, at>>
    BY DEF NextBlock
  <1>2. ASSUME NEW w \in Warps PROVE FilledQ(w)' /\ FilledKV(w)'
    <2>1. at[w] = 0 /\ pc'[w] = "load Q"
      BY <1>1, AtBarrier
    <2>2. \A c : ~Came(w, c)
      BY <2>1, NotCome
    <2>3. \A c : ~Came(w, c)'
      BY <1>1, <2>2 DEF Came, Index
    <2> QED
      BY <2>1, <2>3 DEF FilledQ, FilledKV
  <1> QED
    BY <1>2 DEF FillInv

LEMMA FillHolds == Spec => []FillInv
  <1>1. Init => FillInv
    <2> SUFFICES ASSUME Init, NEW w \in Warps PROVE FilledQ(w) /\ FilledKV(w)
      BY DEF FillInv
    <2>1. at[w] = 0 /\ pc[w] = IF Launched THEN "load Q" ELSE "done"
      BY DEF Init
    <2>2. \A c : ~Came(w, c)
      BY <2>1, NotCome
    <2> QED
      BY <2>1, <2>2 DEF FilledQ, FilledKV
  <1>2. PlaceInv /\ FillInv /\ [Next]_vars => FillInv'
    <2> SUFFICES ASSUME PlaceInv, FillInv, [Next]_vars PROVE FillInv'
      OBVIOUS
    <2>1. CASE UNCHANGED vars
      BY <2>1, NoLoadFills DEF vars
    <2>2. ASSUME NEW w \in Warps, WarpStep(w) PROVE FillInv'
      BY <2>2, LoadQFills, LoadKVFills, LoadedFills, WarpFills DEF WarpStep
    <2> QED
      BY <2>1, <2>2, QReadyFills, KVReadyFills, NextTileFills, NextBlockFills DEF Next
  <1> QED
    BY <1>1, <1>2, PlaceHolds, PTL DEF Spec

\* Once every warp has passed the barrier behind a load, the tile is whole.
LEMMA WholeTiles ==
  ASSUME PlaceInv, FillInv, NEW w \in Warps, pc[w] = "scan"
  PROVE  /\ \A c \in Cells(BlockM) : sQ[c] = Cell(QBlock, c, call.Q)
         /\ \A c \in Cells(BlockN) : /\ sK[c] = Cell(kv_block[w], c, call.K)
                                     /\ sV[c] = Cell(kv_block[w], c, call.V)
  <1>1. Launched
    BY DEF PlaceInv, Counters
  <1>2. \A v \in Warps : pc[v] \in {"scan", "scanned"} /\ kv_block[v] = kv_block[w]
    BY DEF PlaceInv, Together, Stages
  <1>3. ASSUME NEW c \in Cells(BlockM) PROVE sQ[c] = Cell(QBlock, c, call.Q)
    <2>1. PICK v \in Warps : Own(v, c)
      BY <1>1, EveryCellOwned, Sizes
    <2> QED
      BY <1>1, <1>2, <2>1 DEF FillInv, FilledQ
  <1>4. ASSUME NEW c \in Cells(BlockN)
        PROVE  sK[c] = Cell(kv_block[w], c, call.K) /\ sV[c] = Cell(kv_block[w], c, call.V)
    <2>1. PICK v \in Warps : Own(v, c)
      BY <1>1, EveryCellOwned, Sizes
    <2> QED
      BY <1>1, <1>2, <2>1 DEF FillInv, FilledKV
  <1> QED
    BY <1>3, <1>4

(* What a warp still has to read is in shared memory: its row of Q, from   *)
(* the block it is in, and the rows of K and V at its own kv_block; the    *)
(* barriers behind the loads and behind the scan, and the strides of the   *)
(* loads, leave no cell of the tile or the block before and none that a    *)
(* faster warp has put there.                                              *)
THEOREM TilesAreCurrent == Spec => []TileIsCurrent
  <1>1. PlaceInv /\ FillInv => TileIsCurrent
    <2> SUFFICES ASSUME PlaceInv, FillInv, NEW w \in Warps, pc[w] = "scan", NEW d \in Dims
                 PROVE  /\ ValidQ(w) => sQ[<<w, d>>] = call.Q[QRow(w)][d]
                        /\ \A r \in at[w]..(BlockN - 1) :
                             kv_block[w] + r < call.S =>
                               /\ sK[<<r, d>>] = call.K[kv_block[w] + r][d]
                               /\ sV[<<r, d>>] = call.V[kv_block[w] + r][d]
      BY DEF TileIsCurrent
    <2>1. at[w] \in Nat /\ kv_block[w] \in Nat
      BY DEF PlaceInv, Shapes
    <2>2. ASSUME ValidQ(w) PROVE sQ[<<w, d>>] = call.Q[QRow(w)][d]
      <3>1. <<w, d>> \in Cells(BlockM)
        BY DEF Cells, Warps
      <3>2. sQ[<<w, d>>] = Cell(QBlock, <<w, d>>, call.Q)
        BY <3>1, WholeTiles
      <3> QED
        BY <2>2, <3>2 DEF Cell, ValidQ, QRow
    <2>3. ASSUME NEW r \in at[w]..(BlockN - 1), kv_block[w] + r < call.S
          PROVE  /\ sK[<<r, d>>] = call.K[kv_block[w] + r][d]
                 /\ sV[<<r, d>>] = call.V[kv_block[w] + r][d]
      <3>1. <<r, d>> \in Cells(BlockN)
        BY <2>1, Sizes DEF Cells
      <3>2. /\ sK[<<r, d>>] = Cell(kv_block[w], <<r, d>>, call.K)
            /\ sV[<<r, d>>] = Cell(kv_block[w], <<r, d>>, call.V)
        BY <3>1, WholeTiles
      <3> QED
        BY <2>3, <3>2 DEF Cell
    <2> QED
      BY <2>2, <2>3
  <1> QED
    BY <1>1, PlaceHolds, FillHolds, PTL
-----------------------------------------------------------------------------
(* The keys a row has seen, counted by the terms of its denominator.       *)

IsSum(l) == \E T : l \in Seq(T)

LEMMA ScaleKeeps == ASSUME NEW l, IsSum(l), NEW by
  PROVE  IsSum(Scale(l, by)) /\ Len(Scale(l, by)) = Len(l)
  <1>1. PICK T : l \in Seq(T)
    BY DEF IsSum
  <1>2. PICK n \in Nat : n = Len(l) /\ DOMAIN l = 1..n
    BY <1>1
  <1> DEFINE s == Scale(l, by)
             U == {s[i] : i \in 1..n}
  <1>3. DOMAIN s = 1..n /\ s = [i \in 1..n |-> s[i]]
    BY <1>2 DEF Scale
  <1> HIDE DEF s
  <1>4. s \in [1..n -> U]
    BY <1>3
  <1>5. s \in Seq(U) /\ Len(s) = n
    <2>1. s \in Seq(U)
      BY <1>4, SeqDef
    <2>2. Len(s) \in Nat /\ DOMAIN s = 1..Len(s)
      BY <2>1, LenProperties
    <2> QED
      BY <1>3, <2>1, <2>2
  <1> QED
    BY <1>2, <1>5 DEF IsSum, s

LEMMA AddTermAdds == ASSUME NEW l, IsSum(l), NEW of, NEW exp
  PROVE  IsSum(AddTerm(l, of, exp)) /\ Len(AddTerm(l, of, exp)) = Len(l) + 1
  <1>1. PICK T : l \in Seq(T)
    BY DEF IsSum
  <1>2. PICK U : U = T \cup {[of |-> of, exp |-> exp]}
    OBVIOUS
  <1>3. l \in Seq(U) /\ [of |-> of, exp |-> exp] \in U
    BY <1>1, <1>2
  <1>4. Append(l, [of |-> of, exp |-> exp]) \in Seq(U)
    BY <1>3, AppendProperties
  <1>5. Len(Append(l, [of |-> of, exp |-> exp])) = Len(l) + 1
    BY <1>3, AppendProperties
  <1> QED
    BY <1>4, <1>5 DEF AddTerm, IsSum
LEMMA UpdateAdds ==
  ASSUME NEW s, IsSum(s.l), NEW score, NEW v
  PROVE  IsSum(Update(s, score, v).l) /\ Len(Update(s, score, v).l) = Len(s.l) + 1
  <1>1. PICK m_new : m_new = Max({s.m, score})
    OBVIOUS
  <1>2. Update(s, score, v).l = AddTerm(Scale(s.l, s.m - m_new), 1, score - m_new)
    BY <1>1 DEF Update
  <1>3. IsSum(Scale(s.l, s.m - m_new)) /\ Len(Scale(s.l, s.m - m_new)) = Len(s.l)
    BY ScaleKeeps
  <1> QED
    BY <1>2, <1>3, AddTermAdds

\* How far a warp has come along the sequence, and how far its row goes.
Passed(w) == kv_block[w] + (IF pc[w] = "scan" THEN at[w] ELSE IF pc[w] = "scanned" THEN BlockN ELSE 0)
End(q) == IF call.causal THEN q + 1 ELSE call.S
Lesser(a, b) == IF a <= b THEN a ELSE b

\* The row of a warp has seen the keys the warp has passed, but none after its last; it is
\* written when the warp is done.  The rows of later blocks have not been begun.
RowOfWarp(w) ==
  Launched /\ ValidQ(w) =>
    /\ Len(soft[QRow(w)].l) = Lesser(Passed(w), End(QRow(w)))
    /\ pc[w] # "done" => O[QRow(w)] = NotWritten
LaterRow(q) == QBlock + BlockM <= q => Len(soft[q].l) = 0 /\ O[q] = NotWritten
RowInv ==
  /\ \A q \in Rows : IsSum(soft[q].l) /\ LaterRow(q)
  /\ \A w \in Warps : RowOfWarp(w)

LEMMA RowType ==
  ASSUME PlaceInv, Launched, NEW w \in Warps
  PROVE  /\ QBlock \in Nat /\ QRow(w) \in Nat /\ QRow(w) = QBlock + w /\ w \in 0..(BlockM - 1)
         /\ call.S \in Nat /\ Passed(w) \in Nat /\ call.causal \in BOOLEAN
         /\ ValidQ(w) => QRow(w) \in Rows /\ End(QRow(w)) \in Nat /\ End(QRow(w)) <= call.S
  <1>1. QBlock \in Nat /\ w \in 0..(BlockM - 1) /\ w \in Nat
    BY KvEndType, Sizes DEF PlaceInv, Warps
  <1>2. call.S \in Nat /\ call.causal \in BOOLEAN
    BY CallType DEF PlaceInv, Shapes, Launched
  <1>3. QRow(w) = QBlock + w /\ QRow(w) \in Nat
    BY <1>1 DEF QRow
  <1>4. Passed(w) \in Nat
    <2>1. kv_block[w] \in Nat /\ at[w] \in Nat
      BY DEF PlaceInv, Shapes
    <2> QED
      BY <2>1, Sizes DEF Passed
  <1> QED
    BY <1>1, <1>2, <1>3, <1>4 DEF ValidQ, Rows, End

\* Two warps have different rows.
LEMMA OwnRow ==
  ASSUME PlaceInv, Launched, NEW v \in Warps, NEW w \in Warps, QRow(v) = QRow(w) PROVE v = w
  BY RowType

\* A key is scanned if and only if it is one of the row's.
LEMMA SkippedOrNot ==
  ASSUME PlaceInv, Launched, NEW w \in Warps, pc[w] = "scan"
  PROVE  /\ KeyRow(w) = Passed(w)
         /\ Skipped(w) <=> ~(ValidQ(w) /\ Passed(w) < End(QRow(w)))
  <1>1. KeyRow(w) = Passed(w) /\ Passed(w) \in Nat
    BY RowType DEF KeyRow, Passed
  <1>2. CASE ~ValidQ(w)
    BY <1>1, <1>2 DEF Skipped
  <1>3. CASE ValidQ(w)
    <2>1. QRow(w) \in Nat /\ QRow(w) < call.S /\ call.S \in Nat /\ call.causal \in BOOLEAN
      BY <1>3, RowType DEF ValidQ
    <2> QED
      BY <1>1, <1>3, <2>1 DEF Skipped, End
  <1> QED
    BY <1>2, <1>3

\* Nothing happens to the rows but in a scan or a write.
LEMMA OtherRows ==
  ASSUME PlaceInv, RowInv, UNCHANGED <<call, block, soft, O>>,
         \A w \in Warps : /\ Launched /\ ValidQ(w) =>
                              Lesser(Passed(w), End(QRow(w)))' = Lesser(Passed(w), End(QRow(w)))
                          /\ pc'[w] # "done" => pc[w] # "done"
  PROVE  RowInv'
  <1>1. /\ Rows' = Rows /\ QBlock' = QBlock /\ (Launched' <=> Launched)
        /\ \A w \in Warps : QRow(w)' = QRow(w) /\ (ValidQ(w)' <=> ValidQ(w))
    BY DEF Rows, QBlock, Launched, QRow, ValidQ
  <1>2. ASSUME NEW q \in Rows PROVE IsSum(soft[q].l)' /\ LaterRow(q)'
    BY <1>1 DEF RowInv, LaterRow, IsSum
  <1>3. ASSUME NEW w \in Warps PROVE RowOfWarp(w)'
    BY <1>1 DEF RowInv, RowOfWarp
  <1> QED
    BY <1>1, <1>2, <1>3 DEF RowInv

LEMMA ScanKeyRows == ASSUME PlaceInv, RowInv, NEW w \in Warps, ScanKey(w) PROVE RowInv'
  <1>1. /\ pc[w] = "scan" /\ ~Skipped(w) /\ at' = [at EXCEPT ![w] = at[w] + 1]
        /\ UNCHANGED <<call, block, pc, kv_block, O>>
    BY DEF ScanKey, Step
  <1>2. /\ Launched /\ at \in [Warps -> Nat] /\ DOMAIN soft = Rows
        /\ ValidQ(w) /\ Passed(w) < End(QRow(w))
    <2>1. Launched /\ at \in [Warps -> Nat] /\ DOMAIN soft = Rows
      BY <1>1 DEF PlaceInv, Counters, Shapes
    <2> QED
      BY <1>1, <2>1, SkippedOrNot
  <1>3. PICK q \in Rows : q = QRow(w)
    BY <1>2, RowType
  <1>4. PICK score, v : soft' = [soft EXCEPT ![q] = Update(soft[q], score, v)]
    BY <1>3 DEF ScanKey
  <1>5. /\ Rows' = Rows /\ QBlock' = QBlock /\ (Launched' <=> Launched)
        /\ \A u \in Warps : /\ QRow(u)' = QRow(u) /\ (ValidQ(u)' <=> ValidQ(u))
                            /\ End(QRow(u))' = End(QRow(u))
    BY <1>1 DEF Rows, QBlock, Launched, QRow, ValidQ, End
  <1>6. soft'[q] = Update(soft[q], score, v) /\ \A p \in Rows : p # q => soft'[p] = soft[p]
    BY <1>2, <1>4
  <1>7. IsSum(soft'[q].l) /\ Len(soft'[q].l) = Len(soft[q].l) + 1
    BY <1>6, UpdateAdds DEF RowInv
  <1>8. ASSUME NEW p \in Rows PROVE IsSum(soft'[p].l) /\ LaterRow(p)'
    <2>1. CASE p = q
      <3>1. ~(QBlock + BlockM <= q)
        BY <1>2, <1>3, RowType, Sizes
      <3> QED
        BY <1>5, <1>7, <2>1, <3>1 DEF LaterRow
    <2>2. CASE p # q
      BY <1>1, <1>5, <1>6, <2>2 DEF RowInv, LaterRow
    <2> QED
      BY <2>1, <2>2
  <1>9. ASSUME NEW u \in Warps PROVE RowOfWarp(u)'
    <2>1. RowOfWarp(u)
      BY DEF RowInv
    <2>2. CASE u = w
      <3>1. Passed(w) \in Nat /\ End(QRow(w)) \in Nat
        BY <1>2, RowType
      <3>2. Len(soft[q].l) = Passed(w)
        BY <1>2, <1>3, <2>1, <2>2, <3>1 DEF RowOfWarp, Lesser
      <3>3. Passed(w)' = Passed(w) + 1
        <4>1. at'[w] = at[w] + 1 /\ at[w] \in Nat /\ kv_block[w] \in Nat
          BY <1>1, <1>2 DEF PlaceInv, Shapes
        <4> QED
          BY <1>1, <4>1 DEF Passed
      <3>4. Len(soft'[q].l) = Lesser(Passed(w)', End(QRow(w)))
        BY <1>2, <1>7, <3>1, <3>2, <3>3 DEF Lesser
      <3>5. O[QRow(w)] = NotWritten
        BY <1>1, <1>2, <2>1, <2>2 DEF RowOfWarp
      <3> QED
        BY <1>1, <1>3, <1>5, <2>2, <3>4, <3>5 DEF RowOfWarp, Lesser
    <2>3. CASE u # w
      <3> SUFFICES ASSUME ValidQ(u) PROVE RowOfWarp(u)'
        BY <1>5 DEF RowOfWarp
      <3>1. QRow(u) \in Rows /\ QRow(u) # q
        BY <1>2, <1>3, <2>3, RowType, OwnRow
      <3>2. soft'[QRow(u)] = soft[QRow(u)]
        BY <1>6, <3>1
      <3>3. Passed(u)' = Passed(u)
        BY <1>1, <1>2, <2>3 DEF Passed
      <3> QED
        BY <1>1, <1>5, <2>1, <3>2, <3>3 DEF RowOfWarp, Lesser
    <2> QED
      BY <2>2, <2>3
  <1> QED
    BY <1>5, <1>8, <1>9 DEF RowInv, IsSum

LEMMA SameEnd ==
  ASSUME UNCHANGED <<call, block>> PROVE \A w \in Warps : End(QRow(w))' = End(QRow(w))
  BY DEF End, QRow, QBlock

LEMMA WarpRows ==
  ASSUME PlaceInv, RowInv, NEW w \in Warps,
         LoadQ(w) \/ LoadKV(w) \/ Loaded(w) \/ SkipKey(w) \/ Scanned(w)
  PROVE  RowInv'
  <1>1. UNCHANGED <<call, block, kv_block, soft, O>>
    BY DEF LoadQ, LoadKV, Loaded, SkipKey, Scanned
  <1>2. pc \in [Warps -> Places] /\ at \in [Warps -> Nat]
    BY DEF PlaceInv, Shapes
  <1>3. ASSUME NEW v \in Warps, v # w PROVE Passed(v)' = Passed(v) /\ pc'[v] = pc[v]
    <2>1. pc'[v] = pc[v]
      BY <1>2, <1>3 DEF LoadQ, LoadKV, Loaded, SkipKey, Scanned
    <2>2. at'[v] = at[v]
      BY <1>2, <1>3 DEF LoadQ, LoadKV, Loaded, SkipKey, Scanned, Step
    <2> QED
      BY <1>1, <2>1, <2>2 DEF Passed
  <1>4. pc[w] # "done"
    BY DEF LoadQ, LoadKV, Loaded, SkipKey, Scanned
  <1>5. ASSUME Launched, ValidQ(w)
        PROVE  Lesser(Passed(w)', End(QRow(w))) = Lesser(Passed(w), End(QRow(w)))
    <2>1. CASE LoadQ(w) \/ LoadKV(w) \/ Loaded(w)
      <3>1. pc[w] \notin {"scan", "scanned"}
        BY <2>1 DEF LoadQ, LoadKV, Loaded
      <3>2. pc'[w] \notin {"scan", "scanned"}
        BY <1>2, <2>1 DEF LoadQ, LoadKV, Loaded
      <3> QED
        BY <1>1, <3>1, <3>2 DEF Passed
    <2>2. CASE Scanned(w)
      <3>1. pc[w] = "scan" /\ at[w] = BlockN /\ pc'[w] = "scanned"
        BY <1>2, <2>2 DEF Scanned
      <3> QED
        BY <1>1, <3>1 DEF Passed
    <2>3. CASE SkipKey(w)
      <3>1. pc[w] = "scan" /\ pc'[w] = "scan" /\ Skipped(w) /\ at'[w] = at[w] + 1
        BY <1>2, <2>3 DEF SkipKey, Step
      <3>2. Passed(w)' = Passed(w) + 1
        <4>1. at[w] \in Nat /\ kv_block[w] \in Nat
          BY DEF PlaceInv, Shapes
        <4> QED
          BY <1>1, <3>1, <4>1 DEF Passed
      <3>3. ~(Passed(w) < End(QRow(w)))
        BY <1>5, <3>1, SkippedOrNot
      <3>4. Passed(w) \in Nat /\ End(QRow(w)) \in Nat
        BY <1>5, RowType
      <3> QED
        BY <3>2, <3>3, <3>4 DEF Lesser
    <2> QED
      BY <2>1, <2>2, <2>3
  <1>6. \A v \in Warps : /\ Launched /\ ValidQ(v) =>
                            Lesser(Passed(v), End(QRow(v)))' = Lesser(Passed(v), End(QRow(v)))
                         /\ pc'[v] # "done" => pc[v] # "done"
    <2> SUFFICES ASSUME NEW v \in Warps
                 PROVE  /\ Launched /\ ValidQ(v) =>
                            Lesser(Passed(v), End(QRow(v)))' = Lesser(Passed(v), End(QRow(v)))
                        /\ pc'[v] # "done" => pc[v] # "done"
      OBVIOUS
    <2>1. End(QRow(v))' = End(QRow(v))
      BY <1>1, SameEnd
    <2>2. CASE v = w
      BY <1>4, <1>5, <2>1, <2>2 DEF Lesser
    <2>3. CASE v # w
      BY <1>3, <2>1, <2>3 DEF Lesser
    <2> QED
      BY <2>2, <2>3
  <1> QED
    BY <1>1, <1>6, OtherRows

LEMMA BarrierRows == PlaceInv /\ RowInv /\ (QReady \/ KVReady \/ NextTile) => RowInv'
  <1> SUFFICES ASSUME PlaceInv, RowInv, QReady \/ KVReady \/ NextTile PROVE RowInv'
    OBVIOUS
  <1>1. UNCHANGED <<call, block, at, soft, O>>
    BY DEF QReady, KVReady, NextTile
  <1>2. ASSUME NEW w \in Warps PROVE Passed(w)' = Passed(w) /\ pc[w] # "done"
    <2>1. kv_block[w] \in Nat
      BY DEF PlaceInv, Shapes
    <2>2. CASE QReady
      <3>1. pc[w] = "Q loaded" /\ pc'[w] = "load KV" /\ kv_block'[w] = kv_block[w]
        BY <2>2 DEF QReady, AllAt
      <3> QED
        BY <3>1 DEF Passed
    <2>3. CASE KVReady
      <3>1. AllAt("KV loaded")
        BY <2>3 DEF KVReady
      <3>2. at[w] = 0 /\ pc[w] = "KV loaded"
        BY <3>1, AtBarrier DEF AllAt
      <3> QED
        BY <2>1, <2>3, <3>2 DEF KVReady, Passed
    <2>4. CASE NextTile
      <3>1. pc[w] = "scanned" /\ pc'[w] \in {"load KV", "write"}
        BY <2>4 DEF NextTile, AllAt, AfterTile
      <3>2. kv_block'[w] = kv_block[w] + BlockN
        BY <2>4 DEF NextTile
      <3>3. Passed(w) = kv_block[w] + BlockN /\ Passed(w)' = kv_block'[w] + 0
        BY <3>1 DEF Passed
      <3>4. BlockN \in Nat
        BY Sizes
      <3>5. kv_block'[w] \in Nat
        BY <2>1, <3>2, <3>4
      <3>6. kv_block'[w] + 0 = kv_block'[w]
        BY <3>5
      <3> QED
        BY <3>1, <3>2, <3>3, <3>6
    <2> QED
      BY <2>2, <2>3, <2>4
  <1>3. \A w \in Warps : Lesser(Passed(w), End(QRow(w)))' = Lesser(Passed(w), End(QRow(w)))
    BY <1>1, <1>2, SameEnd DEF Lesser
  <1> QED
    BY <1>1, <1>2, <1>3, OtherRows

\* A warp that has nothing left to load has passed every key of its row.
LEMMA AllPassed ==
  ASSUME PlaceInv, Launched, NEW w \in Warps, pc[w] \in {"write", "done"}, ValidQ(w)
  PROVE  End(QRow(w)) <= Passed(w)
  <1>1. KvEnd(w) <= kv_block[w] /\ Passed(w) = kv_block[w] /\ kv_block[w] \in Nat
    <2>1. KvEnd(w) <= kv_block[w] /\ kv_block[w] \in Nat
      BY DEF PlaceInv, Counters, Shapes
    <2>2. Passed(w) = kv_block[w] + 0
      BY DEF Passed
    <2> QED
      BY <2>1, <2>2
  <1>2. /\ QBlock \in Nat /\ KvEnd(w) \in Nat /\ call.S \in Nat /\ call.causal \in BOOLEAN
        /\ KvEnd(w) = IF call.causal /\ QBlock + BlockM < call.S THEN QBlock + BlockM ELSE call.S
    BY KvEndType, RowType DEF PlaceInv
  <1>3. QRow(w) = QBlock + w /\ w \in 0..(BlockM - 1) /\ QRow(w) < call.S
    BY RowType DEF ValidQ
  <1>4. End(QRow(w)) <= KvEnd(w) /\ End(QRow(w)) \in Int
    BY <1>2, <1>3, Sizes DEF End
  <1> QED
    BY <1>1, <1>2, <1>4

LEMMA WriteRows == ASSUME PlaceInv, RowInv, NEW w \in Warps, Write(w) PROVE RowInv'
  <1>1. /\ pc[w] = "write" /\ pc' = [pc EXCEPT ![w] = "done"]
        /\ UNCHANGED <<call, block, at, kv_block, soft>>
        /\ O' = IF ValidQ(w) THEN [O EXCEPT ![QRow(w)] = Quotients(soft[QRow(w)])] ELSE O
    BY DEF Write
  <1>2. Launched /\ pc \in [Warps -> Places] /\ DOMAIN O = Rows
    BY <1>1 DEF PlaceInv, Counters, Shapes
  <1>3. /\ Rows' = Rows /\ QBlock' = QBlock /\ (Launched' <=> Launched)
        /\ \A u \in Warps : /\ QRow(u)' = QRow(u) /\ (ValidQ(u)' <=> ValidQ(u))
                            /\ End(QRow(u))' = End(QRow(u))
    BY <1>1 DEF Rows, QBlock, Launched, QRow, ValidQ, End
  <1>4. ASSUME NEW p \in Rows, p # QRow(w) \/ ~ValidQ(w) PROVE O'[p] = O[p]
    BY <1>1, <1>2, <1>4
  <1>5. ASSUME NEW p \in Rows PROVE IsSum(soft[p].l)' /\ LaterRow(p)'
    <2>1. QBlock + BlockM <= p => p # QRow(w)
      BY <1>2, RowType, Sizes
    <2> QED
      BY <1>1, <1>3, <1>4, <2>1 DEF RowInv, LaterRow, IsSum
  <1>6. ASSUME NEW u \in Warps PROVE RowOfWarp(u)'
    <2>1. Passed(u)' = Passed(u)
      <3>1. CASE u = w
        BY <1>1, <1>2, <3>1 DEF Passed
      <3>2. CASE u # w
        BY <1>1, <1>2, <3>2 DEF Passed
      <3> QED
        BY <3>1, <3>2
    <2>2. RowOfWarp(u)
      BY DEF RowInv
    <2>3. CASE u = w
      <3>1. pc'[w] = "done"
        BY <1>1, <1>2
      <3> QED
        BY <1>1, <1>3, <2>1, <2>2, <2>3, <3>1 DEF RowOfWarp, Lesser
    <2>4. CASE u # w
      <3> SUFFICES ASSUME ValidQ(u) PROVE RowOfWarp(u)'
        BY <1>3 DEF RowOfWarp
      <3>1. QRow(u) \in Rows /\ (QRow(u) # QRow(w) \/ ~ValidQ(w))
        BY <1>2, <2>4, RowType, OwnRow
      <3>2. O'[QRow(u)] = O[QRow(u)] /\ pc'[u] = pc[u]
        BY <1>1, <1>2, <1>4, <2>4, <3>1
      <3> QED
        BY <1>1, <1>3, <2>1, <2>2, <3>2 DEF RowOfWarp, Lesser
    <2> QED
      BY <2>3, <2>4
  <1> QED
    BY <1>3, <1>5, <1>6 DEF RowInv

LEMMA NextBlockRows == PlaceInv /\ RowInv /\ NextBlock => RowInv'
  <1> SUFFICES ASSUME PlaceInv, RowInv, NextBlock PROVE RowInv'
    OBVIOUS
  <1>0. block' = block + 1
    BY DEF NextBlock
  <1>1. /\ pc' = [w \in Warps |-> "load Q"] /\ kv_block' = [w \in Warps |-> 0]
        /\ UNCHANGED <<call, soft, O>>
    BY DEF NextBlock
  <1>2. Launched /\ block \in Nat
    BY NextBlockPlace, GridInNat DEF PlaceInv, Shapes
  <1>3. QBlock' = QBlock + BlockM /\ QBlock \in Nat
    BY <1>0, <1>2, Sizes, ProductInNat DEF QBlock
  <1>4. Rows' = Rows /\ (Launched' <=> Launched) /\ Rows = 0..(call.S - 1)
    BY <1>1, <1>2 DEF Rows, Launched
  <1>7. call.S \in Nat /\ call.causal \in BOOLEAN
    BY <1>2, CallType DEF Launched, PlaceInv, Shapes
  <1>5. ASSUME NEW q \in Rows PROVE IsSum(soft[q].l)' /\ LaterRow(q)'
    <2>1. QBlock' + BlockM <= q => QBlock + BlockM <= q
      BY <1>3, <1>4, <1>7, Sizes
    <2> QED
      BY <1>1, <2>1 DEF RowInv, LaterRow, IsSum
  <1>6. ASSUME NEW w \in Warps PROVE RowOfWarp(w)'
    <2>0. w \in 0..(BlockM - 1)
      BY DEF Warps
    <2>1. QRow(w)' = QBlock + BlockM + w
      BY <1>3 DEF QRow
    <2> SUFFICES ASSUME ValidQ(w)'
                 PROVE  /\ Len(soft[QRow(w)'].l) = Lesser(Passed(w), End(QRow(w)))'
                        /\ O[QRow(w)'] = NotWritten
      BY <1>1 DEF RowOfWarp
    <2>2. QRow(w)' \in Rows /\ QBlock + BlockM <= QRow(w)'
      <3>1. QRow(w)' < call.S
        BY <1>1 DEF ValidQ
      <3>2. QBlock + BlockM + w \in Nat /\ QBlock + BlockM <= QBlock + BlockM + w
        BY <1>3, <2>0, Sizes
      <3> QED
        BY <1>4, <1>7, <2>1, <3>1, <3>2
    <2>3. Len(soft[QRow(w)'].l) = 0 /\ O[QRow(w)'] = NotWritten
      BY <2>2 DEF RowInv, LaterRow
    <2>4. Passed(w)' = 0
      <3>1. pc'[w] = "load Q"
        BY <1>1
      <3>2. Passed(w)' = kv_block'[w] + 0
        BY <3>1 DEF Passed
      <3>3. kv_block'[w] = 0
        BY <1>1
      <3> QED
        BY <3>2, <3>3
    <2>5. 0 <= End(QRow(w))'
      <3>1. End(QRow(w))' = IF call.causal THEN QRow(w)' + 1 ELSE call.S
        BY <1>1 DEF End
      <3>2. QRow(w)' \in Nat
        BY <1>4, <1>7, <2>2
      <3> QED
        BY <1>7, <3>1, <3>2
    <2> QED
      BY <2>3, <2>4, <2>5 DEF Lesser
  <1> QED
    BY <1>4, <1>5, <1>6 DEF RowInv

LEMMA RowsHold == Spec => []RowInv
  <1>1. Init => RowInv
    <2> SUFFICES ASSUME Init PROVE RowInv
      OBVIOUS
    <2>0. PlaceInv
      BY PlaceInit
    <2>1. ASSUME NEW q \in Rows PROVE soft[q].l = <<>> /\ O[q] = NotWritten
      BY DEF Init, Start
    <2>2. Len(<<>>) = 0 /\ IsSum(<<>>)
      BY DEF IsSum
    <2>3. ASSUME NEW w \in Warps, Launched, ValidQ(w) PROVE Lesser(Passed(w), End(QRow(w))) = 0
      <3>1. kv_block[w] = 0 /\ pc[w] = "load Q"
        BY <2>3 DEF Init
      <3>2. Passed(w) = kv_block[w] + 0
        BY <3>1 DEF Passed
      <3>3. Passed(w) = 0
        <4>1. kv_block[w] = 0
          BY <3>1
        <4> QED
          BY <3>2, <4>1
      <3>4. End(QRow(w)) \in Nat
        BY <2>0, <2>3, RowType
      <3> QED
        BY <3>3, <3>4 DEF Lesser
    <2>4. ASSUME NEW w \in Warps PROVE RowOfWarp(w)
      BY <2>0, <2>1, <2>2, <2>3, RowType DEF RowOfWarp
    <2> QED
      BY <2>1, <2>2, <2>4 DEF RowInv, LaterRow
  <1>2. PlaceInv /\ RowInv /\ [Next]_vars => RowInv'
    <2> SUFFICES ASSUME PlaceInv, RowInv, [Next]_vars PROVE RowInv'
      OBVIOUS
    <2>1. CASE UNCHANGED vars
      BY <2>1, OtherRows DEF vars, Lesser, Passed, End, QRow, QBlock
    <2>2. ASSUME NEW w \in Warps, WarpStep(w) PROVE RowInv'
      BY <2>2, ScanKeyRows, WarpRows, WriteRows DEF WarpStep
    <2> QED
      BY <2>1, <2>2, BarrierRows, NextBlockRows DEF Next
  <1> QED
    BY <1>1, <1>2, PlaceHolds, PTL DEF Spec
-----------------------------------------------------------------------------
(* The tiled kernel does what the simple one does.                         *)

LEMMA SameDot == ASSUME NEW q, NEW k, NEW D PROVE Simple!Dot(q, k, D) = Dot(q, k, D)
  <1>1. \A S : Simple!Product(q, k, S) = Product(q, k, S)
    BY DEF Product, Simple!Product, MapThenSumSet, Simple!MapThenSumSet, MapThenFoldSet,
           Simple!MapThenFoldSet
  <1>2. \A lane : Simple!LaneDims(lane, D) = LaneDims(lane, D)
    BY DEF LaneDims, Simple!LaneDims, MaxDPerLane, Simple!MaxDPerLane
  <1>3. \A x : Simple!WarpReduceSum(x) = WarpReduceSum(x)
    BY DEF WarpReduceSum, Simple!WarpReduceSum, Offsets, Simple!Offsets, ShflDown,
           Simple!ShflDown, Lanes, Simple!Lanes
  <1>4.   [lane \in Simple!Lanes |-> Simple!Product(q, k, Simple!LaneDims(lane, D))]
        = [lane \in Lanes |-> Product(q, k, LaneDims(lane, D))]
    BY <1>1, <1>2 DEF Lanes, Simple!Lanes
  <1> QED
    BY <1>3, <1>4 DEF Dot, Simple!Dot

LEMMA SameTerms ==
  /\ Simple!Rows = Rows
  /\ \A q : Simple!KvEnd(q) = End(q)
  /\ \A s, score, v : Simple!Update(s, score, v) = Update(s, score, v)
  /\ \A s : Simple!Quotients(s) = Quotients(s)
  /\ \A D : Simple!Start(D) = Start(D)
  <1>1. Simple!Rows = Rows /\ \A q : Simple!KvEnd(q) = End(q)
    BY DEF Rows, Simple!Rows, Launched, Simple!Launched, End, Simple!KvEnd
  <1>2. \A s, score, v : Simple!Update(s, score, v) = Update(s, score, v)
    BY DEF Update, Simple!Update, Scale, Simple!Scale, AddTerm, Simple!AddTerm, Max, Simple!Max
  <1>3. (\A s : Simple!Quotients(s) = Quotients(s)) /\ \A D : Simple!Start(D) = Start(D)
    BY DEF Quotients, Simple!Quotients, Start, Simple!Start
  <1> QED
    BY <1>1, <1>2, <1>3

\* What a warp reads of the tiles for a key of its row is that row of Q, and the key's rows
\* of K and V.
LEMMA ReadsRows ==
  ASSUME PlaceInv, FillInv, NEW w \in Warps, pc[w] = "scan", at[w] < BlockN, ~Skipped(w)
  PROVE  /\ RowOf(sQ, w) = call.Q[QRow(w)]
         /\ RowOf(sK, at[w]) = call.K[KeyRow(w)]
         /\ RowOf(sV, at[w]) = call.V[KeyRow(w)]
  <1>1. Launched /\ call \in Calls
    BY DEF PlaceInv, Counters, Shapes
  <1>2. ValidQ(w) /\ KeyRow(w) < call.S /\ QBlock + w < call.S
    <2>1. KeyRow(w) \in Int /\ call.S \in Int
      BY <1>1, SkippedOrNot, RowType
    <2> QED
      BY <2>1 DEF Skipped, ValidQ, QRow
  <1>3. at[w] \in 0..(BlockN - 1) /\ kv_block[w] \in Nat /\ kv_block[w] + at[w] \in Nat
    BY Sizes DEF PlaceInv, Shapes
  <1>4. QRow(w) \in 0..(call.S - 1) /\ w \in 0..(BlockM - 1)
    BY <1>1, <1>2, RowType DEF ValidQ
  <1>5. KeyRow(w) \in 0..(call.S - 1)
    BY <1>1, <1>2, <1>3, RowType DEF KeyRow
  <1>6. ASSUME NEW d \in Dims
        PROVE  /\ sQ[<<w, d>>] = call.Q[QRow(w)][d] /\ sK[<<at[w], d>>] = call.K[KeyRow(w)][d]
               /\ sV[<<at[w], d>>] = call.V[KeyRow(w)][d]
    <2>1. <<w, d>> \in Cells(BlockM) /\ <<at[w], d>> \in Cells(BlockN)
      BY <1>3, <1>4 DEF Cells
    <2>2. sQ[<<w, d>>] = Cell(QBlock, <<w, d>>, call.Q)
      BY <2>1, WholeTiles
    <2>3. /\ sK[<<at[w], d>>] = Cell(kv_block[w], <<at[w], d>>, call.K)
          /\ sV[<<at[w], d>>] = Cell(kv_block[w], <<at[w], d>>, call.V)
      BY <2>1, WholeTiles
    <2> QED
      BY <1>2, <2>2, <2>3 DEF Cell, KeyRow, QRow
  <1>7. /\ call.Q[QRow(w)] \in [Dims -> Int] /\ call.K[KeyRow(w)] \in [Dims -> Int]
        /\ call.V[KeyRow(w)] \in [Dims -> Int]
    BY <1>1, <1>4, <1>5, CallType DEF Dims
  <1> QED
    BY <1>6, <1>7 DEF RowOf

LEMMA ScanKeyScans ==
  ASSUME PlaceInv, FillInv, RowInv, NEW w \in Warps, ScanKey(w)
  PROVE  \E q \in Rows : Simple!Scan(q)
  <1>1. /\ pc[w] = "scan" /\ at[w] < BlockN /\ ~Skipped(w)
        /\ soft' = [soft EXCEPT ![QRow(w)] =
             Update(soft[QRow(w)], Dot(RowOf(sQ, w), RowOf(sK, at[w]), call.D), RowOf(sV, at[w]))]
        /\ UNCHANGED <<call, O>>
    BY DEF ScanKey
  <1>2. Launched /\ DOMAIN soft = Rows
    BY <1>1 DEF PlaceInv, Counters, Shapes
  <1>3. ValidQ(w) /\ Passed(w) < End(QRow(w)) /\ KeyRow(w) = Passed(w)
    BY <1>1, <1>2, SkippedOrNot
  <1>4. PICK q \in Rows : q = QRow(w)
    BY <1>2, <1>3, RowType
  <1>5. Passed(w) \in Nat /\ End(q) \in Nat
    BY <1>2, <1>3, <1>4, RowType
  <1>6. PICK k_row : k_row = [p \in Rows |-> Len(soft[p].l)]
    OBVIOUS
  <1>7. k_row[q] = KeyRow(w) /\ k_row[q] < End(q)
    <2>1. Len(soft[q].l) = Passed(w)
      BY <1>2, <1>3, <1>4, <1>5 DEF RowInv, RowOfWarp, Lesser
    <2> QED
      BY <1>3, <1>4, <1>6, <2>1
  <1>8. PICK score, v :
          /\ score = Dot(call.Q[q], call.K[KeyRow(w)], call.D)
          /\ v = call.V[KeyRow(w)]
          /\ soft' = [soft EXCEPT ![q] = Update(soft[q], score, v)]
    BY <1>1, <1>4, ReadsRows
  <1>9. [p \in Rows |-> Len(soft[p].l)]' = [k_row EXCEPT ![q] = k_row[q] + 1]
    <2>1. Rows' = Rows
      BY <1>1 DEF Rows, Launched
    <2>2. Len(Update(soft[q], score, v).l) = Len(soft[q].l) + 1
      BY <1>4, UpdateAdds DEF RowInv
    <2>3. \A p \in Rows : Len(soft'[p].l) = IF p = q THEN Len(soft[p].l) + 1 ELSE Len(soft[p].l)
      BY <1>2, <1>4, <1>8, <2>2
    <2> QED
      BY <1>4, <1>6, <2>1, <2>3
  <1>10. soft' = [soft EXCEPT ![q] =
            Simple!Update(soft[q], Simple!Dot(call.Q[q], call.K[k_row[q]], call.D),
                          call.V[k_row[q]])]
    BY <1>7, <1>8, SameDot, SameTerms
  <1>11. k_row[q] < Simple!KvEnd(q) /\ UNCHANGED <<call, O>>
    BY <1>1, <1>7, SameTerms
  <1>12. Simple!Scan(q)
    BY <1>6, <1>9, <1>10, <1>11 DEF Simple!Scan
  <1> QED
    BY <1>12

LEMMA WriteWritesBack ==
  ASSUME PlaceInv, RowInv, NEW w \in Warps, Write(w), ValidQ(w)
  PROVE  \E q \in Rows : Simple!WriteBack(q)
  <1>1. /\ pc[w] = "write" /\ UNCHANGED <<call, soft>>
        /\ O' = [O EXCEPT ![QRow(w)] = Quotients(soft[QRow(w)])]
    BY DEF Write
  <1>2. Launched
    BY <1>1 DEF PlaceInv, Counters
  <1>3. PICK q \in Rows : q = QRow(w)
    BY <1>2, RowType
  <1>4. End(q) \in Nat /\ Passed(w) \in Nat /\ End(q) <= Passed(w)
    BY <1>1, <1>2, <1>3, RowType, AllPassed
  <1>5. Len(soft[q].l) = End(q) /\ O[q] = NotWritten
    <2>1. Len(soft[q].l) = Lesser(Passed(w), End(q)) /\ O[q] = NotWritten
      BY <1>1, <1>2, <1>3 DEF RowInv, RowOfWarp
    <2> QED
      BY <1>4, <2>1 DEF Lesser
  <1>6. Rows' = Rows
    BY <1>1 DEF Rows, Launched
  <1>7. Simple!WriteBack(q)
    BY <1>1, <1>3, <1>5, <1>6, SameTerms DEF Simple!WriteBack
  <1> QED
    BY <1>7

LEMMA OtherStepsStutter == ASSUME UNCHANGED <<call, soft, O>> PROVE UNCHANGED Simple!vars
  BY DEF Simple!vars, Rows, Launched

(* The tiled kernel implements the simple one: a key a warp scans in       *)
(* shared memory is the key the simple kernel reads next for that row, at  *)
(* the same values of Q, K and V; a row is written when it has seen all    *)
(* its keys, and once; loads, barriers, skipped keys and warps without a   *)
(* row change nothing that can be seen.                                    *)
THEOREM TilesImplementSimple == Spec => ImplementsSimple
  <1>1. Init => Simple!Init
    <2> SUFFICES ASSUME Init PROVE Simple!Init
      OBVIOUS
    <2>1. soft = [q \in Rows |-> Start(call.D)] /\ O = [q \in Rows |-> NotWritten] /\ call \in Calls
      BY DEF Init
    <2>2. \A q \in Rows : soft[q].l = <<>>
      BY <2>1 DEF Start
    <2>3. [q \in Rows |-> Len(soft[q].l)] = [q \in Rows |-> 0]
      BY <2>2
    <2> QED
      BY <2>1, <2>3, SameTerms DEF Simple!Init
  <1>2. PlaceInv /\ FillInv /\ RowInv /\ [Next]_vars => [Simple!Next]_Simple!vars
    <2> SUFFICES ASSUME PlaceInv, FillInv, RowInv, [Next]_vars PROVE [Simple!Next]_Simple!vars
      OBVIOUS
    <2>1. CASE UNCHANGED vars
      BY <2>1, OtherStepsStutter DEF vars
    <2>2. CASE QReady \/ KVReady \/ NextTile \/ NextBlock
      BY <2>2, OtherStepsStutter DEF QReady, KVReady, NextTile, NextBlock
    <2>3. ASSUME NEW w \in Warps, WarpStep(w) PROVE [Simple!Next]_Simple!vars
      <3>1. CASE ScanKey(w)
        BY <3>1, ScanKeyScans, SameTerms DEF Simple!Next
      <3>2. CASE Write(w)
        <4>1. CASE ValidQ(w)
          BY <3>2, <4>1, WriteWritesBack, SameTerms DEF Simple!Next
        <4>2. CASE ~ValidQ(w)
          BY <3>2, <4>2, OtherStepsStutter DEF Write
        <4> QED
          BY <4>1, <4>2
      <3>3. CASE LoadQ(w) \/ LoadKV(w) \/ Loaded(w) \/ SkipKey(w) \/ Scanned(w)
        BY <3>3, OtherStepsStutter DEF LoadQ, LoadKV, Loaded, SkipKey, Scanned
      <3> QED
        BY <2>3, <3>1, <3>2, <3>3 DEF WarpStep
    <2> QED
      BY <2>1, <2>2, <2>3 DEF Next
  <1> QED
    BY <1>1, <1>2, PlaceHolds, FillHolds, RowsHold, PTL DEF Spec, ImplementsSimple, Simple!Spec
-----------------------------------------------------------------------------
(* The rows of O are attention.                                            *)

\* The terms of a sum over the first n keys, with the scores f relative to m.
Terms(of, f, n, m) == [i \in 1..n |-> [of |-> of[i - 1], exp |-> f[i - 1] - m]]

LEMMA TermsLen == ASSUME NEW n \in Nat, NEW of, NEW f, NEW m PROVE Len(Terms(of, f, n, m)) = n
  <1> DEFINE s == Terms(of, f, n, m)
             U == {s[i] : i \in 1..n}
  <1>1. DOMAIN s = 1..n /\ s = [i \in 1..n |-> s[i]]
    BY DEF Terms
  <1> HIDE DEF s
  <1>2. s \in [1..n -> U]
    BY <1>1
  <1>3. s \in Seq(U)
    BY <1>2, SeqDef
  <1>4. Len(s) = n
    BY <1>1, <1>3, LenProperties
  <1> QED
    BY <1>4 DEF s

LEMMA TermsStep ==
  ASSUME NEW n \in Nat, NEW f, \A k \in 0..n : f[k] \in Int, NEW of, NEW m \in Int, NEW b \in Int
  PROVE  AddTerm(Scale(Terms(of, f, n, m), m - b), of[n], f[n] - b) = Terms(of, f, n + 1, b)
  <1> DEFINE s == Scale(Terms(of, f, n, m), m - b)
  <1>1. DOMAIN s = 1..n /\ s = [i \in 1..n |-> s[i]]
    BY DEF Scale, Terms
  <1>2. ASSUME NEW i \in 1..n PROVE s[i] = [of |-> of[i - 1], exp |-> f[i - 1] - b]
    <2>1. s[i] = [of |-> of[i - 1], exp |-> (f[i - 1] - m) + (m - b)]
      BY DEF Scale, Terms
    <2>2. f[i - 1] \in Int
      OBVIOUS
    <2>3. (f[i - 1] - m) + (m - b) = f[i - 1] - b
      BY <2>2
    <2> QED
      BY <2>1, <2>3
  <1> HIDE DEF s
  <1>3. PICK U : U = {s[i] : i \in 1..n} \cup {[of |-> of[n], exp |-> f[n] - b]}
    OBVIOUS
  <1>4. s \in [1..n -> U] /\ [of |-> of[n], exp |-> f[n] - b] \in U
    BY <1>1, <1>3
  <1>5. s \in Seq(U)
    BY <1>4, SeqDef
  <1>6. Len(s) = n
    BY <1>1, <1>5, LenProperties
  <1>7. PICK a : a = Append(s, [of |-> of[n], exp |-> f[n] - b])
    OBVIOUS
  <1>8. /\ a \in Seq(U) /\ Len(a) = n + 1
        /\ \A i \in 1..n : a[i] = s[i]
        /\ a[n + 1] = [of |-> of[n], exp |-> f[n] - b]
    BY <1>4, <1>5, <1>6, <1>7, AppendProperties
  <1>9. a = [i \in 1..(n + 1) |-> a[i]]
    BY <1>8, LenProperties
  <1>10. ASSUME NEW i \in 1..(n + 1)
         PROVE  a[i] = [of |-> of[i - 1], exp |-> f[i - 1] - b]
    <2>1. CASE i \in 1..n
      BY <1>2, <1>8, <2>1
    <2>2. CASE i = n + 1
      <3>1. i - 1 = n
        BY <2>2
      <3> QED
        BY <1>8, <2>2, <3>1
    <2> QED
      BY <2>1, <2>2
  <1>11. a = Terms(of, f, n + 1, b)
    BY <1>9, <1>10 DEF Terms
  <1> QED
    BY <1>7, <1>11 DEF AddTerm, s

LEMMA MaxOfTwo ==
  ASSUME NEW a \in Int, NEW b \in Int PROVE Max({a, b}) \in {a, b} /\ a <= Max({a, b}) /\ b <= Max({a, b})
  <1>1. \E x \in {a, b} : \A y \in {a, b} : x >= y
    OBVIOUS
  <1>2. /\ Max({a, b}) \in {a, b}
        /\ Max({a, b}) >= a /\ Max({a, b}) >= b
    BY <1>1 DEF Max
  <1> QED
    BY <1>2

LEMMA MaxUnique ==
  ASSUME NEW T \in SUBSET Int, NEW b \in T, \A x \in T : x <= b PROVE Max(T) = b
  <1>1. Max(T) \in T /\ \A y \in T : Max(T) >= y
    BY DEF Max
  <1>2. Max(T) \in Int /\ b \in Int /\ Max(T) <= b /\ Max(T) >= b
    BY <1>1
  <1> QED
    BY <1>2

IsSoftmax(s) == s = [m |-> s.m, l |-> s.l, acc |-> s.acc]

\* The state of the softmax after the first n keys, whose scores are f and whose values V.
IsPartial(s, f, V, n, D) ==
  /\ IsSoftmax(s)
  /\ s.m \in Int /\ -FltMax <= s.m
  /\ s.m = -FltMax \/ \E k \in 0..(n - 1) : s.m = f[k]
  /\ \A k \in 0..(n - 1) : f[k] <= s.m
  /\ s.l = Terms([k \in Nat |-> 1], f, n, s.m)
  /\ s.acc = [d \in 0..(D - 1) |-> Terms([k \in Nat |-> V[k][d]], f, n, s.m)]

LEMMA UpdatePartial ==
  ASSUME NEW n \in Nat, NEW f, \A k \in 0..n : f[k] \in Int, NEW D \in Int,
         NEW V, NEW s, IsPartial(s, f, V, n, D), NEW v, \A d \in 0..(D - 1) : v[d] = V[n][d]
  PROVE  IsPartial(Update(s, f[n], v), f, V, n + 1, D)
  <1>1. s.m \in Int /\ f[n] \in Int /\ FltMax \in Nat
    BY WarpAssumption DEF IsPartial
  <1>2. PICK b \in Int : b = Max({s.m, f[n]}) /\ b \in {s.m, f[n]} /\ s.m <= b /\ f[n] <= b
    <2>1. /\ Max({s.m, f[n]}) \in {s.m, f[n]}
          /\ s.m <= Max({s.m, f[n]}) /\ f[n] <= Max({s.m, f[n]})
      BY <1>1, MaxOfTwo
    <2>2. Max({s.m, f[n]}) \in Int
      BY <1>1, <2>1
    <2> QED
      BY <2>1, <2>2
  <1>3. PICK u : u = Update(s, f[n], v)
    OBVIOUS
  <1>4. u = [m   |-> b,
             l   |-> AddTerm(Scale(s.l, s.m - b), 1, f[n] - b),
             acc |-> [d \in DOMAIN s.acc |-> AddTerm(Scale(s.acc[d], s.m - b), v[d], f[n] - b)]]
    BY <1>2, <1>3 DEF Update
  <1>5. /\ u.m = b
        /\ u.l = AddTerm(Scale(s.l, s.m - b), 1, f[n] - b)
        /\ u.acc = [d \in DOMAIN s.acc |-> AddTerm(Scale(s.acc[d], s.m - b), v[d], f[n] - b)]
    BY <1>4
  <1>6. u.l = Terms([k \in Nat |-> 1], f, n + 1, b)
    <2>1. PICK of : of = [k \in Nat |-> 1]
      OBVIOUS
    <2>2. s.l = Terms(of, f, n, s.m) /\ of[n] = 1
      BY <2>1 DEF IsPartial
    <2>3. AddTerm(Scale(Terms(of, f, n, s.m), s.m - b), of[n], f[n] - b) = Terms(of, f, n + 1, b)
      BY <1>1, TermsStep
    <2> QED
      BY <1>5, <2>1, <2>2, <2>3
  <1>7. u.acc = [d \in 0..(D - 1) |-> Terms([k \in Nat |-> V[k][d]], f, n + 1, b)]
    <2>1. s.acc = [d \in 0..(D - 1) |-> Terms([k \in Nat |-> V[k][d]], f, n, s.m)]
      BY DEF IsPartial
    <2>2. ASSUME NEW d \in 0..(D - 1)
          PROVE  AddTerm(Scale(s.acc[d], s.m - b), v[d], f[n] - b)
                   = Terms([k \in Nat |-> V[k][d]], f, n + 1, b)
      <3>1. PICK of : of = [k \in Nat |-> V[k][d]]
        OBVIOUS
      <3>2. s.acc[d] = Terms(of, f, n, s.m) /\ of[n] = v[d]
        BY <2>1, <3>1
      <3>3. AddTerm(Scale(Terms(of, f, n, s.m), s.m - b), of[n], f[n] - b) = Terms(of, f, n + 1, b)
        BY <1>1, TermsStep
      <3> QED
        BY <3>1, <3>2, <3>3
    <2> QED
      BY <1>5, <2>1, <2>2
  <1>8. /\ -FltMax <= b
        /\ b = -FltMax \/ \E k \in 0..n : b = f[k]
        /\ \A k \in 0..n : f[k] <= b
    <2>1. -FltMax <= s.m /\ (s.m = -FltMax \/ \E k \in 0..(n - 1) : s.m = f[k])
      BY DEF IsPartial
    <2>2. \A k \in 0..(n - 1) : f[k] <= s.m
      BY DEF IsPartial
    <2>3. -FltMax <= b
      BY <1>1, <1>2, <2>1
    <2>0. n \in 0..n /\ 0..(n - 1) \subseteq 0..n
      OBVIOUS
    <2>4. b = -FltMax \/ \E k \in 0..n : b = f[k]
      <3>1. CASE b = s.m
        BY <2>0, <2>1, <3>1
      <3>2. CASE b = f[n]
        BY <2>0, <3>2
      <3> QED
        BY <1>2, <3>1, <3>2
    <2>5. ASSUME NEW k \in 0..n PROVE f[k] <= b
      <3>1. CASE k = n
        BY <1>2, <3>1
      <3>2. CASE k \in 0..(n - 1)
        <4>1. f[k] <= s.m /\ f[k] \in Int
          BY <2>2, <3>2
        <4> QED
          BY <1>1, <1>2, <4>1
      <3> QED
        BY <3>1, <3>2
    <2> QED
      BY <2>3, <2>4, <2>5
  <1>9. 0..(n + 1 - 1) = 0..n
    OBVIOUS
  <1>10. /\ u.m \in Int /\ -FltMax <= u.m
         /\ u.m = -FltMax \/ \E k \in 0..(n + 1 - 1) : u.m = f[k]
         /\ \A k \in 0..(n + 1 - 1) : f[k] <= u.m
    BY <1>5, <1>8, <1>9
  <1>11. /\ u.l = Terms([k \in Nat |-> 1], f, n + 1, u.m)
         /\ u.acc = [d \in 0..(D - 1) |-> Terms([k \in Nat |-> V[k][d]], f, n + 1, u.m)]
    BY <1>5, <1>6, <1>7
  <1>12. IsSoftmax(u)
    BY <1>4, Zenon DEF IsSoftmax
  <1>13. IsPartial(u, f, V, n + 1, D)
    BY <1>10, <1>11, <1>12 DEF IsPartial
  <1> QED
    BY <1>3, <1>13

Scores(q) == [k \in 0..(call.S - 1) |-> Score(q, k)]

\* Each row's state is that of the softmax over the keys it has seen, and a row of O that is
\* written was written when the row had seen all its keys.
SumInv ==
  /\ call \in Calls /\ DOMAIN soft = Rows /\ DOMAIN O = Rows
  /\ \A q \in Rows :
       /\ Len(soft[q].l) \in 0..End(q)
       /\ IsPartial(soft[q], Scores(q), call.V, Len(soft[q].l), call.D)
       /\ O[q] # NotWritten => O[q] = Quotients(soft[q]) /\ Len(soft[q].l) = End(q)

LEMMA EndType ==
  ASSUME call \in Calls, NEW q \in Rows
  PROVE  /\ q \in Nat /\ q \in 0..(call.S - 1) /\ End(q) \in Nat /\ End(q) <= call.S /\ 0 < End(q)
         /\ call.S \in Nat /\ call.D \in Nat /\ call.causal \in BOOLEAN /\ Launched
  <1>1. Launched /\ q \in 0..(call.S - 1)
    BY DEF Rows
  <1>2. call.S \in Nat /\ call.D \in Nat /\ call.causal \in BOOLEAN
    BY <1>1, CallType DEF Launched
  <1> QED
    BY <1>1, <1>2 DEF End

LEMMA ScoresType ==
  ASSUME call \in Calls, NEW q \in Rows
  PROVE  \A k \in 0..(call.S - 1) :
           /\ Scores(q)[k] = Dot(call.Q[q], call.K[k], call.D) /\ Scores(q)[k] = Score(q, k)
           /\ Scores(q)[k] \in Int /\ -FltMax <= Scores(q)[k]
  <1>1. Launched /\ q \in 0..(call.S - 1)
    BY EndType
  <1>2. PICK D \in Nat : D = call.D /\ D <= MaxD
    BY <1>1, CallType DEF Launched
  <1>3. ASSUME NEW k \in 0..(call.S - 1)
        PROVE  /\ Dot(call.Q[q], call.K[k], call.D) = Score(q, k)
               /\ Score(q, k) \in Int /\ -FltMax <= Score(q, k)
    <2>1. call.Q[q] \in [0..(D - 1) -> Int] /\ call.K[k] \in [0..(D - 1) -> Int]
      BY <1>1, <1>2, CallsAssumption
    <2>2. \A d \in 0..(D - 1) : call.Q[q][d] * call.K[k][d] \in Int
      BY <2>1
    <2>3. /\ Dot(call.Q[q], call.K[k], D) = Product(call.Q[q], call.K[k], 0..(D - 1))
          /\ Product(call.Q[q], call.K[k], 0..(D - 1)) \in Int
      BY <1>2, <2>2, WarpSumIsProduct
    <2>4. -FltMax <= ScoreIn(call, q, k)
      BY <1>1, ScoresAssumption
    <2> QED
      BY <1>2, <2>3, <2>4 DEF Score, ScoreIn
  <1> QED
    BY <1>3 DEF Scores

LEMMA SumInit == Simple!Init => SumInv
  <1> SUFFICES ASSUME Simple!Init PROVE SumInv
    OBVIOUS
  <1>1. /\ call \in Calls
        /\ soft = [q \in Rows |-> Start(call.D)] /\ O = [q \in Rows |-> NotWritten]
    BY SameTerms DEF Simple!Init
  <1>2. ASSUME NEW q \in Rows
        PROVE  /\ Len(soft[q].l) \in 0..End(q)
               /\ IsPartial(soft[q], Scores(q), call.V, Len(soft[q].l), call.D)
               /\ O[q] = NotWritten
    <2>1. soft[q] = [m |-> -FltMax, l |-> <<>>, acc |-> [d \in 0..(call.D - 1) |-> <<>>]]
      BY <1>1 DEF Start
    <2>2. /\ soft[q].m = -FltMax /\ soft[q].l = <<>>
          /\ soft[q].acc = [d \in 0..(call.D - 1) |-> <<>>]
      BY <2>1
    <2>3. Len(soft[q].l) = 0 /\ O[q] = NotWritten
      BY <1>1, <2>2
    <2>4. -FltMax \in Int /\ -FltMax <= -FltMax
      BY WarpAssumption
    <2>5. \A of, f, m : Terms(of, f, 0, m) = <<>>
      BY DEF Terms
    <2>6. IsPartial(soft[q], Scores(q), call.V, 0, call.D)
      BY <2>1, <2>2, <2>4, <2>5 DEF IsPartial, IsSoftmax
    <2> QED
      BY <1>1, <2>3, <2>6, EndType
  <1> QED
    BY <1>1, <1>2 DEF SumInv

LEMMA ScanSums ==
  ASSUME SumInv, NEW q \in Rows, Simple!Scan(q) PROVE SumInv'
  <1>1. PICK n : n = Len(soft[q].l)
    OBVIOUS
  <1>2. /\ n < End(q) /\ UNCHANGED <<call, O>>
        /\ soft' = [soft EXCEPT ![q] =
             Update(soft[q], Dot(call.Q[q], call.K[n], call.D), call.V[n])]
    BY <1>1, SameDot, SameTerms DEF Simple!Scan
  <1>3. /\ n \in Nat /\ n \in 0..(call.S - 1) /\ call.D \in Int /\ call.S \in Nat
        /\ IsPartial(soft[q], Scores(q), call.V, n, call.D) /\ O[q] = NotWritten
    <2>1. n \in 0..End(q) /\ n # End(q)
      BY <1>1, <1>2, EndType DEF SumInv
    <2>2. call \in Calls
      BY DEF SumInv
    <2>3. n \in Nat /\ n \in 0..(call.S - 1) /\ call.D \in Int /\ call.S \in Nat
      BY <1>2, <2>1, <2>2, EndType
    <2> QED
      BY <1>1, <2>1, <2>3 DEF SumInv
  <1>4. PICK v : v = call.V[n]
    OBVIOUS
  <1>5. PICK f : f = Scores(q) /\ f[n] = Dot(call.Q[q], call.K[n], call.D) /\ \A k \in 0..n : f[k] \in Int
    BY <1>3, ScoresType DEF SumInv
  <1>6. PICK s : s = Update(soft[q], f[n], v)
    OBVIOUS
  <1>7. IsPartial(s, f, call.V, n + 1, call.D)
    <2>1. \A d \in 0..(call.D - 1) : v[d] = call.V[n][d]
      BY <1>4
    <2> QED
      BY <1>3, <1>5, <1>6, <2>1, UpdatePartial
  <1>8. soft' = [soft EXCEPT ![q] = s]
    BY <1>2, <1>4, <1>5, <1>6
  <1>9. Len(s.l) = n + 1
    <2>1. s.l = Terms([k \in Nat |-> 1], f, n + 1, s.m)
      BY <1>7 DEF IsPartial
    <2> QED
      BY <1>3, <2>1, TermsLen
  <1>10. call' \in Calls /\ Rows' = Rows /\ DOMAIN soft' = Rows' /\ DOMAIN O' = Rows'
    BY <1>2, <1>8 DEF SumInv, Rows, Launched
  <1>11. ASSUME NEW p \in Rows
         PROVE  /\ Len(soft'[p].l) \in 0..End(p)
                /\ IsPartial(soft'[p], Scores(p), call.V, Len(soft'[p].l), call.D)
                /\ O'[p] # NotWritten => O'[p] = Quotients(soft'[p]) /\ Len(soft'[p].l) = End(p)
    <2>1. CASE p = q
      <3>1. soft'[p] = s
        BY <1>8, <2>1 DEF SumInv
      <3>2. n + 1 \in 0..End(q)
        BY <1>2, <1>3, EndType DEF SumInv
      <3> QED
        BY <1>2, <1>3, <1>5, <1>7, <1>9, <2>1, <3>1, <3>2
    <2>2. CASE p # q
      <3>1. soft'[p] = soft[p] /\ O'[p] = O[p]
        BY <1>2, <1>8, <2>2 DEF SumInv
      <3> QED
        BY <3>1 DEF SumInv
    <2> QED
      BY <2>1, <2>2
  <1>12. \A p : Scores(p)' = Scores(p) /\ End(p)' = End(p)
    BY <1>2 DEF Scores, Score, End
  <1>13. ASSUME NEW p \in Rows
         PROVE  /\ (Len(soft[p].l) \in 0..End(p))'
                /\ IsPartial(soft[p], Scores(p), call.V, Len(soft[p].l), call.D)'
                /\ (O[p] # NotWritten => O[p] = Quotients(soft[p]) /\ Len(soft[p].l) = End(p))'
    <2>1. Scores(p)' = Scores(p) /\ End(p)' = End(p) /\ call' = call
      BY <1>2, <1>12
    <2>2. IsPartial(soft[p], Scores(p), call.V, Len(soft[p].l), call.D)'
      BY <1>11, <2>1 DEF IsPartial
    <2>3. (O[p] # NotWritten => O[p] = Quotients(soft[p]) /\ Len(soft[p].l) = End(p))'
      BY <1>11, <2>1 DEF Quotients
    <2> QED
      BY <1>11, <2>1, <2>2, <2>3
  <1> QED
    BY <1>10, <1>13 DEF SumInv

LEMMA SumKeeps ==
  ASSUME SumInv, UNCHANGED <<call, soft>>, DOMAIN O' = DOMAIN O,
         \A p \in Rows : \/ O'[p] = O[p]
                         \/ O'[p] = Quotients(soft[p]) /\ Len(soft[p].l) = End(p)
  PROVE  SumInv'
  <1>1. Rows' = Rows /\ \A p : Scores(p)' = Scores(p) /\ End(p)' = End(p)
    BY DEF Rows, Launched, Scores, Score, End
  <1>2. ASSUME NEW p \in Rows
        PROVE  /\ (Len(soft[p].l) \in 0..End(p))'
               /\ IsPartial(soft[p], Scores(p), call.V, Len(soft[p].l), call.D)'
               /\ (O[p] # NotWritten => O[p] = Quotients(soft[p]) /\ Len(soft[p].l) = End(p))'
    <2>1. IsPartial(soft[p], Scores(p), call.V, Len(soft[p].l), call.D)'
      BY <1>1 DEF SumInv, IsPartial
    <2>2. (O[p] # NotWritten => O[p] = Quotients(soft[p]) /\ Len(soft[p].l) = End(p))'
      BY <1>1 DEF SumInv, Quotients
    <2> QED
      BY <1>1, <2>1, <2>2 DEF SumInv
  <1> QED
    BY <1>1, <1>2 DEF SumInv

LEMMA SumStep == SumInv /\ [Simple!Next]_Simple!vars => SumInv'
  <1> SUFFICES ASSUME SumInv, [Simple!Next]_Simple!vars PROVE SumInv'
    OBVIOUS
  <1>1. CASE UNCHANGED Simple!vars
    BY <1>1, SumKeeps DEF Simple!vars
  <1>2. ASSUME NEW q \in Rows, Simple!Scan(q) PROVE SumInv'
    BY <1>2, ScanSums
  <1>3. ASSUME NEW q \in Rows, Simple!WriteBack(q) PROVE SumInv'
    <2>1. /\ [p \in Rows |-> Len(soft[p].l)][q] = End(q)
          /\ O' = [O EXCEPT ![q] = Quotients(soft[q])] /\ UNCHANGED <<call, soft>>
      BY <1>3, SameTerms DEF Simple!WriteBack
    <2>2. Len(soft[q].l) = End(q)
      BY <2>1
    <2>3. \A p \in Rows : \/ O'[p] = O[p]
                          \/ O'[p] = Quotients(soft[p]) /\ Len(soft[p].l) = End(p)
      BY <2>1, <2>2 DEF SumInv
    <2> QED
      BY <2>1, <2>3, SumKeeps
  <1>4. Simple!Next => \E q \in Rows : Simple!Scan(q) \/ Simple!WriteBack(q)
    BY SameTerms DEF Simple!Next
  <1> QED
    BY <1>1, <1>2, <1>3, <1>4

LEMMA SumGivesAttention == ASSUME SumInv PROVE Attention
  <1> SUFFICES ASSUME NEW q \in Rows, O[q] # NotWritten
               PROVE  O[q] = [d \in Dims |-> [over  |-> Softmax(q, LAMBDA k : call.V[k][d]),
                                              under |-> Softmax(q, LAMBDA k : 1)]]
    BY DEF Attention
  <1>1. PICK n : n = End(q)
    OBVIOUS
  <1>2. /\ n \in Nat /\ 0 < n /\ n <= call.S /\ call.S \in Nat /\ call.causal \in BOOLEAN
        /\ q \in Nat /\ q < call.S /\ n = IF call.causal THEN q + 1 ELSE call.S
    BY <1>1, EndType DEF SumInv, End
  <1>3. PICK s : s = soft[q]
    OBVIOUS
  <1>4. O[q] = Quotients(s) /\ IsPartial(s, Scores(q), call.V, n, call.D)
    BY <1>1, <1>3 DEF SumInv
  <1>5. \A k \in 0..(n - 1) :
          Scores(q)[k] = Score(q, k) /\ Scores(q)[k] \in Int /\ -FltMax <= Scores(q)[k]
    <2>1. 0..(n - 1) \subseteq 0..(call.S - 1)
      BY <1>2
    <2> QED
      BY <2>1, ScoresType DEF SumInv
  <1>6. Seen(q) = 0..(n - 1)
    BY <1>2 DEF Seen
  <1>7. Cardinality(Seen(q)) = n
    <2>1. Cardinality(0..(n - 1)) = n
      BY <1>2, FS_Interval
    <2> QED
      BY <1>6, <2>1
  <1>8. Largest(q) = s.m
    <2>1. s.m \in Int /\ -FltMax <= s.m /\ \A k \in 0..(n - 1) : Scores(q)[k] <= s.m
      BY <1>4 DEF IsPartial
    <2>2. \E k \in 0..(n - 1) : s.m = Scores(q)[k]
      <3>1. CASE s.m = -FltMax
        <4>1. 0 \in 0..(n - 1)
          BY <1>2
        <4>2. Scores(q)[0] \in Int /\ -FltMax <= Scores(q)[0] /\ Scores(q)[0] <= s.m
          BY <1>5, <2>1, <4>1
        <4>3. s.m = Scores(q)[0]
          BY <2>1, <3>1, <4>2
        <4> QED
          BY <4>1, <4>3
      <3>2. CASE s.m # -FltMax
        BY <1>4, <3>2 DEF IsPartial
      <3> QED
        BY <3>1, <3>2
    <2>3. PICK T : T = {Score(q, k) : k \in Seen(q)}
      OBVIOUS
    <2>4. T \in SUBSET Int /\ s.m \in T /\ \A x \in T : x <= s.m
      BY <1>5, <1>6, <2>1, <2>2, <2>3
    <2>5. Max(T) = s.m
      BY <2>4, MaxUnique
    <2> QED
      BY <2>3, <2>5 DEF Largest
  <1>9. s.l = Softmax(q, LAMBDA k : 1)
    <2>1. s.l = Terms([k \in Nat |-> 1], Scores(q), n, s.m)
      BY <1>4 DEF IsPartial
    <2>2. \A i \in 1..n : i - 1 \in Nat /\ i - 1 \in 0..(n - 1)
      BY <1>2
    <2> QED
      BY <1>5, <1>7, <1>8, <2>1, <2>2 DEF Softmax, Terms
  <1>10. /\ DOMAIN s.acc = Dims
         /\ \A d \in Dims : s.acc[d] = Softmax(q, LAMBDA k : call.V[k][d])
    <2>1. s.acc = [d \in Dims |-> Terms([k \in Nat |-> call.V[k][d]], Scores(q), n, s.m)]
      BY <1>4 DEF IsPartial, Dims
    <2>2. \A i \in 1..n : i - 1 \in Nat /\ i - 1 \in 0..(n - 1)
      BY <1>2
    <2>3. ASSUME NEW d \in Dims PROVE s.acc[d] = Softmax(q, LAMBDA k : call.V[k][d])
      BY <1>5, <1>7, <1>8, <2>1, <2>2 DEF Softmax, Terms
    <2> QED
      BY <2>1, <2>3
  <1> QED
    BY <1>4, <1>9, <1>10 DEF Quotients

(* A row of O is softmax(Q K^T / sqrt(D)) V: the online rescaling of l and *)
(* acc, and the tiles, the barriers and the skipped keys around it, leave  *)
(* each key's value in the row once, with the weight it has in a softmax   *)
(* that knows all the scores beforehand; and no row is written too early.  *)
THEOREM RowsAreAttention == Spec => []Attention
  <1>1. Simple!Spec => []SumInv
    BY SumInit, SumStep, PTL DEF Simple!Spec
  <1>2. SumInv => Attention
    BY SumGivesAttention
  <1> QED
    BY <1>1, <1>2, TilesImplementSimple, PTL DEF ImplementsSimple
-----------------------------------------------------------------------------
(* Types: shared memory holds numbers, the softmax of a row and a row of O *)
(* are sums of terms.                                                      *)

TileTypes ==
  /\ sQ \in [Cells(BlockM) -> Int]
  /\ sK \in [Cells(BlockN) -> Int] /\ sV \in [Cells(BlockN) -> Int]
  /\ soft = [q \in Rows |-> soft[q]] /\ O = [q \in Rows |-> O[q]]

LEMMA EverywhereType ==
  ASSUME NEW rows \in Nat PROVE Everywhere(rows, Junk) \in [Cells(rows) -> Int]
  BY JunkAssumption DEF Everywhere

LEMMA FillType ==
  ASSUME call \in Calls, NEW rows \in Nat, NEW tile \in [Cells(rows) -> Int], NEW cells,
         NEW first \in Nat, NEW src \in [0..(call.S - 1) -> [0..(call.D - 1) -> Int]]
  PROVE  Fill(tile, cells, first, src) \in [Cells(rows) -> Int]
  <1>1. call.S \in Int
    BY CallType
  <1>2. ASSUME NEW c \in Cells(rows), first + c[1] < call.S
        PROVE  src[first + c[1]][c[2]] \in Int
    <2>1. c[1] \in 0..(rows - 1) /\ c[2] \in 0..(call.D - 1)
      BY DEF Cells, Dims
    <2>2. first + c[1] \in 0..(call.S - 1)
      BY <1>1, <1>2, <2>1
    <2> QED
      BY <2>1, <2>2
  <1>3. \A c \in Cells(rows) :
          (IF c[1] * call.D + c[2] \notin cells THEN tile[c]
           ELSE IF first + c[1] < call.S THEN src[first + c[1]][c[2]] ELSE 0) \in Int
    BY <1>2
  <1>4. DOMAIN tile = Cells(rows)
    OBVIOUS
  <1> QED
    BY <1>3, <1>4 DEF Fill

LEMMA SameShapes == ASSUME call' = call PROVE Rows' = Rows /\ \A rows : Cells(rows)' = Cells(rows)
  BY DEF Rows, Launched, Cells, Dims

LEMMA LoadTypes ==
  ASSUME PlaceInv, TileTypes, NEW w \in Warps, LoadQ(w) \/ LoadKV(w) PROVE TileTypes'
  <1>1. call \in Calls /\ kv_block[w] \in Nat /\ pc[w] # "done"
    BY DEF PlaceInv, Shapes, LoadQ, LoadKV
  <1>2. QBlock \in Nat
    BY <1>1, KvEndType DEF PlaceInv, Counters
  <1>3. Rows' = Rows /\ Cells(BlockM)' = Cells(BlockM) /\ Cells(BlockN)' = Cells(BlockN)
    BY SameShapes DEF LoadQ, LoadKV
  <1>4. CASE LoadQ(w)
    <2>1. sQ' \in [Cells(BlockM) -> Int]
      BY <1>1, <1>2, <1>4, FillType, CallType, Sizes DEF LoadQ, TileTypes
    <2> QED
      BY <1>3, <1>4, <2>1 DEF LoadQ, TileTypes
  <1>5. CASE LoadKV(w)
    <2>1. sK' \in [Cells(BlockN) -> Int]
      BY <1>1, <1>5, FillType, CallType, Sizes DEF LoadKV, TileTypes
    <2>2. sV' \in [Cells(BlockN) -> Int]
      BY <1>1, <1>5, FillType, CallType, Sizes DEF LoadKV, TileTypes
    <2> QED
      BY <1>3, <1>5, <2>1, <2>2 DEF LoadKV, TileTypes
  <1> QED
    BY <1>4, <1>5

LEMMA TypesStep == PlaceInv /\ TileTypes /\ [Next]_vars => TileTypes'
  <1> SUFFICES ASSUME PlaceInv, TileTypes, [Next]_vars PROVE TileTypes'
    OBVIOUS
  <1>1. ASSUME UNCHANGED <<call, sQ, sK, sV, soft, O>> PROVE TileTypes'
    BY <1>1, SameShapes DEF TileTypes
  <1>2. CASE UNCHANGED vars
    BY <1>1, <1>2 DEF vars
  <1>3. CASE QReady \/ KVReady \/ NextTile
    BY <1>1, <1>3 DEF QReady, KVReady, NextTile
  <1>4. CASE NextBlock
    BY <1>4, SameShapes, EverywhereType, Sizes DEF NextBlock, TileTypes
  <1>5. ASSUME NEW w \in Warps, WarpStep(w) PROVE TileTypes'
    <2>1. CASE Loaded(w) \/ SkipKey(w) \/ Scanned(w)
      BY <1>1, <2>1 DEF Loaded, SkipKey, Scanned
    <2>2. CASE ScanKey(w)
      BY <2>2, SameShapes DEF ScanKey, TileTypes
    <2>3. CASE Write(w)
      BY <2>3, SameShapes DEF Write, TileTypes
    <2> QED
      BY <1>5, <2>1, <2>2, <2>3, LoadTypes DEF WarpStep
  <1> QED
    BY <1>2, <1>3, <1>4, <1>5 DEF Next

LEMMA TypesHold == Spec => []TileTypes
  <1>1. Init => TileTypes
    BY EverywhereType, Sizes DEF Init, TileTypes
  <1> QED
    BY <1>1, TypesStep, PlaceHolds, PTL DEF Spec

LEMMA TermsType ==
  ASSUME NEW n \in Nat, NEW of, NEW f, NEW m \in Int,
         \A k \in 0..(n - 1) : of[k] \in Int /\ f[k] \in Int
  PROVE  Terms(of, f, n, m) \in Sum
  <1>1. \A i \in 1..n : [of |-> of[i - 1], exp |-> f[i - 1] - m] \in [of : Int, exp : Int]
    <2> SUFFICES ASSUME NEW i \in 1..n
                 PROVE  [of |-> of[i - 1], exp |-> f[i - 1] - m] \in [of : Int, exp : Int]
      OBVIOUS
    <2>1. i - 1 \in 0..(n - 1)
      OBVIOUS
    <2> QED
      BY <2>1
  <1>2. Terms(of, f, n, m) \in [1..n -> [of : Int, exp : Int]]
    BY <1>1 DEF Terms
  <1> QED
    BY <1>2, SeqDef DEF Sum

LEMMA RowTypes ==
  ASSUME SumInv, NEW q \in Rows
  PROVE  /\ soft[q] \in [m : Int, l : Sum, acc : [Dims -> Sum]]
         /\ O[q] \in [Dims -> [over : Sum, under : Sum]] \cup {NotWritten}
  <1>1. PICK s, n, f : s = soft[q] /\ n = Len(s.l) /\ f = Scores(q)
    OBVIOUS
  <1>2. /\ IsPartial(s, f, call.V, n, call.D) /\ n \in 0..End(q) /\ call \in Calls
        /\ O[q] # NotWritten => O[q] = Quotients(s)
    BY <1>1 DEF SumInv
  <1>3. n \in Nat /\ \A k \in 0..(n - 1) : k \in Nat /\ k \in 0..(call.S - 1)
    BY <1>2, EndType
  <1>4. s.m \in Int /\ \A k \in 0..(n - 1) : f[k] \in Int
    BY <1>1, <1>2, <1>3, ScoresType DEF IsPartial
  <1>5. s.l \in Sum
    <2>1. PICK of : of = [k \in Nat |-> 1]
      OBVIOUS
    <2>2. s.l = Terms(of, f, n, s.m) /\ \A k \in 0..(n - 1) : of[k] \in Int
      BY <1>2, <1>3, <2>1 DEF IsPartial
    <2> QED
      BY <1>3, <1>4, <2>2, TermsType
  <1>6. s.acc \in [Dims -> Sum]
    <2>1. s.acc = [d \in Dims |-> Terms([k \in Nat |-> call.V[k][d]], f, n, s.m)]
      BY <1>2 DEF IsPartial, Dims
    <2>2. ASSUME NEW d \in Dims PROVE Terms([k \in Nat |-> call.V[k][d]], f, n, s.m) \in Sum
      <3>1. PICK of : of = [k \in Nat |-> call.V[k][d]]
        OBVIOUS
      <3>2. call.V \in [0..(call.S - 1) -> [0..(call.D - 1) -> Int]] /\ d \in 0..(call.D - 1)
        BY <1>2, CallType DEF Dims
      <3>3. ASSUME NEW k \in 0..(n - 1) PROVE of[k] \in Int
        <4>1. k \in Nat /\ k \in 0..(call.S - 1)
          BY <1>3
        <4>2. of[k] = call.V[k][d]
          BY <3>1, <4>1
        <4> QED
          BY <3>2, <4>1, <4>2
      <3> QED
        BY <1>3, <1>4, <3>1, <3>3, TermsType
    <2> QED
      BY <2>1, <2>2
  <1>7. s \in [m : Int, l : Sum, acc : [Dims -> Sum]]
    BY <1>2, <1>4, <1>5, <1>6 DEF IsPartial, IsSoftmax
  <1>8. Quotients(s) \in [Dims -> [over : Sum, under : Sum]]
    BY <1>5, <1>6 DEF Quotients
  <1> QED
    BY <1>1, <1>2, <1>7, <1>8

(* Every variable keeps its type: the call, where the block and its warps  *)
(* are, the tiles of shared memory, the softmax of each row and O; and no  *)
(* warp scans beyond its tile or begins a tile beyond the sequence,        *)
(* whatever the tiles' sizes (the loops over kv_block and over the keys of *)
(* a tile).                                                                *)
THEOREM TypeInvariant == Spec => []TypeOK
  <1>1. Simple!Spec => []SumInv
    BY SumInit, SumStep, PTL DEF Simple!Spec
  <1>2. PlaceInv /\ TileTypes /\ SumInv => TypeOK
    <2> SUFFICES ASSUME PlaceInv, TileTypes, SumInv PROVE TypeOK
      OBVIOUS
    <2>1. ASSUME NEW w \in Warps, pc[w] = "scan" PROVE at[w] <= BlockN /\ kv_block[w] < call.S
      <3>1. kv_block[w] \in Nat /\ at[w] <= BlockN /\ kv_block[w] < KvEnd(w) /\ Launched
        BY <2>1 DEF PlaceInv, Shapes, Counters
      <3>2. KvEnd(w) \in Nat /\ KvEnd(w) <= call.S /\ call.S \in Int
        BY <3>1, KvEndType, CallType DEF PlaceInv, Shapes
      <3> QED
        BY <3>1, <3>2
    <2>2. soft \in [Rows -> [m : Int, l : Sum, acc : [Dims -> Sum]]]
      BY RowTypes DEF TileTypes
    <2>3. O \in [Rows -> [Dims -> [over : Sum, under : Sum]] \cup {NotWritten}]
      BY RowTypes DEF TileTypes
    <2> QED
      BY <2>1, <2>2, <2>3 DEF TypeOK, PlaceInv, Shapes, TileTypes
  <1> QED
    BY <1>1, <1>2, TilesImplementSimple, PlaceHolds, TypesHold, PTL DEF ImplementsSimple
=============================================================================
