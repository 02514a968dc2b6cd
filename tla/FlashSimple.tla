---------------------------- MODULE FlashSimple -----------------------------
(***************************************************************************)
(* flash_attention_simple_stand.cu: one warp for each row of the output,   *)
(* the keys read straight from global memory.  The rows of one head of one *)
(* batch; the others are the same at another offset (bh_base).             *)
(***************************************************************************)
EXTENDS OnlineSoftmax

CONSTANTS Calls,     \* calls of solve(): S, D, causal and the contents of Q, K and V
          NotWritten

VARIABLES call,
          k_row,     \* each row's next key
          soft,      \* its m, l and acc
          O

vars == <<call, k_row, soft, O>>

Launched == call.S > 0 /\ call.D > 0 /\ call.D <= MaxD
Rows == IF Launched THEN 0..(call.S - 1) ELSE {}

KvEnd(q) == IF call.causal THEN q + 1 ELSE call.S

Init ==
  /\ call \in Calls
  /\ k_row = [q \in Rows |-> 0]
  /\ soft = [q \in Rows |-> Start(call.D)]
  /\ O = [q \in Rows |-> NotWritten]

Scan(q) ==
  /\ k_row[q] < KvEnd(q) /\ k_row' = [k_row EXCEPT ![q] = @ + 1]
  /\ soft' = [soft EXCEPT ![q] =
       Update(@, Dot(call.Q[q], call.K[k_row[q]], call.D), call.V[k_row[q]])]
  /\ UNCHANGED <<call, O>>

WriteBack(q) ==
  /\ k_row[q] = KvEnd(q) /\ O[q] = NotWritten
  /\ O' = [O EXCEPT ![q] = Quotients(soft[q])]
  /\ UNCHANGED <<call, k_row, soft>>

Next == \E q \in Rows : Scan(q) \/ WriteBack(q)

Spec == Init /\ [][Next]_vars
=============================================================================
