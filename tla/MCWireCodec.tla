---------------------------- MODULE MCWireCodec -----------------------------
(* WireCodec for TLC: groups of two bits, words of nine (so that, as in    *)
(* the code, the last group of a varint has bits the word has no room      *)
(* for), halves of five; every field absent, small and large.              *)
EXTENDS WireCodec

CONSTANT Statuses
MCStatuses == {0, 1, 15}
MCNegative == {0, -1}

MCMessages == [id : {0, 3, 511}, kind : {0, 1, 4}, service : {<<>>, <<7>>},
               method : {<<>>, <<0>>}, payload : {<<>>, <<4, 0, 7, 1, 2>>},
               status : Statuses, error : {<<>>, <<1, 6>>}]
MCUpdates == {[Empty EXCEPT !.id = 4], [Empty EXCEPT !.payload = <<0>>, !.status = 2],
              [Empty EXCEPT !.kind = 2, !.error = <<5>>]}
MCUnknown == {WriteTag(15, Varint) \o <<5, 4, 1>>,
              WriteTag(9, Fixed64) \o [i \in 1..8 |-> 7],
              WriteTag(8, Delimited) \o <<2, 6, 7>>,
              WriteTag(15, Fixed32) \o [i \in 1..4 |-> 0]}
MCNoise == {WriteTag(f, t) \o b : f \in {1, 2, 3, 6, 15}, t \in 0..7,
                                  b \in BoundedSeq({0, 3, 5, 7}, 4)}
           \cup BoundedSeq({0, 1, 7}, 5)
           \cup {WriteTag(f, Varint) \o [i \in 1..n |-> IF i < n THEN 7 ELSE 3] :
                   f \in {1, 2, 6}, n \in 5..6}
MCTails == {<<>>, <<0, 0, 1>>}
=============================================================================
