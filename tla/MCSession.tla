----------------------------- MODULE MCSession ------------------------------
(* Session for TLC: two frames, the second larger than the send buffer, an *)
(* oversized message, and two streams that between them hold every kind of *)
(* inbound frame, a frame that is delivered always before the others.      *)
EXTENDS Session, TLC

CONSTANTS f1, f2, big

MCFrames == {f1, f2, big}
MCSize == f1 :> 1 @@ f2 :> 2 @@ big :> 1
MCStreams == {<<"ok", "ok", "undecodable">>, <<"ok", "too_large">>}
=============================================================================
