------------------------------ MODULE Executor ------------------------------
(***************************************************************************)
(* What EventLoop promises to Session, RpcClient and TcpServer: closures   *)
(* handed to post() run on the loop thread one at a time, each once, in    *)
(* the order of posting, and run() returns after a stop() only when every  *)
(* closure posted before that stop has run.  EventLoop implements it.      *)
(***************************************************************************)
EXTENDS Integers, Sequences

CONSTANT Tasks                \* closures handed to post(), each at most once

NoStop == -1                  \* no stop() since run() was entered

VARIABLES posted,             \* the closures, in the order post() took them
          executed,           \* the closures that run, in the order they do
          active,             \* a thread is inside run()
          mark                \* Len(posted) at the first stop(), or NoStop

vars == <<posted, executed, active, mark>>

Init == /\ posted = <<>>
        /\ executed = <<>>
        /\ active = FALSE
        /\ mark = NoStop

Post(t) == /\ \A i \in 1..Len(posted) : posted[i] # t
           /\ posted' = Append(posted, t)
           /\ UNCHANGED <<executed, active, mark>>

Enter == /\ ~active
         /\ active' = TRUE
         /\ mark' = NoStop
         /\ UNCHANGED <<posted, executed>>

Execute == /\ active
           /\ Len(executed) < Len(posted)
           /\ executed' = Append(executed, posted[Len(executed) + 1])
           /\ UNCHANGED <<posted, active, mark>>

Stop == /\ active
        /\ mark = NoStop
        /\ mark' = Len(posted)
        /\ UNCHANGED <<posted, executed, active>>

Leave == /\ active
         /\ mark # NoStop
         /\ mark <= Len(executed)
         /\ active' = FALSE
         /\ UNCHANGED <<posted, executed, mark>>

Next == \/ \E t \in Tasks : Post(t)
        \/ Enter
        \/ Execute
        \/ Stop
        \/ Leave

Spec == Init /\ [][Next]_vars
=============================================================================
