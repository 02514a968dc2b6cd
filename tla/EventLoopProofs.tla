-------------------------- MODULE EventLoopProofs ---------------------------
(***************************************************************************)
(* EventLoop's safety, for every set of threads, closures and descriptors. *)
(***************************************************************************)
EXTENDS EventLoop, SequenceTheorems, TLAPS

\* Every assignment of an action keeps every variable in its type.
LEMMA TypeInvariant == Spec => []TypeOK
<1>1. Init => TypeOK
  <2> SUFFICES ASSUME Init PROVE TypeOK
    OBVIOUS
  <2> USE DEF Init
  <2>1. tasks \in Seq(Tasks) /\ local \in Seq(Tasks) /\ posted \in Seq(Tasks) /\ executed \in Seq(Tasks)
    OBVIOUS
  <2>2. table \subseteq Fds \cup {EventFd} /\ armed \subseteq Fds \cup {EventFd} /\ batch \subseteq Fds \cup {EventFd}
    OBVIOUS
  <2>3. pc \in Points
    BY DEF Points, Outside
  <2>4. call \in [Callers -> Calls]
    BY DEF Calls
  <2>5. mark \in Nat \cup {NoStop}
    OBVIOUS
  <2> QED
    BY <2>1, <2>2, <2>3, <2>4, <2>5 DEF TypeOK
<1>2. TypeOK /\ [Next]_vars => TypeOK'
  <2> SUFFICES ASSUME TypeOK, [Next]_vars PROVE TypeOK'
    OBVIOUS
  <2> USE DEF TypeOK, Goto, Points, Outside, Callback, queueVars, stopVars, fdVars,
              runVars, NoStop
  <2>1. ASSUME NEW c \in Callers, CallerNext(c) PROVE TypeOK'
    <3> USE DEF Become, Calls, Quiet, Waking, Adding, Removing
    <3>1. ASSUME NEW t \in Tasks, Push(c, t) PROVE TypeOK'
      BY <3>1 DEF Push
    <3>2. CASE Stop(c)
      BY <3>2 DEF Stop
    <3>3. CASE Wakeup(c)
      BY <3>3 DEF Wakeup
    <3>4. ASSUME NEW fd \in Fds, Insert(c, fd) \/ EpollAdd(c, fd) PROVE TypeOK'
      BY <3>4 DEF Insert, EpollAdd
    <3>5. ASSUME NEW fd \in Fds, EpollDel(c, fd) PROVE TypeOK'
      BY <3>5 DEF EpollDel
    <3>6. ASSUME NEW fd \in Fds, Erase(c, fd) PROVE TypeOK'
      BY <3>6 DEF Erase
    <3>7. QED
      BY <2>1, <3>1, <3>2, <3>3, <3>4, <3>5, <3>6 DEF CallerNext, FinishCall
  <2>2. CASE Run
    BY <2>2 DEF Run
  <2>3. CASE TestStopped
    BY <2>3 DEF TestStopped
  <2>4. CASE Swap
    BY <2>4 DEF Swap
  <2>5. CASE RunTask
    BY <2>5 DEF RunTask
  <2>6. CASE Drained
    BY <2>6 DEF Drained
  <2>7. ASSUME NEW ready \in SUBSET armed, EpollWait(ready) PROVE TypeOK'
    BY <2>7 DEF EpollWait
  <2>8. ASSUME NEW fd \in Fds \cup {EventFd}, Dispatch(fd) PROVE TypeOK'
    BY <2>8 DEF Dispatch
  <2>9. CASE Dispatched \/ Return
    BY <2>9 DEF Dispatched, Return
  <2>10. CASE Destroy
    BY <2>10 DEF Destroy
  <2>11. CASE UNCHANGED vars
    BY <2>11 DEF vars
  <2>12. QED
    BY <2>1, <2>2, <2>3, <2>4, <2>5, <2>6, <2>7, <2>8, <2>9, <2>10, <2>11
       DEF Next, Advance
<1>3. QED
  BY <1>1, <1>2, PTL DEF Spec
-----------------------------------------------------------------------------
\* The tail of a non-empty sequence follows its head.
LEMMA HeadConcatTail ==
  ASSUME NEW S, NEW s \in Seq(S), s # <<>>
  PROVE  s = <<Head(s)>> \o Tail(s)
  BY HeadTailProperties, ConcatProperties, SeqEqual

\* Moving one element from the head of s to the end of r keeps r \o s, and an
\* element appended to s is appended to r \o s.
LEMMA MoveOne ==
  ASSUME NEW S, NEW r \in Seq(S), NEW s \in Seq(S)
  PROVE  /\ s # <<>> => (r \o <<Head(s)>>) \o Tail(s) = r \o s
         /\ \A x \in S : (r \o s) \o <<x>> = r \o (s \o <<x>>)
<1>1. ASSUME NEW u \in Seq(S), NEW v \in Seq(S) PROVE (r \o u) \o v = r \o (u \o v)
  BY ConcatAssociative
<1>2. ASSUME s # <<>> PROVE (r \o <<Head(s)>>) \o Tail(s) = r \o s
  <2>1. s = <<Head(s)>> \o Tail(s)
    BY <1>2, HeadConcatTail
  <2>2. <<Head(s)>> \in Seq(S) /\ Tail(s) \in Seq(S)
    BY <1>2, HeadTailProperties
  <2> DEFINE first == <<Head(s)>>
  <2>3. s = first \o Tail(s) /\ first \in Seq(S)
    BY <2>1, <2>2
  <2> HIDE DEF first
  <2>4. (r \o first) \o Tail(s) = r \o (first \o Tail(s))
    BY <1>1, <2>2, <2>3
  <2>5. (r \o first) \o Tail(s) = r \o s
    BY <2>3, <2>4
  <2>6. QED
    BY <2>5 DEF first
<1>3. ASSUME NEW x \in S PROVE (r \o s) \o <<x>> = r \o (s \o <<x>>)
  <2> DEFINE last == <<x>>
  <2>1. last \in Seq(S)
    BY <1>3, IsASeq
  <2> HIDE DEF last
  <2>2. (r \o s) \o last = r \o (s \o last)
    BY <1>1, <2>1
  <2>3. QED
    BY <2>2 DEF last
<1>4. QED
  BY <1>2, <1>3

\* Only post(), the swap and a run of a closure touch the queues, and each keeps
\* their concatenation equal to what was posted.
THEOREM FirstInFirstOut == Spec => []TaskOrder
<1>1. Init => TaskOrder
  BY DEF Init, TaskOrder
<1>2. TypeOK /\ TaskOrder /\ [Next]_vars => TaskOrder'
  <2> SUFFICES ASSUME TypeOK, TaskOrder, [Next]_vars PROVE TaskOrder'
    OBVIOUS
  <2>1. /\ tasks \in Seq(Tasks) /\ local \in Seq(Tasks)
        /\ posted \in Seq(Tasks) /\ executed \in Seq(Tasks)
    BY DEF TypeOK
  <2>2. ASSUME NEW c \in Callers, NEW t \in Tasks, Push(c, t) PROVE TaskOrder'
    <3>1. posted' = posted \o <<t>> /\ tasks' = tasks \o <<t>>
      BY <2>1, <2>2, AppendIsConcat DEF Push
    <3>2. executed \o local \in Seq(Tasks)
      BY <2>1, ConcatProperties
    <3>3. ((executed \o local) \o tasks) \o <<t>> = (executed \o local) \o (tasks \o <<t>>)
      BY <2>1, <3>2, MoveOne
    <3>4. QED
      BY <2>2, <3>1, <3>3 DEF Push, TaskOrder
  <2>3. CASE Swap
    <3>1. local = <<>>
      BY <2>3 DEF TypeOK, Swap, Goto
    <3>2. executed \o <<>> = executed /\ (executed \o tasks) \o <<>> = executed \o tasks
      BY <2>1, ConcatEmptySeq, ConcatProperties
    <3>3. QED
      BY <2>3, <3>1, <3>2 DEF Swap, TaskOrder
  <2>4. CASE RunTask
    <3>1. executed' = executed \o <<Head(local)>> /\ local' = Tail(local) /\ local # <<>>
      BY <2>1, <2>4, AppendIsConcat, HeadTailProperties DEF RunTask
    <3>2. (executed \o <<Head(local)>>) \o Tail(local) = executed \o local
      BY <2>1, <3>1, MoveOne
    <3>3. QED
      BY <2>4, <3>1, <3>2 DEF RunTask, TaskOrder
  <2>5. CASE UNCHANGED queueVars
    BY <2>5 DEF queueVars, TaskOrder
  <2>6. QED
    BY <2>2, <2>3, <2>4, <2>5
       DEF Next, Advance, CallerNext, FinishCall, vars, queueVars, Stop, Wakeup, Insert,
           EpollAdd, EpollDel, Erase, Run, TestStopped, Drained, EpollWait, Dispatch,
           Dispatched, Return, Destroy
<1>3. QED
  BY <1>1, <1>2, TypeInvariant, PTL DEF Spec
-----------------------------------------------------------------------------
(* Wakeups.  The invariant speaks of every point between run()'s test of   *)
(* the flag, or the swap, and epoll_wait: a change made there must have    *)
(* left the eventfd readable, or its caller must be about to make it so.   *)

WakeInv ==
  /\ pc \in {"drain", "tasks", "task", "wait"} /\ ~final /\ stopped => WakeupPending
  /\ pc \in {"tasks", "task", "wait"} /\ tasks # <<>> => WakeupPending

\* run() never blocks in epoll_wait on a change it has not seen.
THEOREM WakeupsAreKept == Spec => []NoLostWakeup
<1>1. Init => WakeInv
  BY DEF Init, WakeInv
<1>2. TypeOK /\ WakeInv /\ [Next]_vars => WakeInv'
  <2> SUFFICES ASSUME TypeOK, WakeInv, [Next]_vars PROVE WakeInv'
    OBVIOUS
  <2> USE DEF WakeInv, WakeupPending, Goto
  <2>1. ASSUME NEW c \in Callers, CallerNext(c) PROVE WakeInv'
    <3>1. call \in [Callers -> Calls]
      BY DEF TypeOK
    <3>2. ASSUME call'[c] = Waking \/ efd' PROVE WakeInv'
      BY <3>2
    <3>3. CASE (\E t \in Tasks : Push(c, t)) \/ Stop(c) \/ Wakeup(c)
      BY <3>1, <3>2, <3>3 DEF Push, Stop, Wakeup, Become
    <3>4. ASSUME NEW fd \in Fds,
                 Insert(c, fd) \/ EpollAdd(c, fd) \/ EpollDel(c, fd) \/ Erase(c, fd)
          PROVE  WakeInv'
      <4>1. UNCHANGED <<queueVars, efd, stopVars, runVars>> /\ call[c] # Waking
        BY <3>4 DEF Insert, EpollAdd, EpollDel, Erase, Become, Quiet, Waking, Adding, Removing
      <4>2. \A d \in Callers : call[d] = Waking => call'[d] = Waking
        BY <3>1, <3>4, <4>1 DEF Insert, EpollAdd, EpollDel, Erase, Become
      <4>3. QED
        BY <4>1, <4>2 DEF queueVars, stopVars, runVars
    <3>5. QED
      BY <2>1, <3>3, <3>4 DEF CallerNext, FinishCall
  <2>2. CASE Run \/ TestStopped \/ Swap
    BY <2>2 DEF Run, TestStopped, Swap, stopVars
  <2>3. CASE RunTask \/ Drained \/ Return
    BY <2>3 DEF RunTask, Drained, Return, queueVars, stopVars, TypeOK
  <2>4. CASE Dispatched \/ Destroy
    BY <2>4 DEF Dispatched, Destroy
  <2>5. ASSUME NEW ready \in SUBSET armed, EpollWait(ready) PROVE WakeInv'
    BY <2>5 DEF EpollWait
  <2>6. ASSUME NEW fd \in Fds \cup {EventFd}, Dispatch(fd) PROVE WakeInv'
    BY <2>6 DEF Dispatch
  <2>7. CASE UNCHANGED vars
    BY <2>7 DEF vars
  <2>8. QED
    BY <2>1, <2>2, <2>3, <2>4, <2>5, <2>6, <2>7 DEF Next, Advance
<1>3. TypeOK /\ WakeInv => NoLostWakeup
  BY DEF TypeOK, WakeInv, NoLostWakeup, Outside
<1>4. QED
  BY <1>1, <1>2, <1>3, TypeInvariant, PTL DEF Spec
-----------------------------------------------------------------------------
(* Registration.  A descriptor in the middle of add() or remove() has its  *)
(* handler, is not armed, and is in no other caller's hands.               *)

InHand(c) == call[c].at \in {"adding", "removing"}

FdInv ==
  /\ armed \subseteq table
  /\ \A c \in Callers : InHand(c) => call[c].fd \in table \ armed
  /\ \A c, d \in Callers :
       InHand(c) /\ InHand(d) /\ call[c].fd = call[d].fd => c = d

\* An armed descriptor always has its handler: add() inserts before EPOLL_CTL_ADD
\* and remove() erases after EPOLL_CTL_DEL.
THEOREM ArmedIsHandled == Spec => []ArmedHasHandler
<1>1. Init => FdInv
  BY DEF Init, FdInv, InHand, Quiet
<1>2. TypeOK /\ FdInv /\ [Next]_vars => FdInv'
  <2> SUFFICES ASSUME TypeOK, FdInv, [Next]_vars PROVE FdInv'
    OBVIOUS
  <2>1. call \in [Callers -> Calls]
    BY DEF TypeOK
  <2> USE DEF FdInv, InHand
  <2>2. ASSUME NEW c \in Callers, CallerNext(c) PROVE FdInv'
    <3> USE DEF Become, Quiet, Waking, Adding, Removing
    <3>1. ASSUME NEW t \in Tasks, Push(c, t) PROVE FdInv'
      BY <2>1, <3>1 DEF Push, fdVars
    <3>2. CASE Stop(c) \/ Wakeup(c)
      BY <2>1, <3>2 DEF Stop, Wakeup, fdVars
    <3>3. ASSUME NEW fd \in Fds, Insert(c, fd) PROVE FdInv'
      BY <2>1, <3>3 DEF Insert
    <3>4. ASSUME NEW fd \in Fds, EpollAdd(c, fd) PROVE FdInv'
      BY <2>1, <3>4 DEF EpollAdd
    <3>5. ASSUME NEW fd \in Fds, EpollDel(c, fd) PROVE FdInv'
      BY <2>1, <3>5 DEF EpollDel
    <3>6. ASSUME NEW fd \in Fds, Erase(c, fd) PROVE FdInv'
      BY <2>1, <3>6 DEF Erase
    <3>7. QED
      BY <2>2, <3>1, <3>2, <3>3, <3>4, <3>5, <3>6 DEF CallerNext, FinishCall
  <2>3. CASE Destroy
    BY <2>3 DEF Destroy, Quiet
  <2>4. CASE UNCHANGED <<fdVars, call>>
    BY <2>4 DEF fdVars
  <2>5. QED
    BY <2>2, <2>3, <2>4
       DEF Next, Advance, vars, fdVars, Run, TestStopped, Swap, RunTask, Drained, EpollWait,
           Dispatch, Dispatched, Return
<1>3. FdInv => ArmedHasHandler
  BY DEF FdInv, ArmedHasHandler
<1>4. QED
  BY <1>1, <1>2, <1>3, TypeInvariant, PTL DEF Spec
-----------------------------------------------------------------------------
(* Stopping.  Once run() has left its loop, what was posted before the     *)
(* stop() has run or waits in the queue the final drain works off.         *)

StopInv ==
  /\ mark <= Len(posted)
  /\ pc \notin Outside /\ stopped => mark # NoStop
  /\ pc \notin Outside /\ final => stopped
  /\ pc \in {"tasks", "task"} /\ final => mark <= Len(executed) + Len(local)

LEMMA StopInvariant == Spec => []StopInv
<1>1. Init => StopInv
  BY DEF Init, StopInv, NoStop, Outside
<1>2. TypeOK /\ TaskOrder /\ StopInv /\ [Next]_vars => StopInv'
  <2> SUFFICES ASSUME TypeOK, TaskOrder, StopInv, [Next]_vars PROVE StopInv'
    OBVIOUS
  <2>1. /\ tasks \in Seq(Tasks) /\ local \in Seq(Tasks)
        /\ posted \in Seq(Tasks) /\ executed \in Seq(Tasks)
        /\ mark \in Int
    BY DEF TypeOK, NoStop
  <2>2. Len(posted) = Len(executed) + Len(local) + Len(tasks)
    BY <2>1, ConcatProperties DEF TaskOrder
  <2>3. ASSUME NEW c \in Callers, CallerNext(c) PROVE StopInv'
    <3>1. ASSUME NEW t \in Tasks, Push(c, t) PROVE StopInv'
      <4>1. Len(posted') = Len(posted) + 1
        BY <2>1, <3>1, AppendProperties DEF Push
      <4>2. QED
        BY <2>1, <3>1, <4>1 DEF Push, StopInv, stopVars, runVars
    <3>2. CASE Stop(c)
      BY <2>1, <2>2, <3>2, LenProperties DEF Stop, StopInv, queueVars, runVars, Outside, NoStop
    <3>3. CASE UNCHANGED <<queueVars, stopVars, runVars>>
      BY <3>3 DEF StopInv, queueVars, stopVars, runVars
    <3>4. QED
      BY <2>3, <3>1, <3>2, <3>3
         DEF CallerNext, FinishCall, Wakeup, Insert, EpollAdd, EpollDel, Erase
  <2>4. CASE Run
    BY <2>1, <2>4, LenProperties DEF Run, Goto, StopInv, queueVars, Outside, NoStop
  <2>5. CASE TestStopped
    BY <2>5 DEF TestStopped, Goto, StopInv, queueVars, stopVars, Outside
  <2>6. CASE Swap
    <3>1. local = <<>>
      BY <2>6 DEF TypeOK, Swap, Goto
    <3>2. Len(posted) = Len(executed) + Len(tasks)
      BY <2>1, <2>2, <3>1, LenProperties
    <3>3. QED
      BY <2>1, <2>6, <3>2 DEF Swap, Goto, StopInv, stopVars, Outside
  <2>7. CASE RunTask
    <3>1. Len(executed') = Len(executed) + 1 /\ Len(local') = Len(local) - 1
      BY <2>1, <2>7, AppendProperties, HeadTailProperties DEF RunTask
    <3>2. QED
      BY <2>1, <2>7, <3>1, LenProperties DEF RunTask, Goto, StopInv, stopVars, Outside
  <2>8. CASE Drained \/ Dispatched \/ Return
    BY <2>8 DEF Drained, Dispatched, Return, Goto, StopInv, queueVars, stopVars, Outside, TypeOK
  <2>9. ASSUME NEW ready \in SUBSET armed, EpollWait(ready) PROVE StopInv'
    BY <2>9 DEF EpollWait, Goto, StopInv, queueVars, stopVars, Outside
  <2>10. ASSUME NEW fd \in Fds \cup {EventFd}, Dispatch(fd) PROVE StopInv'
    BY <2>10 DEF Dispatch, Goto, StopInv, queueVars, stopVars, Outside
  <2>11. CASE Destroy
    BY <2>11 DEF Destroy, Goto, StopInv, queueVars, Outside
  <2>12. CASE UNCHANGED vars
    BY <2>12 DEF vars, StopInv
  <2>13. QED
    BY <2>3, <2>4, <2>5, <2>6, <2>7, <2>8, <2>9, <2>10, <2>11, <2>12 DEF Next, Advance
<1>3. QED
  BY <1>1, <1>2, TypeInvariant, FirstInFirstOut, PTL DEF Spec

\* EventLoop implements Executor: the run of a closure is Execute of the one that
\* is next in posting order, and the end of the final drain is a Leave that owes
\* nothing to the stop().
THEOREM EventLoopImplementsExecutor == Spec => ImplementsExecutor
<1>1. Init => Exec!Init
  BY DEF Init, Exec!Init, NoStop, Exec!NoStop, Outside
<1>2. TypeOK /\ TaskOrder /\ StopInv /\ [Next]_vars => [Exec!Next]_Exec!vars
  <2> SUFFICES ASSUME TypeOK, TaskOrder, StopInv, [Next]_vars, ~(UNCHANGED Exec!vars)
               PROVE  Exec!Next
    OBVIOUS
  <2>1. /\ tasks \in Seq(Tasks) /\ local \in Seq(Tasks)
        /\ posted \in Seq(Tasks) /\ executed \in Seq(Tasks)
    BY DEF TypeOK
  <2>2. ASSUME NEW c \in Callers, NEW t \in Tasks, Push(c, t) PROVE Exec!Post(t)
    BY <2>1, <2>2 DEF Push, Exec!Post, Elements, stopVars, runVars
  <2>3. ASSUME NEW c \in Callers, Stop(c) PROVE Exec!Stop
    BY <2>3 DEF Stop, MayCall, Exec!Stop, Exec!vars, Exec!NoStop, NoStop, queueVars, runVars, Outside
  <2>4. CASE Run
    BY <2>4 DEF Run, Goto, Exec!Enter, Exec!Next, Exec!NoStop, NoStop, queueVars, Outside
  <2>5. CASE RunTask
    <3>1. /\ Len(executed) + 1 \in 1..Len(executed \o local)
          /\ (executed \o local)[Len(executed) + 1] = Head(local)
      BY <2>1, <2>5, ConcatProperties, LenProperties, EmptySeq DEF RunTask
    <3>2. /\ Len(executed) < Len(posted)
          /\ posted[Len(executed) + 1] = Head(local)
      BY <2>1, <3>1, ConcatProperties, LenProperties DEF TaskOrder
    <3>3. QED
      BY <2>5, <3>2 DEF RunTask, Goto, Exec!Execute, Exec!Next, stopVars, Outside
  <2>6. CASE Drained
    <3>1. final
      BY <2>6 DEF Drained, Goto, Exec!vars, queueVars, stopVars, Outside
    <3>2. mark # NoStop /\ mark <= Len(executed) /\ pc = "tasks"
      BY <2>1, <2>6, <3>1, LenProperties DEF Drained, Goto, StopInv, Outside, TypeOK, NoStop
    <3>3. QED
      BY <2>6, <3>1, <3>2 DEF Drained, Goto, Exec!Leave, Exec!Next, Exec!NoStop, NoStop, queueVars, stopVars, Outside
  <2>7. CASE UNCHANGED <<posted, executed, mark, pc \in Outside>>
    BY <2>7 DEF Exec!vars
  <2>8. QED
    <3>1. ASSUME NEW c \in Callers, FinishCall(c) \/ \E fd \in Fds : Insert(c, fd) \/ EpollDel(c, fd)
          PROVE  FALSE
      BY <2>7, <3>1 DEF FinishCall, Wakeup, Insert, EpollAdd, EpollDel, Erase, queueVars, stopVars, runVars, Exec!vars
    <3>2. ASSUME TestStopped \/ Swap \/ Dispatched \/ Return \/ Destroy
                 \/ (\E ready \in SUBSET armed : EpollWait(ready))
                 \/ (\E fd \in Fds \cup {EventFd} : Dispatch(fd))
                 \/ UNCHANGED vars
          PROVE  FALSE
      BY <3>2 DEF TestStopped, Swap, Dispatched, Return, Destroy, EpollWait, Dispatch, Goto, vars, queueVars, stopVars, Exec!vars, Outside
    <3>3. QED
      BY <2>2, <2>3, <2>4, <2>5, <2>6, <3>1, <3>2 DEF Next, Advance, CallerNext, Exec!Next
<1>3. QED
  BY <1>1, <1>2, TypeInvariant, FirstInFirstOut, StopInvariant, PTL
     DEF Spec, ImplementsExecutor, Exec!Spec
=============================================================================
