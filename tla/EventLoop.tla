----------------------------- MODULE EventLoop ------------------------------
(***************************************************************************)
(* minirpc's EventLoop: one thread inside run() alternates between the     *)
(* posted closures (tasks_) and the events epoll_wait reports, while any   *)
(* thread, the loop thread included, calls post(), stop(), add() and       *)
(* remove().  Each call is cut at the points where another thread can see  *)
(* its effects: after the mutex is released and after each system call.    *)
(*                                                                         *)
(* The operators named Mutant... are not part of it: each is a plausible   *)
(* mistake in the definition below it, which a property must notice.       *)
(*                                                                         *)
(* Callbacks are opaque: a closure or a handler makes any calls of the     *)
(* loop's interface and then returns.  The eventfd is its readability, all *)
(* that drain_wakeup() and the EAGAIN of a saturated counter tell apart.   *)
(***************************************************************************)
EXTENDS Integers, Sequences, FiniteSets

CONSTANTS Threads,     \* the threads that are not inside run()
          Loop,        \* the thread inside run(), as a caller of the loop
          Tasks,       \* closures handed to post(), each at most once
          Fds,         \* descriptors that Session and TcpServer register
          EventFd,     \* event_fd_
          MaxEvents    \* size of run()'s vector of events

ASSUME LoopAssumption  == Loop \notin Threads
ASSUME EventFdAssumption == EventFd \notin Fds
ASSUME MaxEventsAssumption == MaxEvents \in Nat \ {0}

VARIABLES
  tasks,       \* tasks_
  local,       \* drain_tasks()'s local queue
  efd,         \* event_fd_ is readable
  stopped,     \* stopped_
  table,       \* the keys of handlers_
  armed,       \* the descriptors in the epoll set
  batch,       \* the events of the last epoll_wait not dispatched yet
  pc,          \* where run() is
  final,       \* run() is in the drain_tasks() after its loop
  call,        \* the call each caller is inside of
  posted,      \* history: the closures in the order of their push
  executed,    \* history: the closures in the order they ran
  mark         \* history: Len(posted) at the first stop() during run()

vars == <<tasks, local, efd, stopped, table, armed, batch, pc, final, call,
          posted, executed, mark>>

queueVars == <<tasks, local, posted, executed>>
fdVars    == <<table, armed>>
stopVars  == <<stopped, mark>>
runVars   == <<batch, pc, final>>

Callers == Threads \cup {Loop}
NoStop == -1
Outside == {"idle", "destroyed"}          \* no thread is inside run()
Callback == {"task", "handler"}           \* run() is inside a callback
Points == Outside \cup Callback \cup {"test", "drain", "tasks", "wait", "dispatch"}

\* A caller is between calls, about to write the eventfd, between the insertion
\* of a handler and its EPOLL_CTL_ADD, or between an EPOLL_CTL_DEL and the erase.
Quiet == [at |-> "quiet", fd |-> EventFd]
Waking == [at |-> "waking", fd |-> EventFd]
Adding(fd) == [at |-> "adding", fd |-> fd]
Removing(fd) == [at |-> "removing", fd |-> fd]
Calls == {Quiet, Waking} \cup [at : {"adding", "removing"}, fd : Fds]

Elements(s) == {s[i] : i \in 1..Len(s)}

Init == /\ tasks = <<>> /\ local = <<>>
        /\ efd = FALSE
        /\ stopped = FALSE
        /\ table = {EventFd} /\ armed = {EventFd}     \* the constructor's add()
        /\ batch = {}
        /\ pc = "idle" /\ final = FALSE
        /\ call = [c \in Callers |-> Quiet]
        /\ posted = <<>> /\ executed = <<>>
        /\ mark = NoStop
-----------------------------------------------------------------------------
(* The callers.  The loop thread calls only from inside a callback.        *)

MayCall(c) == call[c] = Quiet /\ pc # "destroyed" /\ (c = Loop => pc \in Callback)

Become(c, old, new) == call[c] = old /\ call' = [call EXCEPT ![c] = new]

Push(c, t) ==                                       \* post(), up to the unlock
  /\ MayCall(c) /\ Become(c, Quiet, Waking)
  /\ t \notin Elements(posted)
  /\ tasks' = Append(tasks, t) /\ posted' = Append(posted, t)
  /\ UNCHANGED <<local, executed, efd, stopVars, fdVars, runVars>>

Stop(c) ==                                          \* stop(), up to the wakeup
  /\ MayCall(c) /\ Become(c, Quiet, Waking)
  /\ stopped' = TRUE
  /\ mark' = IF pc # "idle" /\ mark = NoStop THEN Len(posted) ELSE mark
  /\ UNCHANGED <<queueVars, efd, fdVars, runVars>>

Wakeup(c) ==
  /\ Become(c, Waking, Quiet)
  /\ efd' = TRUE
  /\ UNCHANGED <<queueVars, stopVars, fdVars, runVars>>

MutantArmFirst(c, fd) ==                             \* EPOLL_CTL_ADD, then handlers_
  /\ MayCall(c) /\ Become(c, Quiet, Adding(fd))
  /\ fd \notin table /\ armed' = armed \cup {fd}
  /\ UNCHANGED <<queueVars, efd, stopVars, table, runVars>>

\* A descriptor is added by the owner that has just opened it: its number is in
\* use by nobody else, so neither handlers_ nor the epoll set has it.
Insert(c, fd) ==                                    \* add(), up to the unlock
  /\ MayCall(c) /\ Become(c, Quiet, Adding(fd))
  /\ fd \notin table /\ table' = table \cup {fd}
  /\ UNCHANGED <<queueVars, efd, stopVars, armed, runVars>>

EpollAdd(c, fd) ==                                  \* EPOLL_CTL_ADD, or its failure
  /\ Become(c, Adding(fd), Quiet)
  /\ \/ armed' = armed \cup {fd} /\ UNCHANGED table
     \/ table' = table \ {fd} /\ UNCHANGED armed
  /\ UNCHANGED <<queueVars, efd, stopVars, runVars>>

EpollDel(c, fd) ==                                  \* remove(), up to the lock
  /\ MayCall(c) /\ Become(c, Quiet, Removing(fd))
  /\ fd \in armed /\ armed' = armed \ {fd}
  /\ UNCHANGED <<queueVars, efd, stopVars, table, runVars>>

Erase(c, fd) ==
  /\ Become(c, Removing(fd), Quiet)
  /\ table' = table \ {fd}
  /\ UNCHANGED <<queueVars, efd, stopVars, armed, runVars>>
-----------------------------------------------------------------------------
(* run().                                                                  *)

Goto(from, to) == pc = from /\ pc' = to

Run ==
  /\ Goto("idle", "test")
  /\ stopped' = FALSE /\ mark' = NoStop /\ final' = FALSE
  /\ UNCHANGED <<queueVars, efd, fdVars, batch, call>>

MutantNoFinalDrain ==                                \* no drain_tasks() after the loop
  /\ Goto("test", IF stopped THEN "idle" ELSE "drain")
  /\ UNCHANGED <<queueVars, efd, stopVars, fdVars, batch, final, call>>

TestStopped ==
  /\ Goto("test", "drain")
  /\ final' = stopped
  /\ UNCHANGED <<queueVars, efd, stopVars, fdVars, batch, call>>

Swap ==
  /\ Goto("drain", "tasks")
  /\ local' = tasks /\ tasks' = <<>>
  /\ UNCHANGED <<posted, executed, efd, stopVars, fdVars, batch, final, call>>

RunTask ==
  /\ Goto("tasks", "task")
  /\ local # <<>> /\ local' = Tail(local)
  /\ executed' = Append(executed, Head(local))
  /\ UNCHANGED <<tasks, posted, efd, stopVars, fdVars, batch, final, call>>

MutantOneTask ==                                     \* drain_tasks() stops early
  /\ Goto("tasks", IF final THEN "idle" ELSE "wait")
  /\ UNCHANGED <<queueVars, efd, stopVars, fdVars, batch, final, call>>

MutantClearBeforeWait ==                             \* the eventfd is read here instead
  /\ Goto("tasks", IF final THEN "idle" ELSE "wait")
  /\ local = <<>> /\ efd' = FALSE
  /\ UNCHANGED <<queueVars, stopVars, fdVars, batch, final, call>>

Drained ==
  /\ Goto("tasks", IF final THEN "idle" ELSE "wait")
  /\ local = <<>>
  /\ UNCHANGED <<queueVars, efd, stopVars, fdVars, batch, final, call>>

\* epoll_wait reports armed descriptors that are ready, the eventfd among them
\* when it is readable and the vector has room for it (level-triggered), or
\* nothing: the timeout, or EINTR.
EpollWait(ready) ==
  /\ Goto("wait", "dispatch")
  /\ Cardinality(ready) <= MaxEvents
  /\ EventFd \in ready => efd
  /\ efd /\ ready # {} => EventFd \in ready \/ Cardinality(ready) = MaxEvents
  /\ batch' = ready
  /\ UNCHANGED <<queueVars, efd, stopVars, fdVars, final, call>>

Dispatch(fd) ==                                     \* the eventfd's: drain_wakeup()
  /\ Goto("dispatch", IF fd \in table \ {EventFd} THEN "handler" ELSE "dispatch")
  /\ fd \in batch /\ batch' = batch \ {fd}
  /\ efd' = (efd /\ fd # EventFd)
  /\ UNCHANGED <<queueVars, stopVars, fdVars, final, call>>

Dispatched ==
  /\ Goto("dispatch", "test")
  /\ batch = {}
  /\ UNCHANGED <<queueVars, efd, stopVars, fdVars, batch, final, call>>

Return ==                                           \* the callback returns
  /\ Goto("task", "tasks") \/ Goto("handler", "dispatch")
  /\ call[Loop] = Quiet
  /\ UNCHANGED <<queueVars, efd, stopVars, fdVars, batch, final, call>>

Destroy ==                                          \* ~EventLoop
  /\ Goto("idle", "destroyed")
  /\ \A c \in Callers : call[c] = Quiet
  /\ stopped' = TRUE /\ efd' = TRUE
  /\ table' = {} /\ armed' = {}
  /\ UNCHANGED <<queueVars, mark, batch, final, call>>
-----------------------------------------------------------------------------
FinishCall(c) == \/ Wakeup(c)
                 \/ \E fd \in Fds : EpollAdd(c, fd) \/ Erase(c, fd)

CallerNext(c) == \/ FinishCall(c)
                 \/ Stop(c)
                 \/ \E t \in Tasks : Push(c, t)
                 \/ \E fd \in Fds : Insert(c, fd) \/ EpollDel(c, fd)

\* run() without the times epoll_wait does not return for a readable eventfd.
Advance == \/ TestStopped \/ Swap \/ RunTask \/ Drained
           \/ efd /\ \E ready \in (SUBSET armed) \ {{}} : EpollWait(ready)
           \/ \E fd \in Fds \cup {EventFd} : Dispatch(fd)
           \/ Dispatched

Next == \/ Run \/ Advance \/ Return \/ Destroy
        \/ \E ready \in SUBSET armed : EpollWait(ready)
        \/ \E c \in Callers : CallerNext(c)

Spec == Init /\ [][Next]_vars

\* Threads finish the calls they are inside of, run() goes on, and callbacks
\* return.  epoll_wait is only assumed to return for a readable eventfd: what
\* holds under this fairness does not lean on the 1000 ms timeout.
Fairness == /\ \A c \in Callers : WF_vars(FinishCall(c))
            /\ WF_vars(Advance)
            /\ SF_vars(Return)

FairSpec == Spec /\ Fairness
-----------------------------------------------------------------------------
\* Every variable has its type; a local queue, undispatched events and the final
\* drain exist only where run()'s scopes and loops let them.
TypeOK ==
  /\ tasks \in Seq(Tasks) /\ local \in Seq(Tasks)
  /\ posted \in Seq(Tasks) /\ executed \in Seq(Tasks)
  /\ efd \in BOOLEAN /\ stopped \in BOOLEAN /\ final \in BOOLEAN
  /\ table \subseteq Fds \cup {EventFd} /\ armed \subseteq Fds \cup {EventFd}
  /\ batch \subseteq Fds \cup {EventFd}
  /\ pc \in Points
  /\ call \in [Callers -> Calls]
  /\ mark \in Nat \cup {NoStop}
  /\ local # <<>> => pc \in {"tasks", "task"}
  /\ batch # {} => pc \in {"dispatch", "handler"}
  /\ final => pc \in {"drain", "tasks", "task"} \cup Outside

\* A closure is never lost, repeated or overtaken between post()'s push and its
\* run, across the swap of tasks_ with drain_tasks()'s local queue.
TaskOrder == posted = (executed \o local) \o tasks

\* A thread blocked in epoll_wait with a closure queued, or with the stop flag
\* set, has the eventfd readable or a caller about to write it: drain_wakeup()
\* never swallows a wakeup whose closure or flag run() has not yet seen.
WakeupPending == efd \/ \E c \in Callers : call[c] = Waking
NoLostWakeup == pc = "wait" /\ (tasks # <<>> \/ stopped) => WakeupPending

\* A descriptor epoll may report has a handler, in whatever order add() and
\* remove() of several threads interleave; otherwise a level-triggered event
\* nobody handles would spin run().
ArmedHasHandler == armed \subseteq table

\* EventLoop implements the executor its users rely on: FIFO, exactly once, and
\* run() returns only after every closure posted before the first stop() ran
\* (client.close(); loop.stop() still closes the socket).
Exec == INSTANCE Executor WITH active <- pc \notin Outside
ImplementsExecutor == Exec!Spec

\* A posted closure runs unless run() returns, with no help from the timeout.
PostedRuns == \A t \in Tasks :
  (t \in Elements(posted)) ~> (t \in Elements(executed) \/ pc \in Outside)

\* A stop() during run() makes it return, with no help from the timeout.
StopReturns == (stopped /\ pc \notin Outside) ~> (pc \in Outside)
=============================================================================
