----------------------------- MODULE RpcClient ------------------------------
(***************************************************************************)
(* minirpc's RpcClient between the threads that call it and the loop that  *)
(* runs its Session.  session_ is read and written without a lock, so each *)
(* read of it is a step of its own; pending_ has its mutex.  A dereference *)
(* of a null session_ ends the program.                                    *)
(*                                                                         *)
(* A session is what Session promises: its closures run in order, a frame  *)
(* is written or fails, and closing fails what is queued and then calls    *)
(* the close handler.  The n-th connect() makes session n.  Operators      *)
(* named Mutant... are plausible mistakes in the definition below them,    *)
(* which a property must notice.                                           *)
(***************************************************************************)
EXTENDS Integers, Sequences, FiniteSets

CONSTANTS Threads,       \* application threads that use the client
          Loop,          \* the loop's thread, which uses it from its callbacks
          MaxSessions,   \* bound: connect() succeeds this often
          MaxId,         \* bound: calls of call_async()
          MaxTasks,      \* bound: operations begun and closures queued; notifies written late
          MaxReplies     \* bound: responses on their way to the client

ASSUME ThreadsAssumption == Loop \notin Threads
ASSUME BoundsAssumption == /\ MaxSessions \in Nat \ {0} /\ MaxId \in Nat \ {0}
                           /\ MaxTasks \in Nat \ {0} /\ MaxReplies \in Nat \ {0}

VARIABLES
  session,             \* session_: the number of a session, or None
  made,                \* sessions made so far
  open,                \* open_ of each
  watched,             \* whether its start() came to its end
  closing,             \* the session inside close_from_loop(), or None
  tasks,               \* the loop's queue: what send() and close() posted
  queue, wire,         \* of each session: write_queue_; the frames written
  replies,             \* responses on their way to the client, by session
  pending, nextId,     \* the keys of pending_; next_request_id_
  call,                \* what each thread is doing in the client
  answered,            \* history: calls of each ResponseHandler
  crashed              \* a null session_ was dereferenced

vars == <<session, made, open, watched, closing, tasks, queue, wire, replies, pending,
          nextId, call, answered, crashed>>
sessionVars == <<made, open, watched, closing>>
netVars == <<queue, wire, replies>>
callVars == <<pending, nextId, answered>>

None == 0                                 \* a null pointer; the id of a notify()
Sessions == 1..MaxSessions
Ids == 1..MaxId
Users == Threads \cup {Loop}
Operations == {"connect", "close", "call", "notify"}
Steps == {"pointer", "open", "make", "insert", "use"}
Idle == [op |-> "none", at |-> "none", id |-> None]
Elements(s) == {s[i] : i \in 1..Len(s)}

Init == /\ session = None /\ made = 0 /\ open = [s \in Sessions |-> FALSE]
        /\ watched = [s \in Sessions |-> FALSE] /\ closing = None
        /\ tasks = <<>> /\ queue = [s \in Sessions |-> <<>>]
        /\ wire = [s \in Sessions |-> {}] /\ replies = [s \in Sessions |-> <<>>]
        /\ pending = {} /\ nextId = 1 /\ call = [u \in Users |-> Idle]
        /\ answered = [i \in Ids |-> 0] /\ crashed = FALSE
-----------------------------------------------------------------------------
(* The client's operations, one step per access to session_.               *)

LoopFree == ~crashed /\ closing = None /\ call[Loop] = Idle

Begin(u, op) ==
  /\ ~crashed /\ call[u] = Idle /\ (u = Loop => LoopFree)
  /\ op = "notify" => \A s \in Sessions : Len(queue[s]) < MaxTasks
  /\ op = "call" =>
       nextId + Cardinality({v \in Users : call[v].op = "call" /\ call[v].id = None}) \in Ids
  /\ Len(tasks) + Cardinality({v \in Users : call[v] # Idle}) < MaxTasks
  /\ call' = [call EXCEPT ![u] = [op |-> op, at |-> "pointer", id |-> None]]
  /\ UNCHANGED <<session, sessionVars, tasks, netVars, callVars, crashed>>

\* The thread goes on to a step, or returns (or throws) when it is "none".
Proceed(u, from, to) ==
  /\ ~crashed /\ call[u].at = from
  /\ call' = [call EXCEPT ![u] = IF to = "none" THEN Idle ELSE [@ EXCEPT !.at = to]]

\* if (session_ && ...), and close()'s if (session_)
ReadPointer(u) ==
  LET go(to) == Proceed(u, "pointer", to) IN
  /\ \/ session # None /\ call[u].op = "close" /\ go("use")
     \/ session # None /\ call[u].op # "close" /\ go("open")
     \/ session = None /\ call[u].op = "connect" /\ go("make")
     \/ session = None /\ call[u].op # "connect" /\ go("none")
  /\ UNCHANGED <<session, sessionVars, tasks, netVars, callVars, crashed>>

\* ... session_->is_open()
ReadOpen(u) ==
  LET isOpen == session # None /\ open[session]
      go(to) == Proceed(u, "open", to)
  IN /\ \/ isOpen /\ call[u].op = "call" /\ go("insert")
        \/ isOpen /\ call[u].op = "notify" /\ go("use")
        \/ ~isOpen /\ call[u].op = "connect" /\ go("make")
        \/ (isOpen <=> call[u].op = "connect") /\ go("none")
     /\ crashed' = (session = None)
     /\ UNCHANGED <<session, sessionVars, tasks, netVars, callVars>>

\* connect() throws in connect_tcp(), or comes to an end, or throws in start(): session_
\* is the new session then, open, but the loop does not watch its descriptor.
Make(u) ==
  /\ Proceed(u, "make", "none")
  /\ \/ UNCHANGED <<session, made, open, watched>>
     \/ /\ made < MaxSessions
        /\ made' = made + 1 /\ session' = made + 1
        /\ open' = [open EXCEPT ![made + 1] = TRUE]
        /\ \E started \in BOOLEAN : watched' = [watched EXCEPT ![made + 1] = started]
  /\ UNCHANGED <<closing, tasks, netVars, callVars, crashed>>

Insert(u) ==                              \* fetch_add, pending_[id] = handler
  /\ ~crashed /\ call[u].at = "insert"
  /\ call' = [call EXCEPT ![u] = [op |-> "call", at |-> "use", id |-> nextId]]
  /\ pending' = pending \cup {nextId} /\ nextId' = nextId + 1
  /\ UNCHANGED <<session, sessionVars, tasks, netVars, answered, crashed>>

\* session_->send(...) or session_->close(); an oversized message only calls its
\* WriteHandler, which erases the call.
Use(u) ==
  /\ Proceed(u, "use", "none")
  /\ crashed' = (session = None)
  /\ \/ session = None /\ UNCHANGED <<tasks, pending>>
     \/ /\ session # None /\ UNCHANGED pending
        /\ tasks' = Append(tasks, [op |-> call[u].op, to |-> session, id |-> call[u].id])
     \/ /\ session # None /\ call[u].op # "close" /\ UNCHANGED tasks
        /\ pending' = pending \ {call[u].id}
  /\ UNCHANGED <<session, sessionVars, netVars, nextId, answered>>
-----------------------------------------------------------------------------
(* The loop's thread.                                                      *)

\* close_from_loop() up to the close handler: the WriteHandlers of the queued
\* requests erase their calls.
MutantStillOpen(s) ==
  /\ closing' = s /\ pending' = pending \ Elements(queue[s])
  /\ queue' = [queue EXCEPT ![s] = <<>>] /\ UNCHANGED open
Shut(s) ==
  /\ open' = [open EXCEPT ![s] = FALSE] /\ closing' = s
  /\ pending' = pending \ Elements(queue[s])
  /\ queue' = [queue EXCEPT ![s] = <<>>]

RunSend ==                                \* Session::send's closure
  /\ LoopFree /\ tasks # <<>> /\ tasks' = Tail(tasks)
  /\ LET t == Head(tasks) IN
     /\ t.op # "close"
     /\ IF open[t.to]
          THEN queue' = [queue EXCEPT ![t.to] = Append(@, t.id)] /\ UNCHANGED pending
          ELSE pending' = pending \ {t.id} /\ UNCHANGED queue
  /\ UNCHANGED <<session, sessionVars, wire, replies, nextId, answered, call, crashed>>

RunClose ==                               \* Session::close's closure
  /\ LoopFree /\ tasks # <<>> /\ tasks' = Tail(tasks)
  /\ Head(tasks).op = "close"
  /\ IF open[Head(tasks).to] THEN Shut(Head(tasks).to)
     ELSE UNCHANGED <<open, closing, pending, queue>>
  /\ UNCHANGED <<session, made, watched, wire, replies, nextId, answered, call, crashed>>

MutantEraseAlways(s) ==                   \* the WriteHandler erases without an error
  /\ LoopFree /\ open[s] /\ queue[s] # <<>>
  /\ queue' = [queue EXCEPT ![s] = Tail(@)]
  /\ wire' = [wire EXCEPT ![s] = @ \cup ({Head(queue[s])} \ {None})]
  /\ pending' = pending \ {Head(queue[s])}
  /\ UNCHANGED <<session, sessionVars, tasks, replies, nextId, answered, call, crashed>>

\* async_write() takes a frame.  If the loop does not watch the session, that is part of
\* a later send(), so it may as well never be.
Write(s) ==
  /\ LoopFree /\ open[s] /\ queue[s] # <<>>
  /\ queue' = [queue EXCEPT ![s] = Tail(@)]
  /\ wire' = [wire EXCEPT ![s] = @ \cup ({Head(queue[s])} \ {None})]
  /\ UNCHANGED <<session, sessionVars, tasks, replies, callVars, call, crashed>>

\* EOF, error or hangup on the loop; a write that fails.
ConnectionEnds(s) ==
  /\ LoopFree /\ open[s] /\ (watched[s] \/ queue[s] # <<>>) /\ Shut(s)
  /\ UNCHANGED <<session, made, watched, tasks, wire, replies, nextId, answered, call, crashed>>

MutantKeepCalls ==                        \* no pending_.clear()
  /\ ~crashed /\ closing # None /\ closing' = None /\ session' = None
  /\ UNCHANGED <<made, open, watched, tasks, netVars, callVars, call, crashed>>

CloseHandler ==                           \* connect()'s close handler
  /\ ~crashed /\ closing # None /\ closing' = None
  /\ pending' = {} /\ session' = None
  /\ UNCHANGED <<made, open, watched, tasks, netVars, nextId, answered, call, crashed>>

MutantCopyHandler(s) ==                   \* no pending_.erase(it)
  /\ LoopFree /\ open[s] /\ watched[s] /\ replies[s] # <<>>
  /\ replies' = [replies EXCEPT ![s] = Tail(@)]
  /\ answered' = [answered EXCEPT ![Head(replies[s])] =
                    @ + (IF Head(replies[s]) \in pending THEN 1 ELSE 0)]
  /\ UNCHANGED <<session, sessionVars, tasks, queue, wire, pending, nextId, call, crashed>>

Dispatch(s) ==                            \* dispatch_message() of a response
  /\ LoopFree /\ open[s] /\ watched[s] /\ replies[s] # <<>>
  /\ replies' = [replies EXCEPT ![s] = Tail(@)]
  /\ answered' = [answered EXCEPT ![Head(replies[s])] =
                    @ + (IF Head(replies[s]) \in pending THEN 1 ELSE 0)]
  /\ pending' = pending \ {Head(replies[s])}
  /\ UNCHANGED <<session, sessionVars, tasks, queue, wire, nextId, call, crashed>>
-----------------------------------------------------------------------------
\* The server answers what it received, in any order, and perhaps again.
Reply(s, id) ==
  /\ open[s] /\ id \in wire[s] /\ Len(replies[s]) < MaxReplies
  /\ replies' = [replies EXCEPT ![s] = Append(@, id)]
  /\ UNCHANGED <<session, sessionVars, tasks, queue, wire, callVars, call, crashed>>

Step(u) == ReadPointer(u) \/ ReadOpen(u) \/ Make(u) \/ Insert(u) \/ Use(u)

Next == \/ \E u \in Users : Step(u) \/ \E op \in Operations : Begin(u, op)
        \/ RunSend \/ RunClose \/ CloseHandler
        \/ \E s \in Sessions : Write(s) \/ ConnectionEnds(s) \/ Dispatch(s)
        \/ \E s \in Sessions, id \in Ids : Reply(s, id)

Spec == Init /\ [][Next]_vars

\* Threads finish what they began; the loop comes to every closure, and on the sessions it
\* watches to every frame and every response, in spite of the callbacks and events between
\* them; a server that stays connected answers.
FairSpec ==
  /\ Spec
  /\ \A u \in Users : WF_vars(Step(u))
  /\ SF_vars(RunSend \/ RunClose) /\ WF_vars(CloseHandler)
  /\ \A s \in Sessions : SF_vars(watched[s] /\ Write(s)) /\ SF_vars(Dispatch(s))
  /\ \A s \in Sessions, id \in Ids :
       SF_vars(answered[id] = 0 /\ id \notin Elements(replies[s]) /\ Reply(s, id))
-----------------------------------------------------------------------------
\* Every variable has its type; session_ is a session that was made, and one inside
\* close_from_loop() is not open any more.
TypeOK ==
  /\ session \in 0..made /\ made \in 0..MaxSessions
  /\ open \in [Sessions -> BOOLEAN] /\ watched \in [Sessions -> BOOLEAN]
  /\ closing \in Sessions \cup {None} /\ (closing # None => ~open[closing])
  /\ tasks \in Seq([op : Operations, to : Sessions, id : Ids \cup {None}])
  /\ queue \in [Sessions -> Seq(Ids \cup {None})]
  /\ wire \in [Sessions -> SUBSET Ids] /\ replies \in [Sessions -> Seq(Ids)]
  /\ pending \subseteq Ids /\ nextId \in 1..(MaxId + 1)
  /\ call \in [Users -> {Idle} \cup [op : Operations, at : Steps, id : Ids \cup {None}]]
  /\ answered \in [Ids -> Nat] /\ crashed \in BOOLEAN

\* A ResponseHandler is called at most once, however often the server answers.
AnsweredOnce == \A id \in Ids : answered[id] <= 1

\* A request on the wire of an open session has its handler waiting: a response
\* never comes before the handler, nor after something else has dropped it.
SentIsPending ==
  \A s \in Sessions : \A id \in wire[s] : open[s] /\ answered[id] = 0 => id \in pending

\* A handler is kept only while its call can still be answered or fail: it is in
\* the hands of call_async(), in the loop's queue, in write_queue_, or written by a
\* session that has not finished closing.  (If start() threw on that session, only a
\* close() or a write that fails still ends it.)
NoOrphan ==
  \A id \in pending :
    \/ crashed
    \/ \E u \in Users : call[u].id = id
    \/ \E t \in Elements(tasks) : t.id = id
    \/ \E s \in Sessions : \/ id \in Elements(queue[s])
                           \/ id \in wire[s] /\ (open[s] \/ closing = s)

\* Every call is answered or dropped in the end, or is with a session whose start() threw,
\* as long as that is open: the client takes it for a connection, and no answer is read.
Stranded(id) == \E s \in Sessions : /\ open[s] /\ ~watched[s]
                                   /\ id \in wire[s] \cup Elements(queue[s])

\* examples/client_main.cpp closes the client on its main thread while a response
\* handler may be closing it on the loop's.  (Refuted: close() tests session_ and
\* dereferences it again, and the close handler may reset it in between.)
NoNullSession == ~crashed
=============================================================================
