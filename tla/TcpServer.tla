----------------------------- MODULE TcpServer ------------------------------
(***************************************************************************)
(* minirpc's TcpServer on its EventLoop: the listener, the accept loop,    *)
(* the table of sessions and stop(), with the kernel's descriptor numbers, *)
(* which are reused lowest first, and the batch of events that run()       *)
(* dispatches by number.  The server is used from callbacks on the loop's  *)
(* thread, or while no thread is in run(), as in examples/server_main.cpp. *)
(*                                                                         *)
(* A Session is reduced to what the server sees of it: its descriptor, its *)
(* id and close_from_loop(), which module Session justifies.  Operators    *)
(* named Mutant... are plausible mistakes in the definition below them.    *)
(***************************************************************************)
EXTENDS Integers

CONSTANTS Conns,      \* connections of peers, each the id of its Session
          MaxFd,      \* RLIMIT_NOFILE, in descriptors left to this server
          Listener,   \* the owner of the listening socket's entry in handlers_
          Nobody      \* no owner

ASSUME OwnersAssumption == Listener \notin Conns /\ Nobody \notin Conns \cup {Listener}
ASSUME MaxFdAssumption == MaxFd \in Nat

VARIABLES
  listener, started,  \* listen_fd_ (0 for -1) and started_
  sessions,           \* the keys of sessions_
  orphans,            \* listening sockets whose number listen_fd_ has lost
  sock, fd,           \* a connection's stage; its session's socket_fd_ (0 for -1)
  table,              \* handlers_ and the epoll set: the owner of each number
  closing,            \* sessions with a closure of close() in the loop's queue
  batch,              \* events not dispatched yet: number, and whose it was
  pc,                 \* where run() is
  peer                \* what a peer has done that its socket still holds for recv()

serverVars == <<listener, started, sessions, orphans>>
kernelVars == <<sock, fd, table, peer>>
vars == <<serverVars, kernelVars, closing, batch, pc>>

Fds == 1..MaxFd
Open(c) == sock[c] = "open"
Backlog == {c \in Conns : sock[c] = "backlog"}
Used == ({listener} \cup {fd[c] : c \in Conns} \cup orphans) \ {0}
NextFd(n) == n \in Fds \ Used /\ \A m \in Fds \ Used : n <= m

Init == /\ listener = 0 /\ started = FALSE /\ sessions = {} /\ orphans = {}
        /\ sock = [c \in Conns |-> "none"] /\ fd = [c \in Conns |-> 0]
        /\ table = [n \in Fds |-> Nobody]
        /\ closing = {} /\ batch = {} /\ pc = "out"
        /\ peer = [c \in Conns |-> "quiet"]
-----------------------------------------------------------------------------
(* Calls of the server's owner.  An exception leaves run() and its batch.  *)

InCallback == pc \in {"session_handler", "message_handler"}
CanCall == pc = "out" \/ InCallback
Throw == pc' = "out" /\ batch' = {}
PortTaken == listener # 0 \/ orphans # {}

Start ==
  /\ CanCall /\ ~started /\ ~PortTaken
  /\ \E n \in Fds : /\ NextFd(n) /\ listener' = n
                    /\ table' = [table EXCEPT ![n] = Listener]
  /\ started' = TRUE
  /\ UNCHANGED <<sessions, orphans, sock, fd, closing, batch, pc, peer>>

\* socket() fails, which leaves listen_fd_ = -1, or a call behind it does, and
\* close_listener() with it: bind(), the port taken, or inet_pton(), the host no address.
\* A socket that an earlier start() could not register is forgotten.
StartFails ==
  /\ CanCall /\ ~started /\ listener' = 0
  /\ orphans' = orphans \cup ({listener} \ {0})
  /\ Throw
  /\ UNCHANGED <<started, sessions, kernelVars, closing>>

StartUnwatched ==                            \* loop_.add() throws
  /\ CanCall /\ ~started /\ ~PortTaken
  /\ \E n \in Fds : NextFd(n) /\ listener' = n
  /\ Throw
  /\ UNCHANGED <<started, sessions, orphans, kernelVars, closing>>

\* The sockets of some connections are closed, their numbers free again.
Discard(gone) ==
  /\ sock' = [c \in Conns |-> IF c \in gone THEN "closed" ELSE sock[c]]
  /\ fd' = [c \in Conns |-> IF c \in gone THEN 0 ELSE fd[c]]
  /\ peer' = [c \in Conns |-> IF c \in gone THEN "quiet" ELSE peer[c]]

\* stop().  Closing the listening socket resets the connections in its backlog.
StopWith(gone, posted) ==
  /\ CanCall /\ (started \/ listener # 0)
  /\ listener' = 0 /\ started' = FALSE /\ sessions' = {}
  /\ Discard(gone \cup Backlog)
  /\ table' = [n \in Fds |-> IF table[n] \in gone \cup {Listener} THEN Nobody ELSE table[n]]
  /\ closing' = closing \cup posted
  /\ UNCHANGED <<orphans, batch, pc>>

MutantForget == StopWith({}, {})             \* sessions_ cleared, nothing closed
MutantCloseNow == StopWith(sessions, {})     \* close_from_loop() for close()
Stop == StopWith({}, sessions)

\* session->close() on any thread: its posted closure closes an open session once,
\* so that closing holds a session, not a count.
CloseSession(c) ==
  /\ pc # "destroyed" /\ c \notin closing
  /\ \E n \in Fds : table[n] = c           \* start() is done: callers have the session
  /\ closing' = closing \cup {c}
  /\ UNCHANGED <<serverVars, kernelVars, batch, pc>>

\* The owner destroys the server, whose destructor calls stop(), and then the loop:
\* with it go the queue and handlers_, and with them the last references to the
\* sessions, whose destructors close their descriptors.
Destroy ==
  /\ pc = "out" /\ pc' = "destroyed"
  /\ listener' = 0 /\ started' = FALSE /\ sessions' = {}
  /\ Discard({c \in Conns : Open(c) \/ (c \in Backlog /\ listener # 0)})
  /\ table' = [n \in Fds |-> Nobody] /\ closing' = {}
  /\ UNCHANGED <<orphans, batch>>
-----------------------------------------------------------------------------
(* run(): closures, epoll_wait, the events of its batch.                   *)

Run ==                                       \* after run() returned or threw, too
  /\ pc = "out" /\ pc' = "poll"
  /\ UNCHANGED <<serverVars, kernelVars, closing, batch>>

Leave ==                                     \* the loop is stopped, batch dispatched
  /\ pc = "poll" /\ pc' = "out"
  /\ UNCHANGED <<serverVars, kernelVars, closing, batch>>

\* close_from_loop(): out of the loop, the number freed, then the close handler that
\* accept_loop() installed.
MutantKeepEntry(c) == Discard({c}) /\ sessions' = sessions \ {c} /\ UNCHANGED table
CloseFromLoop(c) == /\ Discard({c}) /\ sessions' = sessions \ {c}
                    /\ table' = [n \in Fds |-> IF table[n] = c THEN Nobody ELSE table[n]]

MutantOnlyTracked(c) ==                      \* stop() lets the sessions go first
  /\ pc = "poll" /\ c \in closing /\ closing' = closing \ {c}
  /\ IF c \in sessions THEN CloseFromLoop(c) ELSE UNCHANGED <<sessions, kernelVars>>
  /\ UNCHANGED <<listener, started, orphans, batch, pc>>
RunClose(c) ==                               \* the closure posted by close()
  /\ pc = "poll" /\ c \in closing /\ closing' = closing \ {c}
  /\ IF Open(c) THEN CloseFromLoop(c) ELSE UNCHANGED <<sessions, kernelVars>>
  /\ UNCHANGED <<listener, started, orphans, batch, pc>>

\* epoll_wait reports every ready descriptor; run() takes them in an order of its own.
MutantDeadEntries == Fds                     \* closed numbers stay in the epoll set
MutantDeaf == {n \in Fds : table[n] \in Conns /\ peer[table[n]] # "quiet"}
Ready == {n \in Fds : \/ table[n] = Listener /\ Backlog # {}
                      \/ table[n] \in Conns /\ peer[table[n]] # "quiet"}
Poll ==
  /\ pc = "poll" /\ Ready # {} /\ pc' = "dispatch"
  /\ batch' = {[fd |-> n, owner |-> table[n]] : n \in Ready}
  /\ UNCHANGED <<serverVars, kernelVars, closing>>

BatchDone ==
  /\ pc = "dispatch" /\ batch = {} /\ pc' = "poll"
  /\ UNCHANGED <<serverVars, kernelVars, closing, batch>>

\* handlers_.find(fd) for one event: nobody, the listener, or a session, which reads
\* what there is now: nothing, a message, or the end of the stream.
Dispatch(e) ==
  /\ pc = "dispatch" /\ e \in batch /\ batch' = batch \ {e}
  /\ LET owner == table[e.fd] IN
     \/ /\ owner = Nobody \/ (owner \in Conns /\ peer[owner] = "quiet")
        /\ UNCHANGED <<pc, sessions, kernelVars>>
     \/ /\ owner = Listener /\ pc' = "accept"
        /\ UNCHANGED <<sessions, kernelVars>>
     \/ /\ owner \in Conns /\ peer[owner] = "talks"
        /\ peer' = [peer EXCEPT ![owner] = "quiet"] /\ pc' = "message_handler"
        /\ UNCHANGED <<sessions, sock, fd, table>>
     \/ /\ owner \in Conns /\ peer[owner] = "gone" /\ CloseFromLoop(owner)
        /\ UNCHANGED pc
  /\ UNCHANGED <<listener, started, orphans, closing>>
-----------------------------------------------------------------------------
(* accept_loop(), which goes on after session_handler_ with listen_fd_ as  *)
(* the handler left it.                                                    *)

AcceptWith(c, n, owner) ==
  /\ sock' = [sock EXCEPT ![c] = "open"] /\ fd' = [fd EXCEPT ![c] = n]
  /\ sessions' = sessions \cup {c}
  /\ table' = [table EXCEPT ![n] = owner]

Accept(c) ==
  /\ pc = "accept" /\ listener # 0 /\ c \in Backlog
  /\ \E n \in Fds : NextFd(n) /\ AcceptWith(c, n, c)
  /\ pc' = "session_handler"
  /\ UNCHANGED <<listener, started, orphans, closing, batch, peer>>

AcceptUnwatched(c) ==                        \* loop_.add() throws in session->start()
  /\ pc = "accept" /\ listener # 0 /\ c \in Backlog
  /\ \E n \in Fds : NextFd(n) /\ AcceptWith(c, n, Nobody)
  /\ Throw
  /\ UNCHANGED <<listener, started, orphans, closing, peer>>

AcceptDone ==                                \* EAGAIN
  /\ pc = "accept" /\ listener # 0 /\ Backlog = {} /\ ~(Fds \subseteq Used)
  /\ pc' = "dispatch"
  /\ UNCHANGED <<serverVars, kernelVars, closing, batch>>

\* accept4() fails otherwise: no listener any more (EBADF), no number left (EMFILE, which the
\* kernel finds before it looks for a connection), or the connection was aborted.
AcceptThrows ==
  /\ pc = "accept"
  /\ \/ /\ listener = 0 \/ Fds \subseteq Used
        /\ UNCHANGED <<sock, fd, peer>>
     \/ listener # 0 /\ \E c \in Backlog : Discard({c})
  /\ Throw
  /\ UNCHANGED <<serverVars, table, closing>>

Return ==                                    \* from a callback
  /\ InCallback
  /\ pc' = IF pc = "session_handler" THEN "accept" ELSE "dispatch"
  /\ UNCHANGED <<serverVars, kernelVars, closing, batch>>
-----------------------------------------------------------------------------
(* The peers.                                                              *)

Connect(c) ==
  /\ sock[c] = "none" /\ PortTaken
  /\ sock' = [sock EXCEPT ![c] = "backlog"]
  /\ UNCHANGED <<serverVars, fd, table, closing, batch, pc, peer>>

Talk(c) ==
  /\ sock[c] \in {"backlog", "open"} /\ peer[c] = "quiet"
  /\ peer' = [peer EXCEPT ![c] = "talks"]
  /\ UNCHANGED <<serverVars, sock, fd, table, closing, batch, pc>>

HangUp(c) ==
  /\ sock[c] \in {"backlog", "open"} /\ peer[c] # "gone"
  /\ peer' = [peer EXCEPT ![c] = "gone"]
  /\ UNCHANGED <<serverVars, sock, fd, table, closing, batch, pc>>
-----------------------------------------------------------------------------
Owner == Start \/ StartFails \/ StartUnwatched \/ Stop \/ Destroy \/ Run \/ Leave
Accepting == (\E c \in Conns : Accept(c) \/ AcceptUnwatched(c)) \/ AcceptDone \/ AcceptThrows
Dispatching == (\E e \in batch : Dispatch(e)) \/ BatchDone
Peers == \E c \in Conns : Connect(c) \/ Talk(c) \/ HangUp(c)

Next == \/ Owner \/ Accepting \/ Dispatching \/ Poll \/ Return \/ Peers
        \/ \E c \in Conns : CloseSession(c) \/ RunClose(c)

Spec == Init /\ [][Next]_vars

\* The thread in run() goes on and callbacks return; a drain runs each closure it
\* swapped out, and epoll_wait comes between two drains.
FairSpec == /\ Spec
            /\ WF_vars(Accepting) /\ WF_vars(Dispatching) /\ WF_vars(Return)
            /\ SF_vars(Poll) /\ \A c \in Conns : SF_vars(RunClose(c))
-----------------------------------------------------------------------------
\* Every variable has its type.
TypeOK ==
  /\ listener \in Fds \cup {0} /\ started \in BOOLEAN
  /\ sessions \subseteq Conns /\ closing \subseteq Conns /\ orphans \subseteq Fds
  /\ sock \in [Conns -> {"none", "backlog", "open", "closed"}]
  /\ fd \in [Conns -> Fds \cup {0}]
  /\ table \in [Fds -> Conns \cup {Listener, Nobody}]
  /\ batch \subseteq [fd : Fds, owner : Conns \cup {Listener}]
  /\ pc \in {"out", "poll", "dispatch", "accept", "session_handler", "message_handler",
             "destroyed"}
  /\ peer \in [Conns -> {"quiet", "talks", "gone"}]

\* A number that a callback frees and the kernel hands out again within one batch never
\* carries the rest of the batch to its new owner: run() dispatches by number.
NoEventMisdirected == \A e \in batch : table[e.fd] \in {Nobody, e.owner}

\* The entries of handlers_ are those of the listener and of open sessions, under the
\* number they hold, and no number is held twice.
TableIsRight ==
  /\ \A n \in Fds : /\ table[n] = Listener => listener = n /\ started
                    /\ table[n] \in Conns => Open(table[n]) /\ fd[table[n]] = n
  /\ started => table[listener] = Listener
  /\ \A c \in Conns : /\ Open(c) <=> fd[c] # 0
                      /\ Open(c) => fd[c] \notin {listener} \cup orphans
                      /\ \A d \in Conns : c # d /\ Open(c) => fd[c] # fd[d]

\* sessions_ holds open sessions only, and an open session that it no longer holds is
\* one that stop() let go, whose close() is still in the loop's queue.
NoneForgotten == /\ \A c \in sessions : Open(c)
                 /\ \A c \in Conns : Open(c) => c \in sessions \cup closing

\* A connection in the backlog of a watched listener is accepted or refused, unless
\* run() is left: by an exception of the accept loop, or because the loop is stopped.
Accepted ==
  \A c \in Conns :
    c \in Backlog /\ started /\ pc # "out" ~> c \notin Backlog \/ pc \in {"out", "destroyed"}

\* What stop() let go is closed, whatever is accepted by a start() in the meantime.
StopCloses ==
  \A c \in Conns :
    Open(c) /\ c \notin sessions ~> ~Open(c) \/ pc \in {"out", "destroyed"}
=============================================================================
