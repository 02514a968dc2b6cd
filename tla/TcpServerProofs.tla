-------------------------- MODULE TcpServerProofs ---------------------------
(***************************************************************************)
(* Proofs about TcpServer, for every set of connections and every number   *)
(* of descriptors: its variables keep their types, handlers_ and sessions_ *)
(* stay right, and no event of a batch reaches another than it was for.    *)
(***************************************************************************)
EXTENDS TcpServer, TLAPS

(* The type invariant, which is inductive as it stands. *)

LEMMA TypeInit == Init => TypeOK
BY DEF Init, TypeOK

\* The steps that open, close or hand out descriptors.
LEMMA TypeOfOwner == TypeOK /\ Owner => TypeOK'
<1> SUFFICES ASSUME TypeOK, Owner PROVE TypeOK'
  OBVIOUS
<1> USE DEF TypeOK, serverVars, kernelVars, Fds
<1>1. CASE Start
  BY <1>1 DEF Start, NextFd
<1>2. CASE StartFails
  BY <1>2 DEF StartFails, Throw
<1>3. CASE StartUnwatched
  BY <1>3 DEF StartUnwatched, NextFd, Throw
<1>4. CASE Stop
  BY <1>4 DEF Stop, StopWith, Discard
<1>5. CASE Destroy
  BY <1>5 DEF Destroy, Discard
<1>6. CASE Run \/ Leave
  BY <1>6 DEF Run, Leave
<1> QED
  BY <1>1, <1>2, <1>3, <1>4, <1>5, <1>6 DEF Owner

LEMMA TypeOfAccepting == TypeOK /\ Accepting => TypeOK'
<1> SUFFICES ASSUME TypeOK, Accepting PROVE TypeOK'
  OBVIOUS
<1> USE DEF TypeOK, serverVars, kernelVars, Fds
<1>1. CASE \E c \in Conns : Accept(c)
  BY <1>1 DEF Accept, AcceptWith, NextFd
<1>2. CASE \E c \in Conns : AcceptUnwatched(c)
  BY <1>2 DEF AcceptUnwatched, AcceptWith, NextFd, Throw
<1>3. CASE AcceptDone
  BY <1>3 DEF AcceptDone
<1>4. CASE AcceptThrows
  BY <1>4 DEF AcceptThrows, Throw, Discard
<1> QED
  BY <1>1, <1>2, <1>3, <1>4 DEF Accepting

LEMMA TypeOfDispatching == TypeOK /\ Dispatching => TypeOK'
<1> SUFFICES ASSUME TypeOK, Dispatching PROVE TypeOK'
  OBVIOUS
<1> USE DEF TypeOK, serverVars, kernelVars, Fds
<1>1. CASE \E e \in batch : Dispatch(e)
  BY <1>1 DEF Dispatch, CloseFromLoop, Discard
<1>2. CASE BatchDone
  BY <1>2 DEF BatchDone
<1> QED
  BY <1>1, <1>2 DEF Dispatching

LEMMA TypeStep == TypeOK /\ [Next]_vars => TypeOK'
<1> SUFFICES ASSUME TypeOK, [Next]_vars PROVE TypeOK'
  OBVIOUS
<1>1. CASE Owner
  BY <1>1, TypeOfOwner
<1>2. CASE Accepting
  BY <1>2, TypeOfAccepting
<1>3. CASE Dispatching
  BY <1>3, TypeOfDispatching
<1>4. CASE Poll
  BY <1>4 DEF Poll, Ready, TypeOK, serverVars, kernelVars
<1>5. CASE Return
  BY <1>5 DEF Return, TypeOK, serverVars, kernelVars
<1>6. CASE Peers
  BY <1>6 DEF Peers, Connect, Talk, HangUp, TypeOK, serverVars
<1>7. CASE \E c \in Conns : CloseSession(c)
  BY <1>7 DEF CloseSession, TypeOK, serverVars, kernelVars
<1>8. CASE \E c \in Conns : RunClose(c)
  BY <1>8 DEF RunClose, CloseFromLoop, Discard, TypeOK, kernelVars
<1>9. CASE UNCHANGED vars
  BY <1>9 DEF vars, TypeOK, serverVars, kernelVars
<1> QED
  BY <1>1, <1>2, <1>3, <1>4, <1>5, <1>6, <1>7, <1>8, <1>9 DEF Next

\* Every variable keeps its type.
THEOREM TypeInvariant == Spec => []TypeOK
<1> QED
  BY TypeInit, TypeStep, PTL DEF Spec
-----------------------------------------------------------------------------
(* sessions_ against the open sessions: inductive with the types. *)

LEMMA ForgottenInit == Init => NoneForgotten
BY DEF Init, NoneForgotten, Open

LEMMA ForgottenStep == TypeOK /\ NoneForgotten /\ [Next]_vars => NoneForgotten'
<1> SUFFICES ASSUME TypeOK, NoneForgotten, [Next]_vars PROVE NoneForgotten'
  OBVIOUS
<1> USE DEF TypeOK, NoneForgotten, Open, serverVars, kernelVars
<1>1. CASE Owner
  BY <1>1 DEF Owner, Start, StartFails, StartUnwatched, Stop, StopWith, Destroy, Run, Leave,
              Discard, Backlog
<1>2. CASE \E c \in Conns : Accept(c) \/ AcceptUnwatched(c)
  BY <1>2 DEF Accept, AcceptUnwatched, AcceptWith
<1>3. CASE AcceptDone \/ AcceptThrows
  BY <1>3 DEF AcceptDone, AcceptThrows, Discard, Backlog
<1>4. CASE Dispatching
  BY <1>4 DEF Dispatching, Dispatch, BatchDone, CloseFromLoop, Discard
<1>5. CASE Poll \/ Return
  BY <1>5 DEF Poll, Return
<1>6. CASE Peers
  BY <1>6 DEF Peers, Connect, Talk, HangUp
<1>7. CASE \E c \in Conns : CloseSession(c)
  BY <1>7 DEF CloseSession
<1>8. CASE \E c \in Conns : RunClose(c)
  BY <1>8 DEF RunClose, CloseFromLoop, Discard
<1>9. CASE UNCHANGED vars
  BY <1>9 DEF vars
<1> QED
  BY <1>1, <1>2, <1>3, <1>4, <1>5, <1>6, <1>7, <1>8, <1>9 DEF Next, Accepting

\* sessions_ holds open sessions only, and every other open session has its close()
\* queued: stop() and the exceptions of the accept loop forget none.
THEOREM SessionsAreKept == Spec => []NoneForgotten
<1> QED
  BY TypeInvariant, ForgottenInit, ForgottenStep, PTL DEF Spec
-----------------------------------------------------------------------------
(* handlers_ against the descriptors.  A started server has a listener,    *)
(* without which the entry TableIsRight speaks of would be nobody's.       *)

TableInv == TableIsRight /\ (started => listener # 0)

LEMMA TableInit == Init => TableInv
BY OwnersAssumption DEF Init, TableInv, TableIsRight, Open

\* A number the kernel hands out is nobody's: no entry of the table names it, and it is
\* neither the listener's, nor a forgotten one, nor a session's.
LEMMA FreshNumber ==
  ASSUME TypeOK, TableInv, NEW n \in Fds, NextFd(n)
  PROVE  /\ n # 0 /\ n # listener /\ n \notin orphans
         /\ \A c \in Conns : fd[c] # n
         /\ table[n] = Nobody
<1>1. n # 0 /\ n \notin Used
  BY MaxFdAssumption DEF NextFd, Fds
<1>2. n # listener /\ n \notin orphans /\ \A c \in Conns : fd[c] # n
  BY <1>1 DEF Used
<1>3. table[n] = Nobody
  BY <1>2 DEF TypeOK, TableInv, TableIsRight
<1> QED
  BY <1>1, <1>2, <1>3

LEMMA TableOfOwner == TypeOK /\ TableInv /\ Owner => TableInv'
<1> SUFFICES ASSUME TypeOK, TableInv, Owner PROVE TableInv'
  OBVIOUS
<1> USE OwnersAssumption DEF TypeOK, TableInv, TableIsRight, Open, serverVars, kernelVars
<1>1. CASE Start
  <2> PICK n \in Fds : /\ NextFd(n) /\ listener' = n
                       /\ table' = [table EXCEPT ![n] = Listener]
    BY <1>1 DEF Start
  <2>1. /\ n # 0 /\ n \notin orphans /\ \A c \in Conns : fd[c] # n
        /\ listener = 0
    BY <1>1, FreshNumber DEF Start, PortTaken
  <2>2. UNCHANGED <<sock, fd, orphans>> /\ started' = TRUE
    BY <1>1 DEF Start
  <2>3. \A m \in Fds : table[m] # Listener
    BY <2>1 DEF Fds
  <2> QED
    BY <2>1, <2>2, <2>3
<1>2. CASE StartFails
  BY <1>2 DEF StartFails, PortTaken
<1>3. CASE StartUnwatched
  <2> PICK n \in Fds : NextFd(n) /\ listener' = n
    BY <1>3 DEF StartUnwatched
  <2>1. n # 0 /\ n \notin orphans /\ \A c \in Conns : fd[c] # n
    BY FreshNumber
  <2> QED
    BY <1>3, <2>1 DEF StartUnwatched
<1>4. CASE Stop
  BY <1>4 DEF Stop, StopWith, Discard, Backlog
<1>5. CASE Destroy
  BY <1>5 DEF Destroy, Discard, Backlog
<1>6. CASE Run \/ Leave
  BY <1>6 DEF Run, Leave
<1> QED
  BY <1>1, <1>2, <1>3, <1>4, <1>5, <1>6 DEF Owner

\* accept4() gives a connection of the backlog a fresh number; its entry is the new
\* session's, or still nobody's when loop_.add() throws.
LEMMA TableOfAccept ==
  ASSUME TypeOK, TableInv, NEW c \in Backlog, NEW n \in Fds, NextFd(n),
         NEW owner \in {c, Nobody}, AcceptWith(c, n, owner),
         UNCHANGED <<listener, started, orphans>>
  PROVE  TableInv'
<1> USE DEF TypeOK, TableInv, TableIsRight, Open
<1>1. /\ n # 0 /\ n # listener /\ n \notin orphans
      /\ \A d \in Conns : fd[d] # n
  BY FreshNumber
<1>2. c \in Conns /\ sock[c] = "backlog" /\ fd[c] = 0
  BY DEF Backlog
<1>3. \A m \in Fds : table[m] # c
  BY <1>2
<1>4. /\ sock' = [sock EXCEPT ![c] = "open"] /\ fd' = [fd EXCEPT ![c] = n]
      /\ table' = [table EXCEPT ![n] = owner]
  BY DEF AcceptWith
<1>5. \A m \in Fds : /\ table'[m] = Listener => listener = m /\ started
                     /\ table'[m] \in Conns => Open(table[m])' /\ fd'[table'[m]] = m
  BY <1>1, <1>2, <1>3, <1>4, OwnersAssumption
<1>6. started => table'[listener] = Listener
  BY <1>1, <1>4
<1>7. \A d \in Conns : /\ Open(d)' <=> fd'[d] # 0
                       /\ Open(d)' => fd'[d] \notin {listener} \cup orphans
  BY <1>1, <1>2, <1>4
<1>8. \A d, e \in Conns : d # e /\ Open(d)' => fd'[d] # fd'[e]
  BY <1>1, <1>2, <1>4, MaxFdAssumption DEF Fds
<1> QED
  BY <1>5, <1>6, <1>7, <1>8

LEMMA TableOfClose ==
  ASSUME TypeOK, TableInv, NEW c \in Conns, CloseFromLoop(c),
         UNCHANGED <<listener, started, orphans>>
  PROVE  TableInv'
BY OwnersAssumption DEF TypeOK, TableInv, TableIsRight, Open, CloseFromLoop, Discard

LEMMA TableStep == TypeOK /\ TableInv /\ [Next]_vars => TableInv'
<1> SUFFICES ASSUME TypeOK, TableInv, [Next]_vars PROVE TableInv'
  OBVIOUS
<1> USE DEF serverVars, kernelVars
<1> DEFINE Same == UNCHANGED <<listener, started, orphans, sock, fd, table>>
<1>0. Same => TableInv'
  BY DEF TableInv, TableIsRight, Open
<1>1. CASE Owner
  BY <1>1, TableOfOwner
<1>2. CASE \E c \in Conns : Accept(c) \/ AcceptUnwatched(c)
  BY <1>2, TableOfAccept DEF Accept, AcceptUnwatched
<1>3. CASE AcceptDone
  BY <1>0, <1>3 DEF AcceptDone
<1>4. CASE AcceptThrows
  BY <1>4 DEF AcceptThrows, Discard, Backlog, TypeOK, TableInv, TableIsRight, Open
<1>5. CASE \E e \in batch : Dispatch(e)
  <2> PICK e \in batch : Dispatch(e)
    BY <1>5
  <2>1. UNCHANGED <<listener, started, orphans>>
    BY DEF Dispatch
  <2>2. CASE UNCHANGED <<sock, fd, table>>
    BY <2>1, <2>2, <1>0
  <2>3. CASE table[e.fd] \in Conns /\ CloseFromLoop(table[e.fd])
    BY <2>1, <2>3, TableOfClose
  <2> QED
    BY <2>2, <2>3 DEF Dispatch
<1>6. CASE BatchDone \/ Poll \/ Return
  BY <1>0, <1>6 DEF BatchDone, Poll, Return
<1>7. CASE Peers
  BY <1>7 DEF Peers, Connect, Talk, HangUp, TypeOK, TableInv, TableIsRight, Open
<1>8. CASE \E c \in Conns : CloseSession(c)
  BY <1>0, <1>8 DEF CloseSession
<1>9. CASE \E c \in Conns : RunClose(c)
  BY <1>0, <1>9, TableOfClose DEF RunClose
<1>10. CASE UNCHANGED vars
  BY <1>0, <1>10 DEF vars
<1> HIDE DEF Same
<1> QED
  BY <1>1, <1>2, <1>3, <1>4, <1>5, <1>6, <1>7, <1>8, <1>9, <1>10 DEF Next, Accepting, Dispatching

\* handlers_ holds the listener and open sessions, each under the number it has, and no
\* number is held twice, whatever is closed and accepted in between.
THEOREM TableStaysRight == Spec => []TableIsRight
<1>1. Spec => []TableInv
  BY TypeInvariant, TableInit, TableStep, PTL DEF Spec
<1> QED
  BY <1>1, PTL DEF TableInv
-----------------------------------------------------------------------------
(* The events of a batch.  NoEventMisdirected allows a dead entry for each *)
(* event, from which a later accept could make another's.  What rules that *)
(* out is that only its own event closes a session while a batch lasts,    *)
(* and that the one event that may find a dead entry, the listener's, is   *)
(* gone before anything is accepted.                                       *)

BatchInv ==
  /\ batch # {} => pc \in {"dispatch", "accept", "session_handler", "message_handler"}
  /\ \A e \in batch : e.owner \in Conns => table[e.fd] = e.owner
  /\ \A e \in batch : e.owner = Listener => table[e.fd] \in {Listener, Nobody}
  /\ \A e, f \in batch : e.owner = Listener /\ f.owner = Listener => e = f
  /\ \A e, f \in batch : e.fd = f.fd => e = f
  /\ pc \in {"accept", "session_handler"} => \A e \in batch : e.owner # Listener

LEMMA BatchInit == Init => BatchInv
BY DEF Init, BatchInv

LEMMA EmptyBatch == batch' = {} => BatchInv'
BY DEF BatchInv

LEMMA BatchOfOwner == TypeOK /\ TableInv /\ BatchInv /\ Owner => BatchInv'
<1> SUFFICES ASSUME TypeOK, TableInv, BatchInv, Owner PROVE BatchInv'
  OBVIOUS
<1> USE OwnersAssumption DEF BatchInv, TypeOK, serverVars, kernelVars
<1>1. CASE Start
  <2> PICK n \in Fds : /\ NextFd(n) /\ listener' = n
                       /\ table' = [table EXCEPT ![n] = Listener]
    BY <1>1 DEF Start
  <2>1. table[n] = Nobody
    BY FreshNumber
  <2>2. UNCHANGED <<batch, pc>>
    BY <1>1 DEF Start
  <2> QED
    BY <2>1, <2>2
<1>2. CASE StartFails \/ StartUnwatched
  BY <1>2, EmptyBatch DEF StartFails, StartUnwatched, Throw
<1>3. CASE Stop
  BY <1>3 DEF Stop, StopWith
<1>4. CASE Destroy
  BY <1>4 DEF Destroy
<1>5. CASE Run \/ Leave
  BY <1>5 DEF Run, Leave
<1> QED
  BY <1>1, <1>2, <1>3, <1>4, <1>5 DEF Owner

LEMMA BatchOfAccepting == TypeOK /\ TableInv /\ BatchInv /\ Accepting => BatchInv'
<1> SUFFICES ASSUME TypeOK, TableInv, BatchInv, Accepting PROVE BatchInv'
  OBVIOUS
<1> USE OwnersAssumption DEF BatchInv, TypeOK, serverVars, kernelVars
<1>1. ASSUME NEW c \in Conns, Accept(c) PROVE BatchInv'
  <2> PICK n \in Fds : NextFd(n) /\ AcceptWith(c, n, c)
    BY <1>1 DEF Accept
  <2>1. table[n] = Nobody /\ table' = [table EXCEPT ![n] = c]
    BY FreshNumber DEF AcceptWith
  <2>2. pc = "accept" /\ pc' = "session_handler" /\ UNCHANGED batch
    BY <1>1 DEF Accept
  <2> QED
    BY <2>1, <2>2
<1>2. ASSUME NEW c \in Conns, AcceptUnwatched(c) PROVE BatchInv'
  BY <1>2, EmptyBatch DEF AcceptUnwatched, Throw
<1>3. CASE AcceptDone
  BY <1>3 DEF AcceptDone
<1>4. CASE AcceptThrows
  BY <1>4, EmptyBatch DEF AcceptThrows, Throw
<1> QED
  BY <1>1, <1>2, <1>3, <1>4 DEF Accepting

\* One event: its entry is the listener's, which only the listener's event names, or a
\* session's, which no other event names.
LEMMA BatchOfDispatch ==
  ASSUME TypeOK, TableInv, BatchInv, NEW e \in batch, Dispatch(e)
  PROVE  BatchInv'
<1> USE OwnersAssumption DEF BatchInv, TypeOK
<1>1. /\ e.fd \in Fds /\ e.owner \in Conns \cup {Listener}
      /\ pc = "dispatch" /\ batch' = batch \ {e}
  BY DEF Dispatch
<1>2. CASE UNCHANGED <<pc, table>>
  BY <1>1, <1>2
<1>3. CASE table[e.fd] = Listener /\ pc' = "accept" /\ UNCHANGED table
  <2>1. e.owner = Listener
    BY <1>1, <1>3
  <2> QED
    BY <1>1, <1>3, <2>1
<1>4. CASE pc' = "message_handler" /\ UNCHANGED table
  BY <1>1, <1>4
<1>5. CASE table[e.fd] \in Conns /\ CloseFromLoop(table[e.fd]) /\ UNCHANGED pc
  <2>1. \A f \in batch : f # e => f.fd \in Fds /\ table[f.fd] # table[e.fd]
    BY <1>1, <1>5 DEF TableInv, TableIsRight
  <2>2. \A f \in batch' : table'[f.fd] = table[f.fd]
    BY <1>1, <1>5, <2>1 DEF CloseFromLoop
  <2> QED
    BY <1>1, <1>5, <2>2
<1> QED
  BY <1>2, <1>3, <1>4, <1>5 DEF Dispatch, kernelVars

LEMMA BatchStep == TypeOK /\ TableInv /\ BatchInv /\ [Next]_vars => BatchInv'
<1> SUFFICES ASSUME TypeOK, TableInv, BatchInv, [Next]_vars PROVE BatchInv'
  OBVIOUS
<1> USE DEF serverVars, kernelVars
<1>1. CASE Owner
  BY <1>1, BatchOfOwner
<1>2. CASE Accepting
  BY <1>2, BatchOfAccepting
<1>3. CASE \E e \in batch : Dispatch(e)
  BY <1>3, BatchOfDispatch
<1>4. CASE BatchDone
  BY <1>4, EmptyBatch DEF BatchDone
<1>5. CASE Poll
  <2>1. \A n, k \in Ready : table[n] = Listener /\ table[k] = Listener => n = k
    BY DEF Ready, TableInv, TableIsRight
  <2>2. /\ pc' = "dispatch" /\ UNCHANGED table
        /\ batch' = {[fd |-> n, owner |-> table[n]] : n \in Ready}
    BY <1>5 DEF Poll
  <2> QED
    BY <2>1, <2>2 DEF BatchInv
<1>6. CASE Return
  BY <1>6 DEF Return, InCallback, BatchInv
<1>7. CASE Peers
  BY <1>7 DEF Peers, Connect, Talk, HangUp, BatchInv
<1>8. CASE \E c \in Conns : CloseSession(c)
  BY <1>8 DEF CloseSession, BatchInv
<1>9. CASE \E c \in Conns : RunClose(c)
  <2>1. batch' = {}
    BY <1>9 DEF RunClose, BatchInv
  <2> QED
    BY <2>1, EmptyBatch
<1>10. CASE UNCHANGED vars
  BY <1>10 DEF vars, BatchInv
<1> QED
  BY <1>1, <1>2, <1>3, <1>4, <1>5, <1>6, <1>7, <1>8, <1>9, <1>10 DEF Next, Dispatching

\* An event reaches the owner that was ready, or nobody: a number that a callback of the
\* batch frees is not another's before the batch ends.
THEOREM EventsReachTheirOwner == Spec => []NoEventMisdirected
<1>1. Spec => []TableInv
  BY TypeInvariant, TableInit, TableStep, PTL DEF Spec
<1>2. Spec => []BatchInv
  BY <1>1, TypeInvariant, BatchInit, BatchStep, PTL DEF Spec
<1>3. TypeOK /\ BatchInv => NoEventMisdirected
  BY OwnersAssumption DEF TypeOK, BatchInv, NoEventMisdirected
<1> QED
  BY <1>2, <1>3, TypeInvariant, PTL
=============================================================================
