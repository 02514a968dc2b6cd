--------------------------- MODULE SessionProofs ----------------------------
(***************************************************************************)
(* Session's safety, for every set of frames, every frame size, every      *)
(* stream of the peer and every size of the send buffer.                   *)
(***************************************************************************)
EXTENDS Session, SequenceTheorems, TLAPS

\* No frame in the queue is written beyond its end.
WithinFrame == \A i \in 1..Len(wq) : wq[i].written < Size[wq[i].frame]

\* The session's life: nothing happens before start(), only message handlers have the
\* session inside it, the write queue and the epoll interest end with open_, and the
\* close handler is called at that point.
LifeInv ==
  /\ phase = "new" => /\ open /\ ~registered /\ ~handler /\ interest = {}
                      /\ tasks = <<>> /\ reported = {} /\ activity = "none" /\ wq = <<>>
  /\ phase = "added" => ~registered /\ "OUT" \notin interest \cup reported
  /\ phase = "added" /\ ~OffLoop => /\ tasks = <<>> /\ reported = {}
                                    /\ activity = "none" /\ wq = <<>>
  /\ phase = "unwatched" => ~registered /\ ~handler /\ interest = {} /\ reported = {}
  /\ phase = "started" /\ open => registered
  /\ phase = "destroyed" => reported = {} /\ activity = "none"
  /\ open => closes = 0
  /\ ~open => wq = <<>> /\ interest = {} /\ closes = 1

\* The Boolean variables stay Boolean.
LEMMA FlagsStep == TypeOK /\ [Next]_vars => FlagTypes'
<1> SUFFICES ASSUME FlagTypes, [Next]_vars PROVE FlagTypes'
  BY DEF TypeOK
<1> USE DEF FlagTypes, endVars, loopVars, netVars, Shut, CloseWith
<1>1. CASE Add \/ AddFails \/ Register
  BY <1>1, Zenon DEF Add, AddFails, Register
<1>2. ASSUME NEW f \in Frames, Send(f) PROVE FlagTypes'
  BY <1>2, Zenon DEF Send
<1>3. CASE Close \/ Poll
  BY <1>3, Zenon DEF Close, Poll
<1>4. CASE RunSend
  BY <1>4, Zenon DEF RunSend
<1>5. CASE RunClose
  BY <1>5, Zenon DEF RunClose
<1>6. CASE OnError \/ OnWritable
  BY <1>6, Zenon DEF OnError, OnWritable
<1>7. CASE OnReadable
  BY <1>7, Zenon DEF OnReadable
<1>8. CASE Deliver \/ NeedMore
  BY <1>8, Zenon DEF Deliver, NeedMore
<1>9. CASE Refuse \/ WriteFail
  BY <1>9, Zenon DEF Refuse, WriteFail
<1>10. CASE WriteSome \/ WriteStop
  BY <1>10, Zenon DEF WriteSome, WriteStop
<1>11. CASE Destroy
  BY <1>11, Zenon DEF Destroy
<1>12. CASE PeerStep
  BY <1>12, Zenon DEF PeerStep
<1>13. CASE PeerReads
  BY <1>13, Zenon DEF PeerReads
<1>14. CASE UNCHANGED vars
  BY <1>14, Zenon DEF vars
<1>15. QED
  BY <1>1, <1>2, <1>3, <1>4, <1>5, <1>6, <1>7, <1>8, <1>9, <1>10, <1>11, <1>12, <1>13, <1>14
     DEF Next, Loop, Handling

Closed == /\ ~open /\ ~registered /\ interest = {} /\ closes = 1
          /\ wq = <<>> /\ wq \in Seq(OutgoingFrame) /\ results \in [Frames -> Seq(Codes)]

\* fail_and_close() and close_from_loop() close an open session.
LEMMA ShutCloses ==
  ASSUME TypeOK, LifeInv, open, NEW code \in {"not_connected", "error"}, Shut(code)
  PROVE  Closed' /\ (handler' => handler)
<1>1. results \in [Frames -> Seq(Codes)]
  BY DEF TypeOK
<1>2. results' \in [Frames -> Seq(Codes)]
  BY <1>1, AppendProperties DEF Shut, CloseWith, Answered, Codes
<1>3. <<>> \in Seq(OutgoingFrame)
  BY EmptySeq
<1>4. Closed'
  BY <1>2, <1>3 DEF Shut, CloseWith, LifeInv, Closed
<1>5. handler' => handler
  BY DEF Shut, CloseWith
<1>6. QED
  BY <1>4, <1>5

\* A WriteHandler's call is recorded in its type.
LEMMA Result ==
  ASSUME results \in [Frames -> Seq(Codes)], NEW f \in Frames,
         NEW code \in {"ok", "not_connected"}
  PROVE  [results EXCEPT ![f] = Append(@, code)] \in [Frames -> Seq(Codes)]
<1>1. results[f] \in Seq(Codes) /\ code \in Codes
  BY DEF Codes
<1>2. Append(results[f], code) \in Seq(Codes)
  BY <1>1, AppendProperties
<1>3. QED
  BY <1>2

\* The types, the session's life and the frames' bounds are inductive together.
LEMMA SessionShape == Spec => [](TypeOK /\ LifeInv /\ WithinFrame)
<1> DEFINE Inv == TypeOK /\ LifeInv
<1>1. Init => Inv /\ WithinFrame
  <2> SUFFICES ASSUME Init PROVE Inv /\ WithinFrame
    OBVIOUS
  <2>1. /\ tasks \in Seq(Frames \cup {CloseTask}) /\ sent \in Seq(Frames)
        /\ wq \in Seq(OutgoingFrame) /\ wire \in Seq(Frames \X Nat) /\ delivered \in Seq(Nat)
        /\ results \in [Frames -> Seq(Codes)]
    BY DEF Init
  <2>2. room \in 0..Buffer
    BY BufferAssumption DEF Init
  <2>3. FlagTypes
    BY Zenon DEF Init, FlagTypes
  <2>4. LifeInv /\ WithinFrame
    BY DEF Init, LifeInv, WithinFrame
  <2>5. QED
    BY <2>1, <2>2, <2>3, <2>4 DEF Init, Inv, TypeOK
<1>2. Inv /\ WithinFrame /\ [Next]_vars => Inv' /\ WithinFrame'
  <2> SUFFICES ASSUME TypeOK, LifeInv, WithinFrame, [Next]_vars PROVE Inv' /\ WithinFrame'
    OBVIOUS
  <2> FlagTypes'
    BY FlagsStep
  <2> USE DEF Inv, endVars, loopVars, streamVars, netVars, outVars, LoopFree
  <2>0. /\ tasks \in Seq(Frames \cup {CloseTask}) /\ sent \in Seq(Frames)
        /\ wq \in Seq(OutgoingFrame) /\ wire \in Seq(Frames \X Nat)
        /\ results \in [Frames -> Seq(Codes)]
    BY DEF TypeOK
  <2>1. ASSUME Add \/ AddFails \/ Register PROVE Inv'
    <3>1. CASE Add
      BY <3>1 DEF Add, TypeOK, LifeInv, Events
    <3>4. CASE AddFails
      BY <3>4 DEF AddFails, TypeOK, LifeInv
    <3>2. CASE Register
      BY <3>2 DEF Register, TypeOK, LifeInv
    <3>3. QED
      BY <2>1, <3>1, <3>2, <3>4
  <2>2. ASSUME NEW f \in Frames, Send(f) PROVE Inv'
    <3>1. /\ Append(tasks, f) \in Seq(Frames \cup {CloseTask})
          /\ Append(sent, f) \in Seq(Frames)
      BY <2>0, AppendProperties
    <3>2. tasks' \in Seq(Frames \cup {CloseTask}) /\ sent' \in Seq(Frames)
      BY <2>0, <2>2, <3>1 DEF Send
    <3>3. <<"message_size">> \in Seq(Codes)
      BY DEF Codes
    <3>4. results' \in [Frames -> Seq(Codes)]
      BY <2>0, <2>2, <3>3 DEF Send
    <3>5. QED
      BY <2>2, <3>2, <3>4 DEF Send, Shared, TypeOK, LifeInv
  <2>3. ASSUME Close PROVE Inv'
    <3>1. tasks' \in Seq(Frames \cup {CloseTask})
      BY <2>0, <2>3, AppendProperties DEF Close
    <3>2. QED
      BY <2>3, <3>1 DEF Close, Shared, TypeOK, LifeInv
  <2>4. ASSUME RunSend PROVE Inv' /\ WithinFrame'
    <3>1. Head(tasks) \in Frames /\ tasks' \in Seq(Frames \cup {CloseTask})
      BY <2>0, <2>4, HeadTailProperties DEF RunSend
    <3>2. CASE ~open
      <4>1. results' \in [Frames -> Seq(Codes)]
        BY <2>0, <2>4, <3>1, <3>2, Result DEF RunSend
      <4>2. QED
        BY <2>4, <3>1, <3>2, <4>1 DEF RunSend, TypeOK, LifeInv, WithinFrame
    <3>3. CASE open
      <4>1. wq' \in Seq(OutgoingFrame) /\ wq' # <<>> /\ WithinFrame'
        <5> DEFINE new == [frame |-> Head(tasks), written |-> 0]
        <5>1. new \in OutgoingFrame /\ new.written < Size[new.frame] /\ wq' = Append(wq, new)
          BY <2>4, <3>1, <3>3, SizeAssumption DEF RunSend, OutgoingFrame
        <5>2. /\ wq' \in Seq(OutgoingFrame) /\ Len(wq') = Len(wq) + 1
              /\ \A i \in 1..Len(wq) : wq'[i] = wq[i]
              /\ wq'[Len(wq) + 1] = new
          BY <2>0, <5>1, AppendProperties
        <5>3. Len(wq) \in Nat
          BY <2>0, LenProperties
        <5>4. QED
          BY <2>0, <5>1, <5>2, <5>3 DEF WithinFrame
      <4>2. /\ interest' \subseteq Events /\ (~registered => interest' = interest)
            /\ activity' = "writing" /\ reported = {}
            /\ UNCHANGED <<phase, open, registered, handler, closes, sent, reported, results,
                           streamVars, netVars, outVars>>
        BY <2>4, <3>3 DEF RunSend, InterestFor, TypeOK, Events
      <4>3. TypeOK'
        BY <3>1, <3>3, <4>1, <4>2 DEF TypeOK
      <4>4. phase # "new" /\ phase # "destroyed" /\ ~(phase = "added" /\ ~OffLoop)
        BY <2>4 DEF RunSend, LifeInv
      <4>5. LifeInv'
        BY <3>3, <4>2, <4>4 DEF LifeInv
      <4>6. QED
        BY <4>1, <4>3, <4>5
    <3>4. QED
      BY <3>2, <3>3
  <2>5. ASSUME RunClose PROVE Inv'
    <3>1. tasks' \in Seq(Frames \cup {CloseTask})
      BY <2>0, <2>5, HeadTailProperties DEF RunClose
    <3>2. CASE open
      <4>1. Closed' /\ (handler' => handler)
        BY <2>5, <3>2, ShutCloses DEF RunClose
      <4>2. TypeOK'
        BY <2>5, <3>1, <4>1 DEF RunClose, Closed, TypeOK
      <4>3. LifeInv'
        BY <2>5, <3>1, <4>1 DEF RunClose, Closed, LifeInv
      <4>4. QED
        BY <4>2, <4>3
    <3>3. CASE ~open
      BY <2>5, <3>1, <3>3 DEF RunClose, TypeOK, LifeInv
    <3>4. QED
      BY <3>2, <3>3
  <2>6. ASSUME Poll PROVE Inv'
    BY <2>6 DEF Poll, Ready, TypeOK, LifeInv, Events
  <2>7. ASSUME OnError PROVE Inv'
    <3>1. open
      BY <2>7 DEF OnError, TypeOK
    <3>2. Closed' /\ (handler' => handler)
      BY <2>7, <3>1, ShutCloses DEF OnError
    <3>3. QED
      BY <2>7, <3>2 DEF OnError, Closed, TypeOK, LifeInv
  <2>8. ASSUME OnReadable PROVE Inv'
    <3>1. open /\ buffered' \in Nat /\ unread' \in Nat
      BY <2>8 DEF OnReadable, TypeOK
    <3>2. /\ activity = "none" /\ "IN" \in reported
          /\ UNCHANGED <<phase, tasks, sent, popped, delivered, inbound, fin, reset, outVars>>
      BY <2>8 DEF OnReadable
    <3>3. ASSUME NEW code \in {"not_connected", "error"}, Shut(code),
                 reported' = {}, UNCHANGED activity
          PROVE  Inv'
      <4>1. Closed' /\ (handler' => handler)
        BY <3>1, <3>3, ShutCloses
      <4>2. QED
        BY <3>1, <3>2, <3>3, <4>1 DEF Closed, TypeOK, LifeInv
    <3>4. ASSUME activity' = "parsing", reported' = reported \ {"IN"}, UNCHANGED endVars
          PROVE  Inv'
      BY <3>1, <3>2, <3>4 DEF TypeOK, LifeInv
    <3>5. QED
      BY <2>8, <3>3, <3>4 DEF OnReadable
  <2>9. ASSUME OnWritable PROVE Inv'
    BY <2>9 DEF OnWritable, TypeOK, LifeInv
  <2>10. ASSUME Deliver PROVE Inv'
    <3>1. delivered' \in Seq(Nat)
      BY <2>10, AppendProperties DEF Deliver, TypeOK
    <3>2. QED
      BY <2>10, <3>1 DEF Deliver, Complete, TypeOK, LifeInv
  <2>11. ASSUME Refuse PROVE Inv'
    <3>1. open /\ buffered' \in Nat /\ popped' \in Nat
      BY <2>11 DEF Refuse, Complete, TypeOK
    <3>2. Closed' /\ (handler' => handler)
      BY <2>11, <3>1, ShutCloses DEF Refuse
    <3>3. TypeOK'
      BY <2>11, <3>1, <3>2 DEF Refuse, Closed, TypeOK
    <3>4. LifeInv'
      BY <2>11, <3>1, <3>2 DEF Refuse, Closed, LifeInv
    <3>5. QED
      BY <3>3, <3>4
  <2>12. ASSUME NeedMore PROVE Inv'
    BY <2>12 DEF NeedMore, TypeOK, LifeInv
  <2>13. ASSUME WriteSome PROVE Inv' /\ WithinFrame'
    <3> DEFINE f == wq[1].frame
               n == wq[1].written
    <3>1. Len(wq) \in Nat \ {0} /\ wq[1] \in OutgoingFrame
      BY <2>0, <2>13, EmptySeq, LenProperties, ElementOfSeq DEF WriteSome
    <3>2. f \in Frames /\ n \in Nat /\ Size[f] \in Nat
      BY <3>1, SizeAssumption DEF OutgoingFrame
    <3>3. room \in 0..Buffer /\ room > 0 /\ open
      BY <2>13 DEF WriteSome, TypeOK
    <3>4. n < Size[f]
      BY <3>1 DEF WithinFrame
    <3>5. /\ Len(wq) \in Nat \ {0} /\ wq[1] \in OutgoingFrame /\ f \in Frames /\ n \in Nat
          /\ Size[f] \in Nat /\ n < Size[f] /\ room \in 0..Buffer /\ room > 0
      BY <3>1, <3>2, <3>3, <3>4
    <3>6. Taken \in 1..room /\ Taken <= Size[f] - n
      BY <3>5 DEF Taken, Smaller
    <3>7. Units \in Seq(Frames \X Nat)
      BY <3>5, <3>6, IsASeq DEF Units
    <3>8. wire' \in Seq(Frames \X Nat)
      <4>1. wire' = wire \o Units
        BY <2>13 DEF WriteSome
      <4>2. QED
        BY <2>0, <3>7, <4>1, ConcatProperties
    <3>9. room' \in 0..Buffer
      BY <2>13, <3>5, <3>6, BufferAssumption DEF WriteSome
    <3>10. results' \in [Frames -> Seq(Codes)]
      BY <2>0, <2>13, <3>5, Result DEF WriteSome
    <3>11. wq' \in Seq(OutgoingFrame) /\ WithinFrame'
      <4>1. CASE n + Taken = Size[f]
        <5>1. wq' = Tail(wq)
          BY <2>13, <4>1 DEF WriteSome
        <5>2. /\ Tail(wq) \in Seq(OutgoingFrame) /\ Len(Tail(wq)) = Len(wq) - 1
              /\ \A i \in 1..Len(Tail(wq)) : Tail(wq)[i] = wq[i + 1]
          BY <2>0, <2>13, HeadTailProperties DEF WriteSome
        <5>3. \A i \in 1..Len(Tail(wq)) : i + 1 \in 1..Len(wq)
          BY <3>5, <5>2
        <5>4. QED
          BY <5>1, <5>2, <5>3 DEF WithinFrame
      <4>2. CASE n + Taken # Size[f]
        <5>1. wq' = [wq EXCEPT ![1] = [frame |-> f, written |-> n + Taken]]
          BY <2>0, <2>13, <3>5, <4>2 DEF WriteSome, OutgoingFrame
        <5>2. [frame |-> f, written |-> n + Taken] \in OutgoingFrame /\ n + Taken < Size[f]
          BY <3>5, <3>6, <4>2 DEF OutgoingFrame
        <5>3. QED
          BY <2>0, <3>5, <5>1, <5>2, ExceptSeq, LenProperties DEF WithinFrame
      <4>3. QED
        BY <4>1, <4>2
    <3>12. QED
      BY <2>13, <3>8, <3>10, <3>11, <3>9, <3>3 DEF WriteSome, TypeOK, LifeInv
  <2>14. ASSUME WriteStop PROVE Inv'
    <3>1. interest' \subseteq Events /\ open
      BY <2>14 DEF WriteStop, InterestFor, TypeOK, Events
    <3>2. TypeOK'
      BY <2>14, <3>1 DEF WriteStop, TypeOK
    <3>3. LifeInv'
      BY <2>14, <3>1 DEF WriteStop, InterestFor, LifeInv
    <3>4. QED
      BY <3>2, <3>3
  <2>15. ASSUME WriteFail PROVE Inv'
    <3>1. open
      BY <2>15 DEF WriteFail, TypeOK
    <3>2. Closed' /\ (handler' => handler)
      BY <2>15, <3>1, ShutCloses DEF WriteFail
    <3>3. TypeOK'
      BY <2>15, <3>2 DEF WriteFail, Closed, TypeOK
    <3>4. LifeInv'
      BY <2>15, <3>2 DEF WriteFail, Closed, LifeInv
    <3>5. QED
      BY <3>3, <3>4
  <2>16. ASSUME Destroy PROVE Inv'
    BY <2>16, EmptySeq DEF Destroy, TypeOK, LifeInv
  <2>17. ASSUME PeerStep \/ PeerReads PROVE Inv'
    <3>1. unread' \in Nat /\ room' \in 0..Buffer
      <4>1. unread \in Nat /\ room \in 0..Buffer
        BY DEF TypeOK
      <4>2. CASE PeerStep
        BY <4>1, <4>2 DEF PeerStep
      <4>3. CASE PeerReads
        BY <4>1, <4>3, BufferAssumption DEF PeerReads
      <4>4. QED
        BY <2>17, <4>2, <4>3
    <3>2. UNCHANGED <<phase, tasks, sent, activity, reported, streamVars, inbound, wire, endVars>>
      BY <2>17 DEF PeerStep, PeerReads
    <3>3. QED
      BY <3>1, <3>2 DEF TypeOK, LifeInv
  <2>18. ASSUME UNCHANGED vars PROVE Inv'
    BY <2>18 DEF vars, TypeOK, LifeInv
  <2>19. wq' = wq \/ wq' = <<>> \/ RunSend \/ WriteSome
    BY DEF Next, Loop, Handling, Add, AddFails, Register, Send, Close, RunClose, Poll, OnError,
           OnReadable, OnWritable, Deliver, Refuse, NeedMore, WriteStop, WriteFail,
           Destroy, PeerStep, PeerReads, Shut, CloseWith, vars
  <2>20. wq' = wq \/ wq' = <<>> => WithinFrame'
    BY DEF WithinFrame
  <2>21. QED
    BY <2>19, <2>20, <2>1, <2>2, <2>3, <2>4, <2>5, <2>6, <2>7, <2>8, <2>9, <2>10, <2>11, <2>12, <2>13,
       <2>14, <2>15, <2>16, <2>17, <2>18 DEF Next, Loop, Handling
<1>3. QED
  BY <1>1, <1>2, PTL DEF Spec
-----------------------------------------------------------------------------
\* Whatever the threads, the loop, the peer and the network do, every variable
\* keeps its type and no event is handled for a closed session.
THEOREM TypeInvariant == Spec => []TypeOK
  BY SessionShape, PTL
-----------------------------------------------------------------------------
(* EPOLLOUT.  Between the change of the queue and update_events() the loop *)
(* is inside async_write(), so the interest is right everywhere else, if   *)
(* no write runs between loop_.add() and registered_ = true.               *)

Armed == ~OffLoop /\ phase \in {"new", "added", "started"} /\ open /\ activity # "writing"
ArmInv == Armed => ("OUT" \in interest <=> wq # <<>>)

\* An open session that was started on its loop's thread waits for a writable socket
\* exactly when it has frames to write.
THEOREM InterestIsRight == Spec => [](~OffLoop => OutInterest)
<1>1. Init => ArmInv
  BY DEF Init, ArmInv, Armed
<1>2. TypeOK /\ LifeInv /\ ArmInv /\ [Next]_vars => ArmInv'
  <2> SUFFICES ASSUME TypeOK, LifeInv, ArmInv, [Next]_vars PROVE ArmInv'
    OBVIOUS
  <2> USE DEF ArmInv, Armed, endVars, loopVars
  <2>1. ASSUME NEW code \in {"not_connected", "error"}, Shut(code) PROVE ArmInv'
    BY <2>1 DEF Shut, CloseWith
  <2>2. CASE Add
    BY <2>2 DEF Add, LifeInv
  <2>3. CASE RunSend
    BY <2>3 DEF RunSend
  <2>4. CASE WriteStop
    <3>1. UNCHANGED phase /\ (~OffLoop /\ phase \in {"new", "added", "started"} => registered)
      BY <2>4 DEF WriteStop, TypeOK, LifeInv
    <3>2. QED
      BY <2>4, <3>1 DEF WriteStop, InterestFor
  <2>5. CASE WriteSome \/ AddFails \/ Destroy
    BY <2>5 DEF WriteSome, AddFails, Destroy
  <2>6. CASE UNCHANGED <<open, interest, wq>> /\ (activity = "writing" => activity' = "writing")
             /\ (UNCHANGED phase \/ (phase = "added" /\ phase' = "started"))
    BY <2>6
  <2>7. CASE RunClose
    BY <2>1, <2>6, <2>7 DEF RunClose
  <2>8. CASE OnError \/ Refuse \/ WriteFail
    BY <2>1, <2>8 DEF OnError, Refuse, WriteFail
  <2>9. CASE OnReadable
    BY <2>1, <2>6, <2>9 DEF OnReadable
  <2>10. CASE Register \/ Close \/ \E f \in Frames : Send(f)
    BY <2>6, <2>10 DEF Register, Close, Send
  <2>11. CASE Poll \/ OnWritable \/ Deliver \/ NeedMore
    BY <2>6, <2>11 DEF Poll, OnWritable, Deliver, NeedMore
  <2>12. CASE PeerStep \/ PeerReads \/ UNCHANGED vars
    BY <2>6, <2>12 DEF PeerStep, PeerReads, vars
  <2>13. QED
    BY <2>2, <2>3, <2>4, <2>5, <2>7, <2>8, <2>9, <2>10, <2>11, <2>12 DEF Next, Loop, Handling
<1>3. ArmInv => (~OffLoop => OutInterest)
  BY DEF ArmInv, Armed, OutInterest, LoopFree
<1>4. QED
  BY <1>1, <1>2, <1>3, SessionShape, PTL DEF Spec
-----------------------------------------------------------------------------
(* Closing.  Where start() runs on the loop's thread, nothing closes the   *)
(* session between loop_.add() and registered_ = true.                     *)

HandlerInv == ~OffLoop => /\ phase = "added" => open
                          /\ ~open => ~handler

\* A session started on its loop's thread is cleaned up once and wholly: the loop
\* keeps neither its descriptor nor its handler, its queue is empty, and its close
\* handler has been called once.
THEOREM CleanupIsWhole == Spec => [](~OffLoop => ClosedOnce)
<1>1. Init => HandlerInv
  BY DEF Init, HandlerInv
<1>2. TypeOK /\ LifeInv /\ HandlerInv /\ [Next]_vars => HandlerInv'
  <2> SUFFICES ASSUME TypeOK, LifeInv, HandlerInv, [Next]_vars, ~OffLoop PROVE HandlerInv'
    BY DEF HandlerInv
  <2> USE DEF HandlerInv, endVars, loopVars, LoopFree
  <2>1. ASSUME NEW code \in {"not_connected", "error"}, Shut(code), open,
               phase \in {"started", "unwatched"}, UNCHANGED phase
        PROVE  HandlerInv'
    <3>1. registered \/ ~handler
      BY <2>1 DEF LifeInv
    <3>2. ~handler'
      BY <2>1, <3>1 DEF Shut, CloseWith
    <3>3. QED
      BY <2>1, <3>2
  <2>2. LoopFree /\ tasks # <<>> => phase \in {"started", "unwatched"}
    BY DEF LifeInv, TypeOK
  <2>3. reported # {} \/ activity # "none" => open /\ phase \in {"started", "unwatched"}
    BY DEF LifeInv, TypeOK
  <2>4. CASE Add \/ AddFails \/ Register
    BY <2>4 DEF Add, AddFails, Register, LifeInv
  <2>5. CASE UNCHANGED <<phase, open, handler>>
    BY <2>5
  <2>6. CASE RunSend \/ Poll
    BY <2>2, <2>5, <2>6 DEF RunSend, Poll
  <2>7. CASE RunClose
    BY <2>1, <2>2, <2>5, <2>7 DEF RunClose
  <2>8. CASE OnError \/ Refuse \/ WriteFail
    BY <2>1, <2>3, <2>8 DEF OnError, Refuse, WriteFail
  <2>9. CASE OnReadable
    BY <2>1, <2>3, <2>5, <2>9 DEF OnReadable
  <2>10. CASE OnWritable \/ Deliver \/ NeedMore
    BY <2>3, <2>5, <2>10 DEF OnWritable, Deliver, NeedMore
  <2>11. CASE WriteSome \/ WriteStop
    BY <2>3, <2>5, <2>11 DEF WriteSome, WriteStop
  <2>12. CASE Close \/ \E f \in Frames : Send(f)
    BY <2>5, <2>12 DEF Close, Send
  <2>13. CASE Destroy
    BY <2>13 DEF Destroy
  <2>14. CASE PeerStep \/ PeerReads \/ UNCHANGED vars
    BY <2>5, <2>14 DEF PeerStep, PeerReads, vars
  <2>15. QED
    BY <2>4, <2>6, <2>7, <2>8, <2>9, <2>10, <2>11, <2>12, <2>13, <2>14 DEF Next, Loop, Handling
<1>3. LifeInv /\ HandlerInv => (~OffLoop => ClosedOnce)
  BY DEF LifeInv, HandlerInv, ClosedOnce
<1>4. QED
  BY <1>1, <1>2, <1>3, SessionShape, PTL DEF Spec
-----------------------------------------------------------------------------
(* Results.  A posted frame is in the loop's queue, in write_queue_ or     *)
(* behind both, and in one place of one of them.                           *)

Distinct(s) == \A i, j \in 1..Len(s) : s[i] = s[j] => i = j
FramesOf(q) == [i \in 1..Len(q) |-> q[i].frame]

\* Appending an element puts it among the elements.
LEMMA AppendElements ==
  ASSUME NEW S, NEW s \in Seq(S), NEW x \in S
  PROVE  /\ Elements(Append(s, x)) = Elements(s) \cup {x}
         /\ Distinct(s) /\ x \notin Elements(s) => Distinct(Append(s, x))
<1>1. /\ Len(Append(s, x)) = Len(s) + 1 /\ Len(s) \in Nat
      /\ Append(s, x)[Len(s) + 1] = x
      /\ \A i \in 1..Len(s) : Append(s, x)[i] = s[i]
  BY AppendProperties, LenProperties
<1>2. 1..(Len(s) + 1) = (1..Len(s)) \cup {Len(s) + 1}
  BY <1>1
<1>3. Elements(Append(s, x)) = Elements(s) \cup {x}
  BY <1>1, <1>2 DEF Elements
<1>4. ASSUME Distinct(s), x \notin Elements(s) PROVE Distinct(Append(s, x))
  BY <1>1, <1>2, <1>4 DEF Elements, Distinct
<1>5. QED
  BY <1>3, <1>4

\* Dropping the head of a sequence of distinct elements drops it from the elements.
LEMMA TailElements ==
  ASSUME NEW S, NEW s \in Seq(S), s # <<>>, Distinct(s)
  PROVE  Elements(Tail(s)) = Elements(s) \ {Head(s)} /\ Distinct(Tail(s))
<1>1. /\ Len(Tail(s)) = Len(s) - 1 /\ Len(s) \in Nat \ {0}
      /\ \A i \in 1..Len(Tail(s)) : Tail(s)[i] = s[i + 1]
      /\ Head(s) = s[1]
  BY HeadTailProperties, LenProperties, EmptySeq
<1>2. \A i \in 1..Len(Tail(s)) : i + 1 \in 1..Len(s) /\ i + 1 # 1
  BY <1>1
<1>3. \A j \in 1..Len(s) : j # 1 => j - 1 \in 1..Len(Tail(s)) /\ Tail(s)[j - 1] = s[j]
  BY <1>1
<1>4. Distinct(Tail(s))
  BY <1>1, <1>2 DEF Distinct
<1>5. Elements(Tail(s)) \subseteq Elements(s) \ {Head(s)}
  BY <1>1, <1>2 DEF Distinct, Elements
<1>6. ASSUME NEW e \in Elements(s), e # Head(s) PROVE e \in Elements(Tail(s))
  <2>1. PICK j \in 1..Len(s) : e = s[j]
    BY DEF Elements
  <2>2. j - 1 \in 1..Len(Tail(s)) /\ Tail(s)[j - 1] = e
    BY <1>1, <1>3, <1>6, <2>1
  <2>3. QED
    BY <2>2 DEF Elements
<1>7. QED
  BY <1>4, <1>5, <1>6

\* The frames of write_queue_ follow its pushes and pops.
LEMMA FramesOfQueue ==
  ASSUME NEW q \in Seq(OutgoingFrame)
  PROVE  /\ FramesOf(q) \in Seq(Frames) /\ Len(FramesOf(q)) = Len(q)
         /\ Elements(FramesOf(q)) = {q[i].frame : i \in 1..Len(q)}
         /\ \A x \in OutgoingFrame : FramesOf(Append(q, x)) = Append(FramesOf(q), x.frame)
         /\ q # <<>> => /\ FramesOf(Tail(q)) = Tail(FramesOf(q))
                        /\ FramesOf(q) # <<>> /\ Head(FramesOf(q)) = q[1].frame
<1>0. \A r \in Seq(OutgoingFrame) : \A i \in 1..Len(r) : r[i].frame \in Frames
  <2>1. \A r \in Seq(OutgoingFrame) : \A i \in 1..Len(r) : r[i] \in OutgoingFrame
    BY ElementOfSeq
  <2>2. QED
    BY <2>1 DEF OutgoingFrame
<1>1. Len(q) \in Nat /\ \A i \in 1..Len(q) : q[i].frame \in Frames
  BY <1>0, LenProperties
<1>2. FramesOf(q) \in Seq(Frames) /\ Len(FramesOf(q)) = Len(q)
  BY <1>1, IsASeq DEF FramesOf
<1>3. ASSUME NEW x \in OutgoingFrame
      PROVE  FramesOf(Append(q, x)) = Append(FramesOf(q), x.frame)
  <2>1. x.frame \in Frames
    BY DEF OutgoingFrame
  <2>2. /\ Append(q, x) \in Seq(OutgoingFrame) /\ Len(Append(q, x)) = Len(q) + 1
        /\ Append(q, x)[Len(q) + 1] = x
        /\ \A i \in 1..Len(q) : Append(q, x)[i] = q[i]
    BY AppendProperties
  <2>3. /\ Append(FramesOf(q), x.frame) \in Seq(Frames)
        /\ Len(Append(FramesOf(q), x.frame)) = Len(q) + 1
        /\ Append(FramesOf(q), x.frame)[Len(q) + 1] = x.frame
        /\ \A i \in 1..Len(q) : Append(FramesOf(q), x.frame)[i] = FramesOf(q)[i]
    BY <1>2, <2>1, AppendProperties
  <2>4. /\ FramesOf(Append(q, x)) \in Seq(Frames) /\ Len(FramesOf(Append(q, x))) = Len(q) + 1
    <3>1. \A i \in 1..(Len(q) + 1) : Append(q, x)[i].frame \in Frames
      BY <1>0, <2>2
    <3>2. QED
      BY <1>1, <2>2, <3>1, IsASeq DEF FramesOf
  <2>5. \A i \in 1..(Len(q) + 1) : FramesOf(Append(q, x))[i] = Append(FramesOf(q), x.frame)[i]
    <3>1. \A i \in 1..(Len(q) + 1) : FramesOf(Append(q, x))[i] = Append(q, x)[i].frame
      BY <2>2 DEF FramesOf
    <3>2. \A i \in 1..Len(q) : FramesOf(q)[i] = q[i].frame
      BY DEF FramesOf
    <3>3. QED
      BY <1>1, <2>2, <2>3, <3>1, <3>2
  <2>6. QED
    BY <2>3, <2>4, <2>5, SeqEqual
<1>4. ASSUME q # <<>>
      PROVE  /\ FramesOf(Tail(q)) = Tail(FramesOf(q))
             /\ FramesOf(q) # <<>> /\ Head(FramesOf(q)) = q[1].frame
  <2>1. Len(q) > 0 /\ FramesOf(q) # <<>>
    BY <1>1, <1>2, <1>4, EmptySeq, LenProperties
  <2>2. /\ Tail(q) \in Seq(OutgoingFrame) /\ Len(Tail(q)) = Len(q) - 1
        /\ \A i \in 1..Len(Tail(q)) : Tail(q)[i] = q[i + 1]
    BY <1>4, HeadTailProperties
  <2>3. /\ Tail(FramesOf(q)) \in Seq(Frames) /\ Len(Tail(FramesOf(q))) = Len(q) - 1
        /\ \A i \in 1..(Len(q) - 1) : Tail(FramesOf(q))[i] = FramesOf(q)[i + 1]
        /\ Head(FramesOf(q)) = FramesOf(q)[1]
    BY <1>2, <2>1, HeadTailProperties
  <2>4. FramesOf(Tail(q)) \in Seq(Frames) /\ Len(FramesOf(Tail(q))) = Len(q) - 1
    <3>1. \A i \in 1..Len(Tail(q)) : Tail(q)[i].frame \in Frames
      BY <1>0, <2>2
    <3>2. QED
      BY <1>1, <2>1, <2>2, <3>1, IsASeq DEF FramesOf
  <2>5. \A i \in 1..(Len(q) - 1) : FramesOf(Tail(q))[i] = Tail(FramesOf(q))[i]
    <3>1. \A i \in 1..(Len(q) - 1) : FramesOf(Tail(q))[i] = q[i + 1].frame
      BY <2>2 DEF FramesOf
    <3>2. \A i \in 1..(Len(q) - 1) : FramesOf(q)[i + 1] = q[i + 1].frame
      BY <1>1 DEF FramesOf
    <3>3. QED
      BY <2>3, <3>1, <3>2
  <2>6. Head(FramesOf(q)) = q[1].frame
    BY <1>1, <2>1, <2>3 DEF FramesOf
  <2>7. QED
    BY <2>1, <2>3, <2>4, <2>5, <2>6, SeqEqual
<1>5. Elements(FramesOf(q)) = {q[i].frame : i \in 1..Len(q)}
  BY <1>2 DEF FramesOf, Elements
<1>6. QED
  BY <1>2, <1>3, <1>4, <1>5

\* Where the posted frames are, and that their WriteHandlers have been called when,
\* and only when, they have left both queues.
PlaceInv ==
  phase # "destroyed" =>
    /\ Distinct(tasks) /\ Distinct(FramesOf(wq))
    /\ Elements(tasks) \cap Queued = {}
    /\ Elements(tasks) \ {CloseTask} \subseteq Elements(sent)
    /\ Queued \subseteq Elements(sent)
    /\ Elements(sent) \cap Oversized = {}
    /\ OneResult

LEMMA PlaceHolds == Spec => [](TypeOK /\ LifeInv /\ WithinFrame /\ PlaceInv)
<1>1. Init => PlaceInv
  <2> SUFFICES ASSUME Init PROVE PlaceInv
    OBVIOUS
  <2>1. Len(FramesOf(wq)) = 0 /\ Len(wq) = 0 /\ Len(tasks) = 0 /\ Len(sent) = 0
    BY FramesOfQueue, EmptySeq, LenProperties DEF Init
  <2>2. Elements(tasks) = {} /\ Elements(sent) = {} /\ Queued = {}
    BY <2>1 DEF Elements, Queued
  <2>3. \A f \in Frames : Len(results[f]) = 0
    BY EmptySeq, LenProperties DEF Init
  <2>4. QED
    BY <2>1, <2>2, <2>3 DEF PlaceInv, Distinct, OneResult
<1>2. TypeOK /\ TypeOK' /\ LifeInv /\ PlaceInv /\ [Next]_vars => PlaceInv'
  <2> SUFFICES ASSUME TypeOK, TypeOK', PlaceInv, [Next]_vars, phase' # "destroyed" PROVE PlaceInv'
    BY DEF PlaceInv
  <2>1. phase # "destroyed"
    BY DEF Next, Loop, Handling, Add, AddFails, Register, Send, Close, RunSend, RunClose, Poll, OnError,
           OnReadable, OnWritable, Deliver, Refuse, NeedMore, WriteSome, WriteStop, WriteFail,
           Destroy, PeerStep, PeerReads, vars
  <2>2. /\ tasks \in Seq(Frames \cup {CloseTask}) /\ sent \in Seq(Frames)
        /\ wq \in Seq(OutgoingFrame) /\ wq' \in Seq(OutgoingFrame)
        /\ results \in [Frames -> Seq(Codes)]
    BY DEF TypeOK
  <2>3. /\ Queued = Elements(FramesOf(wq)) /\ Queued' = Elements(FramesOf(wq'))
        /\ FramesOf(wq) \in Seq(Frames)
    BY <2>2, FramesOfQueue DEF Queued
  <2>4. /\ Distinct(tasks) /\ Distinct(FramesOf(wq))
        /\ Elements(tasks) \cap Queued = {}
        /\ Elements(tasks) \ {CloseTask} \subseteq Elements(sent)
        /\ Queued \subseteq Elements(sent)
        /\ Elements(sent) \cap Oversized = {}
        /\ \A f \in Frames \ Oversized :
             Len(results[f]) =
               IF f \in Elements(sent) \ (Elements(tasks) \cup Queued) THEN 1 ELSE 0
    BY <2>1 DEF PlaceInv, OneResult
  <2>5. \A f \in Frames, code \in Codes : Len(Append(results[f], code)) = Len(results[f]) + 1
    BY <2>2, AppendProperties
  <2>6. CloseTask \notin Frames
    BY FramesAssumption
  <2>7. ASSUME UNCHANGED <<tasks, sent, wq, results>> PROVE PlaceInv'
    BY <2>1, <2>7 DEF PlaceInv, OneResult, Queued
  <2>8. ASSUME NEW code \in {"not_connected", "error"}, Shut(code), UNCHANGED sent, Distinct(tasks'),
               Elements(tasks') \cup {CloseTask} = Elements(tasks) \cup {CloseTask}
        PROVE  PlaceInv'
    <3>1. /\ wq' = <<>>
          /\ \A f \in Frames : results'[f] = IF f \in Queued THEN Append(results[f], code) ELSE results[f]
      BY <2>8 DEF Shut, CloseWith, Answered
    <3>2. Len(wq') = 0 /\ Len(FramesOf(wq')) = 0
      BY <2>2, <3>1, FramesOfQueue, EmptySeq, LenProperties
    <3>3. Queued' = {} /\ Distinct(FramesOf(wq'))
      BY <3>2 DEF Queued, Distinct
    <3>4. \A f \in Frames : Len(results'[f]) = IF f \in Queued THEN Len(results[f]) + 1 ELSE Len(results[f])
      BY <2>5, <3>1 DEF Codes
    <3>5. OneResult'
      BY <2>4, <2>6, <2>8, <3>3, <3>4 DEF OneResult
    <3>6. QED
      BY <2>4, <2>6, <2>8, <3>3, <3>5 DEF PlaceInv
  <2>9. ASSUME NEW f \in Frames, Send(f) PROVE PlaceInv'
    <3>1. f \notin Elements(sent) /\ results[f] = <<>>
      BY <2>9 DEF Send
    <3>2. UNCHANGED wq /\ Queued' = Queued
      BY <2>3, <2>9 DEF Send, endVars
    <3>3. CASE f \in Oversized
      <4>1. /\ UNCHANGED <<tasks, sent>>
            /\ \A g \in Frames \ Oversized : results'[g] = results[g]
        BY <2>2, <2>9, <3>3 DEF Send
      <4>2. QED
        BY <2>4, <3>2, <4>1 DEF PlaceInv, OneResult
    <3>4. CASE f \notin Oversized
      <4>1. tasks' = Append(tasks, f) /\ sent' = Append(sent, f) /\ UNCHANGED results
        BY <2>9, <3>4 DEF Send
      <4>2. f \notin Elements(tasks) /\ f \notin Queued
        BY <2>4, <2>6, <3>1
      <4>3. /\ Elements(tasks') = Elements(tasks) \cup {f} /\ Distinct(tasks')
            /\ Elements(sent') = Elements(sent) \cup {f}
        BY <2>2, <2>4, <4>1, <4>2, AppendElements
      <4>4. OneResult'
        BY <2>4, <3>1, <3>2, <3>4, <4>1, <4>2, <4>3 DEF OneResult
      <4>5. QED
        BY <2>4, <3>2, <3>4, <4>2, <4>3, <4>4 DEF PlaceInv
    <3>5. QED
      BY <3>3, <3>4
  <2>10. CASE Close
    <3>1. tasks' = Append(tasks, CloseTask) /\ CloseTask \notin Elements(tasks)
          /\ UNCHANGED <<sent, wq, results>>
      BY <2>10 DEF Close, endVars
    <3>2. Elements(tasks') = Elements(tasks) \cup {CloseTask} /\ Distinct(tasks')
      BY <2>2, <2>4, <3>1, AppendElements
    <3>3. Queued' = Queued
      BY <2>3, <3>1
    <3>4. OneResult'
      BY <2>4, <2>6, <3>1, <3>2, <3>3 DEF OneResult
    <3>5. CloseTask \notin Queued
      <4>1. \A i \in 1..Len(sent) : sent[i] \in Frames
        BY <2>2, ElementOfSeq
      <4>2. QED
        BY <2>4, <2>6, <4>1 DEF Elements
    <3>6. QED
      BY <2>4, <3>1, <3>2, <3>3, <3>4, <3>5 DEF PlaceInv
  <2>11. CASE RunSend
    <3> DEFINE h == Head(tasks)
    <3>1. tasks # <<>> /\ tasks' = Tail(tasks) /\ h # CloseTask /\ UNCHANGED sent
      BY <2>11 DEF RunSend
    <3>2. h \in Frames /\ h \in Elements(tasks)
      <4>1. h \in Frames \cup {CloseTask} /\ h = tasks[1] /\ Len(tasks) \in Nat \ {0}
        BY <2>2, <3>1, HeadTailProperties, LenProperties, EmptySeq
      <4>2. QED
        BY <3>1, <4>1 DEF Elements
    <3>3. Elements(tasks') = Elements(tasks) \ {h} /\ Distinct(tasks')
      BY <2>2, <2>4, <3>1, TailElements
    <3>4. h \notin Queued /\ h \in Elements(sent) \ Oversized
      BY <2>4, <3>1, <3>2
    <3>5. CASE ~open
      <4>1. UNCHANGED wq /\ results' = [results EXCEPT ![h] = Append(@, "not_connected")]
        BY <2>11, <3>5 DEF RunSend
      <4>2. Queued' = Queued
        BY <2>3, <4>1
      <4>3. \A f \in Frames : Len(results'[f]) = IF f = h THEN Len(results[f]) + 1 ELSE Len(results[f])
        BY <2>2, <2>5, <3>2, <4>1 DEF Codes
      <4>4. OneResult'
        BY <2>4, <3>1, <3>2, <3>3, <3>4, <4>2, <4>3 DEF OneResult
      <4>5. QED
        BY <2>4, <3>1, <3>3, <4>1, <4>2, <4>4 DEF PlaceInv
    <3>6. CASE open
      <4> DEFINE x == [frame |-> h, written |-> 0]
      <4>1. wq' = Append(wq, x) /\ UNCHANGED results /\ x \in OutgoingFrame /\ x.frame = h
        BY <2>11, <3>2, <3>6 DEF RunSend, OutgoingFrame
      <4>2. FramesOf(wq') = Append(FramesOf(wq), h)
        BY <2>2, <4>1, FramesOfQueue
      <4>3. Queued' = Queued \cup {h} /\ Distinct(FramesOf(wq'))
        BY <2>3, <2>4, <3>2, <3>4, <4>2, AppendElements
      <4>4. OneResult'
        BY <2>4, <3>1, <3>2, <3>3, <4>1, <4>3 DEF OneResult
      <4>5. QED
        BY <2>4, <3>1, <3>3, <3>4, <4>3, <4>4 DEF PlaceInv
    <3>7. QED
      BY <3>5, <3>6
  <2>12. CASE RunClose
    <3>1. tasks # <<>> /\ tasks' = Tail(tasks) /\ Head(tasks) = CloseTask /\ UNCHANGED sent
      BY <2>12 DEF RunClose
    <3>2. Elements(tasks') = Elements(tasks) \ {CloseTask} /\ Distinct(tasks')
      BY <2>2, <2>4, <3>1, TailElements
    <3>3. CASE open
      BY <2>8, <2>12, <3>1, <3>2, <3>3 DEF RunClose
    <3>4. CASE ~open
      <4>1. UNCHANGED <<wq, results>> /\ Queued' = Queued
        BY <2>3, <2>12, <3>4 DEF RunClose, endVars
      <4>2. OneResult'
        BY <2>4, <2>6, <3>1, <3>2, <4>1 DEF OneResult
      <4>3. QED
        BY <2>4, <3>1, <3>2, <4>1, <4>2 DEF PlaceInv
    <3>5. QED
      BY <3>3, <3>4
  <2>13. CASE OnError \/ OnReadable \/ Refuse \/ WriteFail
    BY <2>4, <2>7, <2>8, <2>13 DEF OnError, OnReadable, Refuse, WriteFail, endVars
  <2>14. CASE WriteSome
    <3> DEFINE f == wq[1].frame
    <3>1. wq # <<>> /\ UNCHANGED <<tasks, sent>>
      BY <2>14 DEF WriteSome
    <3>2. f \in Frames /\ f \in Queued /\ f = Head(FramesOf(wq)) /\ FramesOf(wq) # <<>>
      <4>1. f = Head(FramesOf(wq)) /\ FramesOf(wq) # <<>>
        BY <2>2, <3>1, FramesOfQueue
      <4>2. 1 \in 1..Len(wq)
        BY <2>2, <3>1, EmptySeq, LenProperties
      <4>3. QED
        BY <2>3, <4>1, <4>2 DEF Queued
    <3>3. CASE wq[1].written + Taken = Size[f]
      <4>1. wq' = Tail(wq) /\ results' = [results EXCEPT ![f] = Append(@, "ok")]
        BY <2>14, <3>3 DEF WriteSome
      <4>2. FramesOf(wq') = Tail(FramesOf(wq))
        BY <2>2, <3>1, <4>1, FramesOfQueue
      <4>3. Queued' = Queued \ {f} /\ Distinct(FramesOf(wq'))
        BY <2>3, <2>4, <3>2, <4>2, TailElements
      <4>4. \A g \in Frames : Len(results'[g]) = IF g = f THEN Len(results[g]) + 1 ELSE Len(results[g])
        BY <2>2, <2>5, <3>2, <4>1 DEF Codes
      <4>5. OneResult'
        BY <2>4, <3>1, <3>2, <4>3, <4>4 DEF OneResult
      <4>6. QED
        BY <2>4, <3>1, <4>3, <4>5 DEF PlaceInv
    <3>4. CASE wq[1].written + Taken # Size[f]
      <4>1. wq' = [wq EXCEPT ![1].written = @ + Taken] /\ UNCHANGED results
        BY <2>14, <3>4 DEF WriteSome
      <4>2. Len(wq') = Len(wq) /\ \A i \in 1..Len(wq) : wq'[i].frame = wq[i].frame
        BY <2>2, <4>1, ElementOfSeq DEF OutgoingFrame
      <4>3. FramesOf(wq') = FramesOf(wq) /\ Queued' = Queued
        BY <4>2 DEF FramesOf, Queued
      <4>4. OneResult'
        BY <2>4, <3>1, <4>1, <4>3 DEF OneResult
      <4>5. QED
        BY <2>4, <3>1, <4>3, <4>4 DEF PlaceInv
    <3>5. QED
      BY <3>3, <3>4
  <2>15. CASE Add \/ AddFails \/ Register \/ Poll \/ OnWritable \/ Deliver \/ NeedMore \/ WriteStop
    BY <2>7, <2>15 DEF Add, AddFails, Register, Poll, OnWritable, Deliver, NeedMore, WriteStop, endVars
  <2>16. CASE PeerStep \/ PeerReads \/ UNCHANGED vars
    BY <2>7, <2>16 DEF PeerStep, PeerReads, vars, endVars
  <2>17. ~Destroy
    BY DEF Destroy
  <2>18. QED
    BY <2>9, <2>10, <2>11, <2>12, <2>13, <2>14, <2>15, <2>16, <2>17 DEF Next, Loop, Handling
<1>3. QED
  BY <1>1, <1>2, SessionShape, PTL DEF Spec

\* The WriteHandler of every posted frame is called exactly once, by whichever of the
\* four paths disposes of the frame.
THEOREM EveryFrameHasOneResult == Spec => []OneResult
<1>1. PlaceInv => OneResult
  BY DEF PlaceInv, OneResult
<1>2. QED
  BY <1>1, PlaceHolds, PTL
=============================================================================
