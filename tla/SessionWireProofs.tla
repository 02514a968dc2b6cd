------------------------- MODULE SessionWireProofs --------------------------
(***************************************************************************)
(* What Session makes of the two byte streams, for every set of frames,    *)
(* every frame size and every stream of the peer: no inbound frame is left *)
(* behind between callbacks, the socket gets the outgoing frames whole and *)
(* in the order of send(), and success is reported for exactly these.      *)
(***************************************************************************)
EXTENDS SessionProofs

(* The inbound stream.                                                     *)

\* Outside the parsing loop of async_read(), read_buffer_ holds neither a complete
\* frame nor a header to refuse.
FrameInv == open /\ activity # "parsing" => ~Complete /\ ~TooLarge

\* async_read() delivers every complete frame before it returns, in whatever pieces
\* the stream came.
THEOREM EveryFrameIsPopped == Spec => []NoFrameLeft
<1>1. Init => FrameInv
  BY DEF Init, FrameInv, Complete, TooLarge
<1>2. FrameInv /\ [Next]_vars => FrameInv'
  <2> SUFFICES ASSUME FrameInv, [Next]_vars PROVE FrameInv'
    OBVIOUS
  <2> USE DEF FrameInv, endVars, streamVars, netVars
  <2>1. ASSUME NEW code, Shut(code) PROVE FrameInv'
    BY <2>1 DEF Shut, CloseWith
  <2>2. ASSUME UNCHANGED <<open, buffered, popped, inbound>>,
               activity = "parsing" => activity' = "parsing"
        PROVE  FrameInv'
    BY <2>2 DEF Complete, TooLarge
  <2>3. CASE NeedMore
    BY <2>3 DEF NeedMore, Complete, TooLarge
  <2>4. CASE OnReadable
    BY <2>1, <2>4 DEF OnReadable
  <2>5. CASE Deliver
    BY <2>5 DEF Deliver
  <2>6. CASE OnError \/ Refuse \/ WriteFail
    BY <2>1, <2>6 DEF OnError, Refuse, WriteFail
  <2>7. CASE RunClose
    BY <2>1, <2>2, <2>7 DEF RunClose
  <2>8. CASE RunSend \/ WriteSome \/ WriteStop
    BY <2>2, <2>8 DEF RunSend, WriteSome, WriteStop, LoopFree
  <2>9. CASE Poll \/ OnWritable
    BY <2>2, <2>9 DEF Poll, OnWritable
  <2>10. CASE Add \/ AddFails \/ Register \/ Close \/ Destroy \/ \E f \in Frames : Send(f)
    BY <2>2, <2>10 DEF Add, AddFails, Register, Close, Destroy, Send
  <2>11. CASE PeerStep \/ PeerReads \/ UNCHANGED vars
    BY <2>2, <2>11 DEF PeerStep, PeerReads, vars
  <2>12. QED
    BY <2>3, <2>4, <2>5, <2>6, <2>7, <2>8, <2>9, <2>10, <2>11 DEF Next, Loop, Handling
<1>3. FrameInv => NoFrameLeft
  BY DEF FrameInv, NoFrameLeft, LoopFree
<1>4. QED
  BY <1>1, <1>2, <1>3, PTL DEF Spec
-----------------------------------------------------------------------------
(* The outgoing stream.  While the session is open, m frames have been      *)
(* written whole, and write_queue_ and then the loop's queue hold the next  *)
(* ones, in the order of send(), as far as the closure of a close().        *)

NoCloseIn(i) == \A j \in 1..i : tasks[j] # CloseTask

InOrder(m) ==
  /\ \A i \in 1..Len(wq) : m + i <= Len(sent) /\ wq[i].frame = sent[m + i]
  /\ \A i \in 2..Len(wq) : wq[i].written = 0
  /\ \A i \in 1..Len(tasks) : NoCloseIn(i) =>
       m + Len(wq) + i <= Len(sent) /\ tasks[i] = sent[m + Len(wq) + i]
  /\ NoCloseIn(Len(tasks)) => m + Len(wq) + Len(tasks) = Len(sent)

\* The last unit the socket took: of the frame being written, or the end of frame m.
Begun == wq # <<>> /\ wq[1].written > 0
WrittenTo(m) ==
  /\ Begun => wire # <<>> /\ wire[Len(wire)] = <<wq[1].frame, wq[1].written>>
  /\ ~Begun /\ m = 0 => wire = <<>>
  /\ ~Begun /\ m > 0 => wire # <<>> /\ wire[Len(wire)] = <<sent[m], Size[sent[m]]>>

OrderInv ==
  /\ wire # <<>> => sent # <<>>
  /\ open /\ phase # "destroyed" => \E m \in 0..Len(sent) : InOrder(m) /\ WrittenTo(m)

LEMMA OrderOfSend ==
  ASSUME TypeOK, OrderInv, NEW f \in Frames, Send(f)
  PROVE  OrderInv'
<1>0. tasks \in Seq(Frames \cup {CloseTask}) /\ sent \in Seq(Frames) /\ CloseTask \notin Frames
  BY FramesAssumption DEF TypeOK
<1>1. UNCHANGED <<phase, open, wq, wire>>
  BY DEF Send, endVars, outVars
<1>2. CASE UNCHANGED <<tasks, sent>>
  BY <1>1, <1>2 DEF OrderInv, InOrder, NoCloseIn, WrittenTo, Begun
<1>3. CASE tasks' = Append(tasks, f) /\ sent' = Append(sent, f)
  <2>1. /\ Len(tasks') = Len(tasks) + 1 /\ Len(tasks) \in Nat /\ tasks'[Len(tasks) + 1] = f
        /\ \A i \in 1..Len(tasks) : tasks'[i] = tasks[i]
    BY <1>0, <1>3, AppendProperties, LenProperties
  <2>2. /\ Len(sent') = Len(sent) + 1 /\ Len(sent) \in Nat /\ sent'[Len(sent) + 1] = f
        /\ \A i \in 1..Len(sent) : sent'[i] = sent[i]
    BY <1>0, <1>3, AppendProperties, LenProperties
  <2>3. sent' # <<>>
    BY <2>2
  <2> SUFFICES ASSUME open, phase # "destroyed"
               PROVE  \E m \in 0..Len(sent') : InOrder(m)' /\ WrittenTo(m)'
    BY <1>1, <2>3 DEF OrderInv
  <2>4. PICK m \in 0..Len(sent) : InOrder(m) /\ WrittenTo(m)
    BY DEF OrderInv
  <2>5. \A i \in 1..Len(tasks) : NoCloseIn(i)' <=> NoCloseIn(i)
    BY <2>1 DEF NoCloseIn
  <2>6. NoCloseIn(Len(tasks))' => NoCloseIn(Len(tasks))
    BY <2>1 DEF NoCloseIn
  <2>7. WrittenTo(m)'
    BY <1>1, <2>2, <2>4 DEF WrittenTo, Begun
  <2>8. Len(wq) \in Nat
    BY LenProperties DEF TypeOK
  <2>9. InOrder(m)'
    <3>1. \A i \in 1..Len(wq) : m + i <= Len(sent') /\ wq[i].frame = sent'[m + i]
      BY <2>2, <2>4, <2>8 DEF InOrder
    <3>2. ASSUME NEW i \in 1..Len(tasks'), NoCloseIn(i)'
          PROVE  m + Len(wq) + i <= Len(sent') /\ tasks'[i] = sent'[m + Len(wq) + i]
      <4>1. CASE i \in 1..Len(tasks)
        BY <2>1, <2>2, <2>4, <2>5, <2>8, <3>2, <4>1 DEF InOrder
      <4>2. CASE i = Len(tasks) + 1
        <5>1. m + Len(wq) + Len(tasks) = Len(sent)
          <6>1. \A j \in 1..Len(tasks) : tasks[j] # CloseTask
            BY <2>1, <3>2, <4>2 DEF NoCloseIn
          <6> QED
            BY <2>4, <6>1 DEF InOrder, NoCloseIn
        <5>2. m + Len(wq) + i = Len(sent) + 1
          BY <2>1, <2>2, <2>8, <4>2, <5>1
        <5> QED
          BY <2>1, <2>2, <4>2, <5>2
      <4> QED
        BY <2>1, <4>1, <4>2
    <3>3. NoCloseIn(Len(tasks))' => m + Len(wq) + Len(tasks') = Len(sent')
      <4>1. SUFFICES ASSUME NoCloseIn(Len(tasks))' PROVE m + Len(wq) + Len(tasks') = Len(sent')
        OBVIOUS
      <4>2. m + Len(wq) + Len(tasks) = Len(sent)
        BY <2>4, <2>6, <4>1 DEF InOrder
      <4> QED
        BY <2>1, <2>2, <2>8, <4>2
    <3> QED
      BY <1>1, <2>4, <3>1, <3>2, <3>3 DEF InOrder
  <2> QED
    BY <2>2, <2>7, <2>9
<1> QED
  BY <1>2, <1>3 DEF Send

LEMMA OrderOfClose ==
  ASSUME TypeOK, OrderInv, Close
  PROVE  OrderInv'
<1>0. tasks \in Seq(Frames \cup {CloseTask})
  BY DEF TypeOK
<1>1. UNCHANGED <<phase, open, wq, wire, sent>> /\ tasks' = Append(tasks, CloseTask)
  BY DEF Close, endVars, outVars
<1>2. /\ Len(tasks') = Len(tasks) + 1 /\ Len(tasks) \in Nat /\ tasks'[Len(tasks) + 1] = CloseTask
      /\ \A i \in 1..Len(tasks) : tasks'[i] = tasks[i]
  BY <1>0, <1>1, AppendProperties, LenProperties
<1> SUFFICES ASSUME open, phase # "destroyed"
             PROVE  \E m \in 0..Len(sent) : InOrder(m)' /\ WrittenTo(m)'
  BY <1>1 DEF OrderInv
<1>3. PICK m \in 0..Len(sent) : InOrder(m) /\ WrittenTo(m)
  BY DEF OrderInv
<1>4. WrittenTo(m)'
  BY <1>1, <1>3 DEF WrittenTo, Begun
<1>5. /\ \A i \in 1..Len(tasks) : NoCloseIn(i)' <=> NoCloseIn(i)
      /\ \A i \in 1..Len(tasks') : NoCloseIn(i)' => i \in 1..Len(tasks)
  BY <1>2 DEF NoCloseIn
<1>6. ~NoCloseIn(Len(tasks))'
  BY <1>2 DEF NoCloseIn
<1>7. InOrder(m)'
  BY <1>1, <1>2, <1>3, <1>5, <1>6 DEF InOrder
<1> QED
  BY <1>4, <1>7

\* The first closure is taken out of the loop's queue.
LEMMA TakenInOrder ==
  ASSUME TypeOK, tasks # <<>>, tasks' = Tail(tasks)
  PROVE  /\ Len(tasks) \in Nat \ {0} /\ Len(tasks') = Len(tasks) - 1 /\ Head(tasks) = tasks[1]
         /\ \A i \in 1..Len(tasks') : tasks'[i] = tasks[i + 1] /\ i + 1 \in 1..Len(tasks)
         /\ Head(tasks) # CloseTask => \A i \in 0..Len(tasks') : NoCloseIn(i)' => NoCloseIn(i + 1)
<1>1. tasks \in Seq(Frames \cup {CloseTask})
  BY DEF TypeOK
<1>2. /\ Len(tasks) \in Nat \ {0} /\ Len(tasks') = Len(tasks) - 1 /\ Head(tasks) = tasks[1]
      /\ \A i \in 1..Len(tasks') : tasks'[i] = tasks[i + 1]
  BY <1>1, HeadTailProperties, LenProperties, EmptySeq
<1>3. \A i \in 1..Len(tasks') : i + 1 \in 1..Len(tasks)
  BY <1>2
<1>4. ASSUME Head(tasks) # CloseTask, NEW i \in 0..Len(tasks'), NoCloseIn(i)'
      PROVE  NoCloseIn(i + 1)
  <2> SUFFICES ASSUME NEW j \in 1..(i + 1) PROVE tasks[j] # CloseTask
    BY DEF NoCloseIn
  <2>1. CASE j = 1
    BY <1>2, <1>4, <2>1
  <2>2. CASE j # 1
    <3>1. j - 1 \in 1..i /\ j - 1 \in 1..Len(tasks')
      BY <1>2, <2>2
    <3>2. tasks'[j - 1] = tasks[j]
      BY <1>2, <3>1
    <3> QED
      BY <1>4, <3>1, <3>2 DEF NoCloseIn
  <2> QED
    BY <2>1, <2>2
<1> QED
  BY <1>2, <1>3, <1>4

LEMMA OrderOfRunSend ==
  ASSUME TypeOK, OrderInv, RunSend
  PROVE  OrderInv'
<1>0. /\ wq \in Seq(OutgoingFrame) /\ tasks # <<>> /\ tasks' = Tail(tasks)
      /\ Head(tasks) # CloseTask /\ UNCHANGED <<phase, open, wire, sent>>
  BY DEF RunSend, TypeOK, outVars
<1>1. /\ Len(tasks) \in Nat \ {0} /\ Len(tasks') = Len(tasks) - 1 /\ Head(tasks) = tasks[1]
      /\ \A i \in 1..Len(tasks') : tasks'[i] = tasks[i + 1] /\ i + 1 \in 1..Len(tasks)
      /\ \A i \in 0..Len(tasks') : NoCloseIn(i)' => NoCloseIn(i + 1)
  BY <1>0, TakenInOrder
<1> SUFFICES ASSUME open, phase # "destroyed"
             PROVE  \E m \in 0..Len(sent) : InOrder(m)' /\ WrittenTo(m)'
  BY <1>0 DEF OrderInv
<1>2. PICK m \in 0..Len(sent) : InOrder(m) /\ WrittenTo(m)
  BY DEF OrderInv
<1>3. PICK new \in OutgoingFrame : /\ new.frame = tasks[1] /\ new.written = 0
                                   /\ wq' = Append(wq, new)
  <2>1. tasks[1] \in Frames
    BY <1>0, <1>1, ElementOfSeq DEF TypeOK
  <2>2. [frame |-> tasks[1], written |-> 0] \in OutgoingFrame
    BY <2>1 DEF OutgoingFrame
  <2> QED
    BY <1>1, <2>2 DEF RunSend
<1>4. /\ Len(wq') = Len(wq) + 1 /\ Len(wq) \in Nat /\ wq'[Len(wq) + 1] = new
      /\ \A i \in 1..Len(wq) : wq'[i] = wq[i]
  BY <1>0, <1>3, AppendProperties, LenProperties
<1>5. NoCloseIn(1) /\ 1 \in 1..Len(tasks)
  BY <1>0, <1>1 DEF NoCloseIn
<1>6. m + Len(wq) + 1 <= Len(sent) /\ tasks[1] = sent[m + Len(wq) + 1]
  BY <1>2, <1>5 DEF InOrder
<1>7. \A i \in 1..Len(wq') : m + i <= Len(sent) /\ wq'[i].frame = sent[m + i]
  <2> SUFFICES ASSUME NEW i \in 1..Len(wq') PROVE m + i <= Len(sent) /\ wq'[i].frame = sent[m + i]
    OBVIOUS
  <2>1. CASE i \in 1..Len(wq)
    BY <1>2, <1>4, <2>1 DEF InOrder
  <2>2. CASE i = Len(wq) + 1
    BY <1>3, <1>4, <1>6, <2>2
  <2> QED
    BY <1>4, <2>1, <2>2
<1>8. \A i \in 2..Len(wq') : wq'[i].written = 0
  BY <1>2, <1>3, <1>4 DEF InOrder
<1>9. ASSUME NEW i \in 1..Len(tasks'), NoCloseIn(i)'
      PROVE  m + Len(wq') + i <= Len(sent) /\ tasks'[i] = sent[m + Len(wq') + i]
  <2>1. /\ i + 1 \in 1..Len(tasks) /\ NoCloseIn(i + 1)
        /\ m + Len(wq') + i = m + Len(wq) + (i + 1)
    BY <1>1, <1>4, <1>9
  <2> QED
    BY <1>1, <1>2, <2>1 DEF InOrder
<1>10. NoCloseIn(Len(tasks))' => m + Len(wq') + Len(tasks') = Len(sent)
  <2>1. NoCloseIn(Len(tasks))' => NoCloseIn(Len(tasks))
    <3>1. PICK n \in Nat : n = Len(tasks')
      BY <1>1
    <3>2. NoCloseIn(n)' => NoCloseIn(n + 1)
      BY <1>1, <3>1
    <3>3. NoCloseIn(Len(tasks))' <=> NoCloseIn(n)'
      BY <3>1 DEF NoCloseIn
    <3> QED
      BY <1>1, <3>1, <3>2, <3>3
  <2>2. NoCloseIn(Len(tasks)) => m + Len(wq) + Len(tasks) = Len(sent)
    BY <1>2 DEF InOrder
  <2>3. m + Len(wq') + Len(tasks') = m + Len(wq) + Len(tasks)
    BY <1>1, <1>4
  <2> QED
    BY <2>1, <2>2, <2>3
<1>11. InOrder(m)'
  BY <1>0, <1>7, <1>8, <1>9, <1>10 DEF InOrder
<1>12. WrittenTo(m)'
  <2>1. Begun' <=> Begun
    <3>1. CASE Len(wq) = 0
      BY <1>0, <1>3, <1>4, <3>1, EmptySeq DEF Begun
    <3>2. CASE Len(wq) > 0
      <4>1. wq'[1] = wq[1] /\ wq' # <<>> /\ wq # <<>>
        BY <1>4, <3>2
      <4> QED
        BY <4>1 DEF Begun
    <3> QED
      BY <1>4, <3>1, <3>2
  <2>2. Begun => wq'[1] = wq[1]
    <3>1. Begun => Len(wq) # 0
      BY <1>0, EmptySeq DEF Begun
    <3> QED
      BY <1>4, <3>1
  <2> QED
    BY <1>0, <1>2, <2>1, <2>2 DEF WrittenTo
<1> QED
  BY <1>11, <1>12

\* What one ::send() takes: some units of the frame at the head of write_queue_.
LEMMA UnitsTaken ==
  ASSUME TypeOK, WithinFrame, WriteSome
  PROVE  /\ Len(wq) \in Nat \ {0} /\ wq[1].frame \in Frames /\ wq[1].written \in Nat
         /\ Size[wq[1].frame] \in Nat \ {0} /\ Taken \in Nat \ {0}
         /\ wq[1].written + Taken <= Size[wq[1].frame]
         /\ Units \in Seq(Frames \X Nat) /\ Len(Units) = Taken
         /\ \A i \in 1..Taken : Units[i] = <<wq[1].frame, wq[1].written + i>>
         /\ wire \in Seq(Frames \X Nat) /\ wire' = wire \o Units
<1>1. Len(wq) \in Nat \ {0} /\ wq[1] \in OutgoingFrame
  BY EmptySeq, LenProperties, ElementOfSeq DEF WriteSome, TypeOK
<1>2. PICK f \in Frames, n \in Nat : f = wq[1].frame /\ n = wq[1].written
  BY <1>1 DEF OutgoingFrame
<1>3. Size[f] \in Nat \ {0} /\ n < Size[f] /\ room \in Nat \ {0}
  <2>1. Size[f] \in Nat \ {0}
    BY SizeAssumption
  <2>2. n < Size[f]
    BY <1>1, <1>2 DEF WithinFrame
  <2>3. room \in 0..Buffer /\ room > 0
    BY DEF WriteSome, TypeOK
  <2> QED
    BY <2>1, <2>2, <2>3, BufferAssumption
<1>4. Taken \in Nat \ {0} /\ Taken <= Size[f] - n
  BY <1>2, <1>3 DEF Taken, Smaller
<1>5. Units = [i \in 1..Taken |-> <<f, n + i>>]
  BY <1>2 DEF Units
<1>6. Units \in Seq(Frames \X Nat) /\ Len(Units) = Taken
  <2>1. \A i \in 1..Taken : <<f, n + i>> \in Frames \X Nat
    BY <1>4
  <2> QED
    BY <1>4, <1>5, <2>1, IsASeq
<1>7. \A i \in 1..Taken : Units[i] = <<f, n + i>>
  BY <1>5
<1>8. wire \in Seq(Frames \X Nat) /\ wire' = wire \o Units
  BY DEF WriteSome, TypeOK
<1>9. n + Taken <= Size[f]
  BY <1>3, <1>4
<1>10. /\ wq[1].frame \in Frames /\ wq[1].written \in Nat
       /\ Size[wq[1].frame] \in Nat \ {0} /\ wq[1].written + Taken <= Size[wq[1].frame]
  BY <1>2, <1>3, <1>9
<1>11. \A i \in 1..Taken : Units[i] = <<wq[1].frame, wq[1].written + i>>
  BY <1>2, <1>7
<1>12. Len(wq) \in Nat \ {0} /\ Taken \in Nat \ {0}
  BY <1>1, <1>4
<1> QED
  BY <1>6, <1>8, <1>10, <1>11, <1>12

\* The wire after it: the old units, then the new ones, the last of which is where the
\* frame stops now.
LEMMA WireGrows ==
  ASSUME TypeOK, WithinFrame, WriteSome
  PROVE  /\ Len(wire) \in Nat /\ Len(wire') = Len(wire) + Taken
         /\ \A i \in 1..Len(wire) : wire'[i] = wire[i]
         /\ \A i \in 1..Taken : wire'[Len(wire) + i] = <<wq[1].frame, wq[1].written + i>>
         /\ wire'[Len(wire')] = <<wq[1].frame, wq[1].written + Taken>>
         /\ wire' # <<>>
<1>1. /\ Taken \in Nat \ {0} /\ Units \in Seq(Frames \X Nat) /\ Len(Units) = Taken
      /\ \A i \in 1..Taken : Units[i] = <<wq[1].frame, wq[1].written + i>>
      /\ wire \in Seq(Frames \X Nat) /\ wire' = wire \o Units
  BY UnitsTaken
<1>2. /\ Len(wire') = Len(wire) + Len(Units) /\ Len(wire) \in Nat
      /\ wire' \in Seq(Frames \X Nat)
      /\ \A i \in 1..(Len(wire) + Len(Units)) :
           wire'[i] = IF i <= Len(wire) THEN wire[i] ELSE Units[i - Len(wire)]
  BY <1>1, ConcatProperties, LenProperties
<1>3. \A i \in 1..Len(wire) : wire'[i] = wire[i]
  BY <1>1, <1>2
<1>4. \A i \in 1..Taken : wire'[Len(wire) + i] = Units[i]
  <2> SUFFICES ASSUME NEW i \in 1..Taken PROVE wire'[Len(wire) + i] = Units[i]
    OBVIOUS
  <2>1. /\ Len(wire) + i \in 1..(Len(wire) + Len(Units)) /\ ~(Len(wire) + i <= Len(wire))
        /\ Len(wire) + i - Len(wire) = i
    BY <1>1, <1>2
  <2> QED
    BY <1>2, <2>1
<1>5. wire'[Len(wire')] = <<wq[1].frame, wq[1].written + Taken>>
  BY <1>1, <1>2, <1>4
<1>6. wire' # <<>>
  BY <1>1, <1>2
<1> QED
  BY <1>1, <1>2, <1>3, <1>4, <1>5, <1>6

LEMMA OrderOfWriteSome ==
  ASSUME TypeOK, WithinFrame, OrderInv, WriteSome, phase # "destroyed"
  PROVE  OrderInv'
<1>0. /\ wq \in Seq(OutgoingFrame) /\ wq # <<>> /\ open
      /\ UNCHANGED <<phase, open, tasks, sent>>
  BY DEF WriteSome, TypeOK
<1>1. /\ Len(wq) \in Nat \ {0} /\ wq[1].written \in Nat /\ wq[1].frame \in Frames
      /\ Taken \in Nat \ {0} /\ wq[1].written + Taken <= Size[wq[1].frame]
      /\ Size[wq[1].frame] \in Nat
  BY UnitsTaken
<1>2. wire' # <<>> /\ wire'[Len(wire')] = <<wq[1].frame, wq[1].written + Taken>>
  BY WireGrows
<1>3. PICK m \in 0..Len(sent) : InOrder(m) /\ WrittenTo(m)
  BY <1>0 DEF OrderInv
<1>4. m + 1 <= Len(sent) /\ wq[1].frame = sent[m + 1] /\ Len(sent) \in Nat
  BY <1>1, <1>3, LenProperties DEF InOrder, TypeOK
<1>5. sent # <<>>
  BY <1>4
<1>6. CASE wq[1].written + Taken = Size[wq[1].frame]
  <2>1. wq' = Tail(wq)
    BY <1>6 DEF WriteSome
  <2>2. /\ Len(wq') = Len(wq) - 1 /\ \A i \in 1..Len(wq') : wq'[i] = wq[i + 1]
        /\ wq' \in Seq(OutgoingFrame)
    BY <1>0, <2>1, HeadTailProperties
  <2>3. \A i \in 1..Len(wq') : i + 1 \in 2..Len(wq)
    BY <1>1, <2>2
  <2>4. ~Begun'
    <3>1. CASE Len(wq') = 0
      BY <2>2, <3>1, EmptySeq DEF Begun
    <3>2. CASE Len(wq') # 0
      <4>1. 1 \in 1..Len(wq')
        BY <1>1, <2>2, <3>2
      <4>2. wq'[1].written = 0
        BY <1>3, <2>2, <2>3, <4>1 DEF InOrder
      <4> QED
        BY <4>2 DEF Begun
    <3> QED
      BY <3>1, <3>2
  <2>5. WrittenTo(m + 1)'
    BY <1>0, <1>2, <1>4, <1>6, <2>4 DEF WrittenTo
  <2>6. InOrder(m + 1)'
    <3>1. \A i \in 1..Len(wq') : (m + 1) + i <= Len(sent) /\ wq'[i].frame = sent[(m + 1) + i]
      <4> SUFFICES ASSUME NEW i \in 1..Len(wq')
                   PROVE  (m + 1) + i <= Len(sent) /\ wq'[i].frame = sent[(m + 1) + i]
        OBVIOUS
      <4>1. i + 1 \in 1..Len(wq) /\ m + (i + 1) = (m + 1) + i
        BY <2>3
      <4> QED
        BY <1>3, <2>2, <4>1 DEF InOrder
    <3>2. \A i \in 2..Len(wq') : wq'[i].written = 0
      BY <1>3, <2>2, <2>3 DEF InOrder
    <3>3. (m + 1) + Len(wq') = m + Len(wq)
      BY <1>1, <2>2
    <3> QED
      BY <1>0, <1>3, <3>1, <3>2, <3>3 DEF InOrder, NoCloseIn
  <2> QED
    BY <1>0, <1>4, <1>5, <2>5, <2>6 DEF OrderInv
<1>7. CASE wq[1].written + Taken # Size[wq[1].frame]
  <2>1. wq' = [wq EXCEPT ![1].written = @ + Taken]
    BY <1>7 DEF WriteSome
  <2>2. wq[1] \in OutgoingFrame
    BY <1>0, <1>1, ElementOfSeq
  <2>3. /\ Len(wq') = Len(wq) /\ \A i \in 1..Len(wq) : wq'[i].frame = wq[i].frame
        /\ wq'[1].written = wq[1].written + Taken
        /\ \A i \in 2..Len(wq) : wq'[i] = wq[i]
    BY <1>0, <1>1, <2>1, <2>2, ElementOfSeq DEF OutgoingFrame
  <2>4. Begun' /\ wq' # <<>>
    BY <1>1, <2>3 DEF Begun
  <2>5. WrittenTo(m)'
    <3>1. wq'[1].frame = wq[1].frame
      BY <1>1, <2>3
    <3> QED
      BY <1>2, <2>3, <2>4, <3>1 DEF WrittenTo
  <2>6. InOrder(m)'
    BY <1>0, <1>3, <2>3 DEF InOrder, NoCloseIn
  <2> QED
    BY <1>0, <1>5, <2>5, <2>6 DEF OrderInv
<1> QED
  BY <1>6, <1>7

LEMMA IntegrityOfWriteSome ==
  ASSUME TypeOK, WithinFrame, OrderInv, WireIntegrity, WriteSome, phase # "destroyed"
  PROVE  WireIntegrity'
<1>0. open /\ wq # <<>> /\ UNCHANGED sent
  BY DEF WriteSome, TypeOK
<1>1. PICK f \in Frames, n \in Nat, t \in Nat \ {0} :
        /\ f = wq[1].frame /\ n = wq[1].written /\ t = Taken /\ n + t <= Size[f]
        /\ Len(wq) \in Nat \ {0} /\ Size[f] \in Nat
  BY UnitsTaken
<1>2. PICK old \in Nat : /\ old = Len(wire) /\ Len(wire') = old + t
                         /\ \A i \in 1..old : wire'[i] = wire[i]
                         /\ \A i \in 1..t : wire'[old + i] = <<f, n + i>>
  BY <1>1, WireGrows
<1>3. PICK m \in 0..Len(sent) : InOrder(m) /\ WrittenTo(m)
  BY <1>0 DEF OrderInv
<1>4. m + 1 <= Len(sent) /\ f = sent[m + 1] /\ Len(sent) \in Nat
  BY <1>1, <1>3, LenProperties DEF InOrder, TypeOK
<1>5. wire'[old + 1] = <<f, n + 1>>
  BY <1>1, <1>2
<1>6. ~Begun <=> n = 0
  BY <1>0, <1>1 DEF Begun
<1>7. wire = <<>> => old = 0 /\ n = 0 /\ m = 0
  BY <1>1, <1>2, <1>3, <1>6, EmptySeq DEF WrittenTo, Begun
<1>8. wire # <<>> => old > 0
  BY <1>2, EmptySeq, LenProperties DEF TypeOK
<1>9. wire'[1] = <<sent[1], 1>>
  <2>1. CASE wire = <<>>
    BY <1>4, <1>5, <1>7, <2>1
  <2>2. CASE wire # <<>>
    <3>1. wire'[1] = wire[1]
      BY <1>2, <1>8, <2>2
    <3> QED
      BY <2>2, <3>1 DEF WireIntegrity
  <2> QED
    BY <2>1, <2>2
<1>10. ASSUME NEW i \in 1..(old + t - 1)
       PROVE  \/ /\ wire'[i][2] < Size[wire'[i][1]]
                 /\ wire'[i + 1] = <<wire'[i][1], wire'[i][2] + 1>>
              \/ /\ wire'[i][2] = Size[wire'[i][1]]
                 /\ \E k \in 1..(Len(sent) - 1) :
                      sent[k] = wire'[i][1] /\ wire'[i + 1] = <<sent[k + 1], 1>>
  <2>1. CASE i < old
    <3>1. i \in 1..(Len(wire) - 1) /\ wire'[i] = wire[i] /\ wire'[i + 1] = wire[i + 1]
      BY <1>2, <2>1
    <3> QED
      BY <3>1 DEF WireIntegrity
  <2>2. CASE i = old
    <3>1. wire # <<>> /\ wire'[i] = wire[Len(wire)] /\ wire'[i + 1] = <<f, n + 1>>
      BY <1>2, <1>5, <2>2, EmptySeq
    <3>2. CASE n > 0
      <4>1. wire'[i] = <<f, n>>
        BY <1>0, <1>1, <1>3, <3>1, <3>2 DEF WrittenTo, Begun
      <4> QED
        BY <1>1, <3>1, <4>1
    <3>3. CASE n = 0
      <4>1. m > 0 /\ wire'[i] = <<sent[m], Size[sent[m]]>>
        BY <1>3, <1>4, <1>6, <3>1, <3>3 DEF WrittenTo
      <4>2. m \in 1..(Len(sent) - 1) /\ wire'[i + 1] = <<sent[m + 1], 1>>
        BY <1>4, <3>1, <3>3, <4>1
      <4> QED
        BY <4>1, <4>2
    <3> QED
      BY <3>2, <3>3
  <2>3. CASE i > old
    <3>1. PICK j \in 1..t : i = old + j /\ j < t
      <4>1. i - old \in 1..t /\ i - old < t /\ i = old + (i - old)
        BY <2>3
      <4> QED
        BY <4>1
    <3>2. wire'[i] = <<f, n + j>> /\ wire'[i + 1] = <<f, n + (j + 1)>>
      <4>1. j + 1 \in 1..t /\ i + 1 = old + (j + 1)
        BY <3>1
      <4> QED
        BY <1>2, <3>1, <4>1
    <3>3. n + j < Size[f] /\ n + (j + 1) = (n + j) + 1
      BY <1>1, <3>1
    <3> QED
      BY <3>2, <3>3
  <2> QED
    BY <2>1, <2>2, <2>3
<1> QED
  BY <1>0, <1>2, <1>9, <1>10 DEF WireIntegrity

LEMMA WireStep ==
  ASSUME TypeOK, LifeInv, WithinFrame, OrderInv, WireIntegrity, [Next]_vars
  PROVE  OrderInv' /\ WireIntegrity'
<1> USE DEF endVars, outVars
<1>1. ASSUME UNCHANGED <<wire, sent>> PROVE WireIntegrity'
  BY <1>1 DEF WireIntegrity
<1>2. ASSUME UNCHANGED <<wire, sent>>, ~open' PROVE OrderInv'
  BY <1>2 DEF OrderInv
<1>3. ASSUME UNCHANGED <<wire, sent, wq, tasks, open>>, phase = "destroyed" => phase' = "destroyed"
      PROVE  OrderInv'
  BY <1>3 DEF OrderInv, InOrder, NoCloseIn, WrittenTo, Begun
<1>4. ASSUME NEW code, Shut(code) PROVE ~open'
  BY <1>4 DEF Shut, CloseWith
<1>5. ASSUME NEW f \in Frames, Send(f) PROVE OrderInv' /\ WireIntegrity'
  <2>1. CASE UNCHANGED sent
    BY <1>1, <1>5, <2>1, OrderOfSend DEF Send
  <2>2. CASE sent' = Append(sent, f)
    <3>1. /\ Len(sent') = Len(sent) + 1 /\ Len(sent) \in Nat
          /\ \A i \in 1..Len(sent) : sent'[i] = sent[i]
      BY <2>2, AppendProperties, LenProperties DEF TypeOK
    <3>2. wire # <<>> => 1 \in 1..Len(sent)
      BY <3>1, EmptySeq DEF OrderInv, TypeOK
    <3>3. \A k \in 1..(Len(sent) - 1) : /\ k \in 1..(Len(sent') - 1) /\ k \in 1..Len(sent)
                                       /\ k + 1 \in 1..Len(sent)
      BY <3>1
    <3>4. UNCHANGED wire
      BY <1>5 DEF Send
    <3>5. ASSUME NEW i \in 1..(Len(wire) - 1), NEW k \in 1..(Len(sent) - 1),
                 sent[k] = wire[i][1] /\ wire[i + 1] = <<sent[k + 1], 1>>
          PROVE  \E l \in 1..(Len(sent') - 1) :
                   sent'[l] = wire[i][1] /\ wire[i + 1] = <<sent'[l + 1], 1>>
      BY <3>1, <3>3, <3>5
    <3>6. WireIntegrity'
      BY <3>1, <3>2, <3>4, <3>5 DEF WireIntegrity
    <3> QED
      BY <1>5, <3>6, OrderOfSend
  <2> QED
    BY <1>5, <2>1, <2>2 DEF Send
<1>6. CASE Close
  BY <1>1, <1>6, OrderOfClose DEF Close
<1>7. CASE RunSend
  BY <1>1, <1>2, <1>7, OrderOfRunSend DEF RunSend
<1>8. CASE RunClose
  BY <1>1, <1>2, <1>4, <1>8 DEF RunClose
<1>9. CASE WriteSome
  <2>1. phase # "destroyed"
    BY <1>9 DEF WriteSome, LifeInv
  <2> QED
    BY <1>9, <2>1, OrderOfWriteSome, IntegrityOfWriteSome
<1>10. CASE OnError \/ Refuse \/ WriteFail
  BY <1>1, <1>2, <1>4, <1>10 DEF OnError, Refuse, WriteFail
<1>11. CASE OnReadable
  BY <1>1, <1>2, <1>3, <1>4, <1>11 DEF OnReadable
<1>12. CASE Add \/ AddFails \/ Register \/ Poll \/ OnWritable \/ Deliver \/ NeedMore \/ WriteStop
  BY <1>1, <1>3, <1>12 DEF Add, AddFails, Register, Poll, OnWritable, Deliver, NeedMore, WriteStop
<1>13. CASE Destroy
  BY <1>1, <1>13 DEF Destroy, OrderInv
<1>14. CASE PeerStep \/ PeerReads \/ UNCHANGED vars
  BY <1>1, <1>3, <1>14 DEF PeerStep, PeerReads, vars
<1> QED
  BY <1>5, <1>6, <1>7, <1>8, <1>9, <1>10, <1>11, <1>12, <1>13, <1>14 DEF Next, Loop, Handling

\* The socket gets the frames in the order of send(), each whole, wherever EAGAIN cuts
\* them and whatever is sent or closed in between.
THEOREM FramesGoOutWhole == Spec => []WireIntegrity
<1>1. Init => OrderInv /\ WireIntegrity
  <2> SUFFICES ASSUME Init PROVE OrderInv /\ WireIntegrity
    OBVIOUS
  <2>1. wire = <<>> /\ Len(wire) = 0 /\ Len(wq) = 0 /\ Len(tasks) = 0 /\ Len(sent) = 0
    BY EmptySeq DEF Init
  <2>2. InOrder(0) /\ WrittenTo(0)
    BY <2>1 DEF InOrder, WrittenTo, Begun, Init
  <2> QED
    BY <2>1, <2>2 DEF OrderInv, WireIntegrity
<1>2. TypeOK /\ LifeInv /\ WithinFrame /\ OrderInv /\ WireIntegrity /\ [Next]_vars
      => OrderInv' /\ WireIntegrity'
  BY WireStep
<1> QED
  BY <1>1, <1>2, SessionShape, PTL DEF Spec
-----------------------------------------------------------------------------
(* Success.  The WriteHandler of a frame is called once, so the code of     *)
(* that call tells what became of the frame.                                *)

LEMMA NoResultYet ==
  ASSUME TypeOK, PlaceInv, phase # "destroyed", NEW f \in Frames,
         f \in Elements(tasks) \cup Queued
  PROVE  results[f] = <<>>
<1>1. CloseTask \notin Frames
  BY FramesAssumption
<1>2. f \notin Oversized
  BY <1>1 DEF PlaceInv
<1>3. Len(results[f]) = 0 /\ results[f] \in Seq(Codes)
  BY <1>2 DEF PlaceInv, OneResult, TypeOK
<1> QED
  BY <1>3, EmptySeq

LEMMA OneAnswer ==
  ASSUME NEW code \in Codes
  PROVE  /\ Append(<<>>, code) = <<code>> /\ <<>> # <<"ok">>
         /\ code # "ok" => Append(<<>>, code) # <<"ok">>
<1>1. /\ <<>> \in Seq(Codes) /\ Len(<<>>) = 0
  BY EmptySeq
<1>2. Append(<<>>, code) = <<code>>
  OBVIOUS
<1>3. <<>> # <<"ok">>
  OBVIOUS
<1>4. code # "ok" => <<code>> # <<"ok">>
  OBVIOUS
<1> QED
  BY <1>2, <1>3, <1>4

\* Frames that get another answer than "ok", having had none, were not taken.
LEMMA NotTaken ==
  ASSUME TypeOK, OkMeansTaken, UNCHANGED wire,
         \A f \in Frames : \/ results'[f] = results[f]
                           \/ results[f] = <<>> /\ \E code \in Codes \ {"ok"} :
                                                    results'[f] = <<code>>
  PROVE  OkMeansTaken'
<1> SUFFICES ASSUME NEW f \in Frames
             PROVE  results'[f] = <<"ok">> <=> <<f, Size[f]>> \in Elements(wire)
  BY DEF OkMeansTaken
<1>1. CASE results'[f] = results[f]
  BY <1>1 DEF OkMeansTaken
<1>2. CASE results[f] = <<>> /\ \E code \in Codes \ {"ok"} : results'[f] = <<code>>
  <2>1. results[f] # <<"ok">> /\ results'[f] # <<"ok">>
    BY <1>2, OneAnswer
  <2> QED
    BY <2>1 DEF OkMeansTaken
<1> QED
  BY <1>1, <1>2

LEMMA OkOfWriteSome ==
  ASSUME TypeOK, LifeInv, WithinFrame, PlaceInv, OkMeansTaken, WriteSome
  PROVE  OkMeansTaken'
<1>1. PICK f \in Frames, n \in Nat, t \in Nat \ {0} :
        /\ f = wq[1].frame /\ n = wq[1].written /\ t = Taken /\ n + t <= Size[f]
        /\ Len(wq) \in Nat \ {0} /\ Size[f] \in Nat
  BY UnitsTaken
<1>2. PICK old \in Nat : /\ old = Len(wire) /\ Len(wire') = old + t
                         /\ \A i \in 1..old : wire'[i] = wire[i]
                         /\ \A i \in 1..t : wire'[old + i] = <<f, n + i>>
  BY <1>1, WireGrows
<1>3. f \in Queued /\ phase # "destroyed"
  <2>1. 1 \in 1..Len(wq)
    BY <1>1
  <2>2. phase # "destroyed"
    BY DEF WriteSome, LifeInv
  <2> QED
    BY <1>1, <2>1, <2>2 DEF Queued
<1>4. results[f] = <<>>
  BY <1>3, NoResultYet
<1>5. \A u : u \in Elements(wire') <=>
               u \in Elements(wire) \/ \E i \in 1..t : u = <<f, n + i>>
  <2>1. Elements(wire') = {wire'[j] : j \in 1..(old + t)}
    BY <1>2 DEF Elements
  <2>2. Elements(wire) = {wire'[j] : j \in 1..old}
    BY <1>2 DEF Elements
  <2>3. \A j \in 1..(old + t) : j \in 1..old \/ \E i \in 1..t : j = old + i
    <3> TAKE j \in 1..(old + t)
    <3>1. j \in 1..old \/ (j - old \in 1..t /\ j = old + (j - old))
      OBVIOUS
    <3> QED
      BY <3>1
  <2>4. \A j \in 1..(old + t) : j \in 1..old \/ \E i \in 1..t : wire'[j] = <<f, n + i>>
    <3> TAKE j \in 1..(old + t)
    <3>1. CASE \E i \in 1..t : j = old + i
      <4>1. PICK i \in 1..t : j = old + i
        BY <3>1
      <4>2. wire'[j] = <<f, n + i>>
        BY <1>2, <4>1
      <4> QED
        BY <4>2
    <3> QED
      BY <2>3, <3>1
  <2>5. \A i \in 1..t : old + i \in 1..(old + t) /\ wire'[old + i] = <<f, n + i>>
    BY <1>1, <1>2
  <2>6. \A j \in 1..old : j \in 1..(old + t)
    BY <1>1, <1>2
  <2> SUFFICES ASSUME NEW u
               PROVE  u \in Elements(wire') <=>
                        u \in Elements(wire) \/ \E i \in 1..t : u = <<f, n + i>>
    OBVIOUS
  <2>7. ASSUME u \in Elements(wire')
        PROVE  u \in Elements(wire) \/ \E i \in 1..t : u = <<f, n + i>>
    <3>1. PICK j \in 1..(old + t) : u = wire'[j]
      BY <2>1, <2>7
    <3> QED
      BY <2>2, <2>4, <3>1
  <2>8. ASSUME u \in Elements(wire) PROVE u \in Elements(wire')
    BY <2>1, <2>2, <2>6, <2>8
  <2>9. ASSUME NEW i \in 1..t, u = <<f, n + i>> PROVE u \in Elements(wire')
    <3>1. old + i \in 1..(old + t) /\ wire'[old + i] = u
      BY <2>5, <2>9
    <3> QED
      BY <2>1, <3>1
  <2> QED
    BY <2>7, <2>8, <2>9
<1>6. ASSUME NEW g \in Frames, g # f
      PROVE  results'[g] = results[g] /\
             (<<g, Size[g]>> \in Elements(wire') <=> <<g, Size[g]>> \in Elements(wire))
  <2>1. results'[g] = results[g]
    BY <1>1, <1>6 DEF WriteSome, TypeOK
  <2> QED
    BY <1>5, <1>6, <2>1
<1>7. <<f, Size[f]>> \notin Elements(wire)
  BY <1>4, OneAnswer DEF OkMeansTaken, Codes
<1>8. CASE n + t = Size[f]
  <2>1. results'[f] = <<"ok">>
    BY <1>1, <1>4, <1>8, OneAnswer DEF WriteSome, TypeOK, Codes
  <2>2. <<f, Size[f]>> \in Elements(wire')
    BY <1>1, <1>5, <1>8
  <2> QED
    BY <1>6, <2>1, <2>2 DEF OkMeansTaken
<1>9. CASE n + t # Size[f]
  <2>1. results'[f] = <<>>
    BY <1>1, <1>4, <1>9 DEF WriteSome
  <2>2. \A i \in 1..t : n + i # Size[f]
    BY <1>1, <1>9
  <2>3. <<f, Size[f]>> \notin Elements(wire')
    BY <1>5, <1>7, <2>2
  <2> QED
    BY <1>6, <2>1, <2>3, OneAnswer DEF OkMeansTaken, Codes
<1> QED
  BY <1>8, <1>9

LEMMA OkStep ==
  ASSUME TypeOK, LifeInv, WithinFrame, PlaceInv, OkMeansTaken, [Next]_vars
  PROVE  OkMeansTaken'
<1>0. /\ results \in [Frames -> Seq(Codes)] /\ tasks \in Seq(Frames \cup {CloseTask})
      /\ \A code \in Codes : Append(<<>>, code) = <<code>>
  BY OneAnswer DEF TypeOK
<1> USE DEF endVars, outVars
<1>1. CASE UNCHANGED <<wire, results>>
  BY <1>1 DEF OkMeansTaken
<1>2. ASSUME NEW code \in {"not_connected", "error"}, Shut(code), UNCHANGED <<phase, wire>>,
             phase # "destroyed"
      PROVE  OkMeansTaken'
  <2>1. code \in Codes \ {"ok"}
    BY DEF Codes
  <2>2. \A f \in Frames : results'[f] = IF f \in Queued THEN Append(results[f], code) ELSE results[f]
    BY <1>2 DEF Shut, CloseWith, Answered
  <2>3. \A f \in Frames : f \in Queued => results[f] = <<>>
    BY <1>2, NoResultYet
  <2> QED
    BY <1>0, <1>2, <2>1, <2>2, <2>3, NotTaken
<1>3. ASSUME NEW f \in Frames, Send(f) PROVE OkMeansTaken'
  <2>1. UNCHANGED wire /\ results[f] = <<>>
    BY <1>3 DEF Send
  <2>2. results' = results \/ results' = [results EXCEPT ![f] = <<"message_size">>]
    BY <1>3 DEF Send
  <2>3. "message_size" \in Codes \ {"ok"}
    BY DEF Codes
  <2> QED
    BY <1>0, <2>1, <2>2, <2>3, NotTaken
<1>4. CASE RunSend
  <2>1. CASE open
    BY <1>1, <1>4, <2>1 DEF RunSend
  <2>2. CASE ~open
    <3>1. /\ results' = [results EXCEPT ![Head(tasks)] = Append(@, "not_connected")]
          /\ UNCHANGED wire /\ tasks # <<>> /\ Head(tasks) # CloseTask /\ phase # "destroyed"
      BY <1>4, <2>2 DEF RunSend, LoopFree
    <3>2. Head(tasks) \in Frames /\ Head(tasks) \in Elements(tasks)
      <4>1. Head(tasks) = tasks[1] /\ Len(tasks) \in Nat \ {0}
        BY <1>0, <3>1, HeadTailProperties, LenProperties, EmptySeq
      <4>2. tasks[1] \in Frames \cup {CloseTask} /\ 1 \in 1..Len(tasks)
        BY <1>0, <4>1, ElementOfSeq
      <4> QED
        BY <3>1, <4>1, <4>2 DEF Elements
    <3>3. results[Head(tasks)] = <<>>
      BY <3>1, <3>2, NoResultYet
    <3>4. "not_connected" \in Codes \ {"ok"}
      BY DEF Codes
    <3>5. \A f \in Frames : \/ results'[f] = results[f]
                            \/ results[f] = <<>> /\ results'[f] = <<"not_connected">>
      BY <1>0, <3>1, <3>3, <3>4
    <3> QED
      BY <3>1, <3>4, <3>5, NotTaken
  <2> QED
    BY <2>1, <2>2
<1>5. CASE RunClose
  BY <1>1, <1>2, <1>5 DEF RunClose, LoopFree
<1>6. phase = "destroyed" => reported = {} /\ activity = "none"
  BY DEF LifeInv
<1>7. CASE OnError \/ Refuse \/ WriteFail
  BY <1>2, <1>6, <1>7 DEF OnError, Refuse, WriteFail
<1>8. CASE OnReadable
  BY <1>1, <1>2, <1>6, <1>8 DEF OnReadable
<1>9. CASE WriteSome
  BY <1>9, OkOfWriteSome
<1>10. CASE \/ Add \/ AddFails \/ Register \/ Poll \/ OnWritable \/ Deliver \/ NeedMore \/ WriteStop
            \/ Close \/ Destroy \/ PeerStep \/ PeerReads \/ UNCHANGED vars
  BY <1>1, <1>10 DEF Add, AddFails, Register, Poll, OnWritable, Deliver, NeedMore, WriteStop, Close,
                     Destroy, PeerStep, PeerReads, vars
<1> QED
  BY <1>3, <1>4, <1>5, <1>7, <1>8, <1>9, <1>10 DEF Next, Loop, Handling

\* A WriteHandler is told of success if the socket took the frame whole, and only then.
THEOREM SuccessIsTrue == Spec => []OkMeansTaken
<1>1. Init => OkMeansTaken
  <2> SUFFICES ASSUME Init, NEW f \in Frames PROVE results[f] # <<"ok">> /\ Elements(wire) = {}
    BY DEF OkMeansTaken
  <2>1. results[f] = <<>> /\ Len(wire) = 0
    BY EmptySeq DEF Init
  <2> QED
    BY <2>1, OneAnswer DEF Elements, Codes
<1>2. TypeOK /\ LifeInv /\ WithinFrame /\ PlaceInv /\ OkMeansTaken /\ [Next]_vars => OkMeansTaken'
  BY OkStep
<1> QED
  BY <1>1, <1>2, PlaceHolds, PTL DEF Spec
=============================================================================
