------------------------------ MODULE Session -------------------------------
(***************************************************************************)
(* One minirpc Session on an EventLoop: the framed byte stream of one      *)
(* non-blocking socket, its write queue, its place in the loop and its     *)
(* callbacks.  The loop is the Executor that EventLoop implements plus     *)
(* level-triggered readiness; the socket and the peer are the environment. *)
(*                                                                         *)
(* The stream is counted in units.  An inbound frame is two of them, the   *)
(* length header and the payload, so that frames arrive halved and glued   *)
(* together; an outgoing frame f is Size[f] of them, so that send() stops  *)
(* in the middle of one.  Operators named Mutant... are plausible mistakes *)
(* in the definition below them, which a property must notice.             *)
(***************************************************************************)
EXTENDS Integers, Sequences

CONSTANTS Frames,      \* the messages handed to send(), each once
          Oversized,   \* those whose payload exceeds kMaxFrameSize
          Size,        \* Size[f]: the units of frame f on the wire
          Streams,     \* what the frames of the peer may hold, in stream order
          Buffer,      \* units the socket's send buffer takes
          OffLoop,     \* start() runs on a thread other than the loop's
          CloseTask    \* the closure posted by close()

Contents == {"ok", "undecodable", "too_large"}

ASSUME FramesAssumption == Oversized \subseteq Frames /\ CloseTask \notin Frames
ASSUME SizeAssumption == Size \in [Frames -> Nat \ {0}]
ASSUME StreamsAssumption == Streams \subseteq Seq(Contents)
ASSUME BufferAssumption == Buffer \in Nat \ {0}
ASSUME OffLoopAssumption == OffLoop \in BOOLEAN

VARIABLES
  phase,                \* start() has not begun, is between its two effects, is done,
                        \* or threw, which leaves an open session unwatched
  open, registered,     \* open_, registered_
  handler, interest,    \* the loop's handlers_ entry; the epoll events, {} if not added
  tasks,                \* this session's closures in the loop's queue
  activity, reported,   \* the loop inside async_read's parsing or async_write; the
                        \* events of the current handle_events() not handled yet
  wq,                   \* write_queue_
  buffered, popped,     \* units in read_buffer_; frames popped from it
  inbound,              \* the stream of the peer, fixed at the start
  unread, fin, reset,   \* the socket: units to recv(), FIN seen, connection reset
  room,                 \* the socket: units send() takes before EAGAIN
  sent, wire,           \* history: frames posted; units send() took
  results,              \* history: what each WriteHandler was called with
  delivered, closes     \* history: calls of message_handler_ and close_handler_

loopVars   == <<handler, interest>>
streamVars == <<buffered, popped, delivered>>
netVars    == <<inbound, unread, fin, reset>>
outVars    == <<room, wire>>
endVars    == <<open, registered, loopVars, wq, results, closes>>
vars == <<phase, tasks, sent, activity, reported, streamVars, netVars, outVars, endVars>>

OutgoingFrame == [frame : Frames, written : Nat]
Codes == {"ok", "not_connected", "error", "message_size"}
Events == {"IN", "RDHUP", "OUT", "ERR"}
Elements(s) == {s[i] : i \in 1..Len(s)}
Queued == {wq[i].frame : i \in 1..Len(wq)}
Smaller(m, n) == IF m < n THEN m ELSE n

Init == /\ phase = "new" /\ open = TRUE /\ registered = FALSE
        /\ handler = FALSE /\ interest = {}
        /\ tasks = <<>> /\ activity = "none" /\ reported = {} /\ wq = <<>>
        /\ inbound \in Streams
        /\ buffered = 0 /\ popped = 0 /\ unread = 0 /\ fin = FALSE /\ reset = FALSE
        /\ room = Buffer /\ sent = <<>> /\ wire = <<>>
        /\ results = [f \in Frames |-> <<>>] /\ delivered = <<>> /\ closes = 0
-----------------------------------------------------------------------------
(* The owner's thread: start(), send() and close().                        *)

Add ==                                    \* start(), loop_.add
  /\ phase = "new" /\ phase' = "added"
  /\ handler' = TRUE /\ interest' = {"IN", "RDHUP"}
  /\ UNCHANGED <<open, registered, wq, results, closes, tasks, sent, activity, reported,
                 streamVars, netVars, outVars>>

AddFails ==                               \* start(), loop_.add throws
  /\ phase = "new" /\ phase' = "unwatched"
  /\ UNCHANGED <<tasks, sent, activity, reported, streamVars, netVars, outVars, endVars>>

Register ==                               \* start(), registered_ = true
  /\ phase = "added" /\ phase' = "started"
  /\ registered' = TRUE
  /\ UNCHANGED <<open, loopVars, wq, results, closes, tasks, sent, activity, reported,
                 streamVars, netVars, outVars>>

\* Who can call send() and close(): whoever called start(), once it has returned or
\* thrown; before that, a message handler that the loop runs beside it.
Shared == \/ phase \in {"started", "unwatched"}
          \/ phase = "added" /\ OffLoop /\ delivered # <<>>

Send(f) ==
  /\ Shared /\ f \notin Elements(sent) /\ results[f] = <<>>
  /\ IF f \in Oversized
       THEN results' = [results EXCEPT ![f] = <<"message_size">>] /\ UNCHANGED <<tasks, sent>>
       ELSE tasks' = Append(tasks, f) /\ sent' = Append(sent, f) /\ UNCHANGED results
  /\ UNCHANGED <<phase, open, registered, loopVars, wq, closes, activity, reported,
                 streamVars, netVars, outVars>>

Close ==                                  \* bound: one closure of it queued at a time
  /\ Shared /\ CloseTask \notin Elements(tasks)
  /\ tasks' = Append(tasks, CloseTask)
  /\ UNCHANGED <<phase, sent, activity, reported, streamVars, netVars, outVars, endVars>>
-----------------------------------------------------------------------------
(* The loop's thread.  A start() on that thread is not interrupted by it.  *)

LoopFree == /\ activity = "none" /\ reported = {} /\ phase # "destroyed"
            /\ OffLoop \/ phase # "added"

\* What update_events() leaves in the epoll set when the write queue is q.
MutantNeverDisarm(q) == interest \cup (IF q # <<>> THEN {"OUT"} ELSE {})
MutantNeverArm(q) == {"IN", "RDHUP"}
MutantOnlyOut(q) == IF q # <<>> THEN {"OUT"} ELSE {}
InterestFor(q) ==
  IF registered THEN {"IN", "RDHUP"} \cup (IF q # <<>> THEN {"OUT"} ELSE {}) ELSE interest

\* The WriteHandlers of the queued frames are called with code.
Answered(code) ==
  [f \in Frames |-> IF f \in Queued THEN Append(results[f], code) ELSE results[f]]

CloseWith(newHandler, newResults) ==
  /\ open' = FALSE /\ registered' = FALSE
  /\ handler' = newHandler /\ interest' = {}
  /\ wq' = <<>> /\ results' = newResults
  /\ closes' = closes + 1

\* fail_and_close(code), and close_from_loop() when code is "not_connected".  Closing
\* the descriptor takes it out of the epoll set even where loop_.remove is skipped.
MutantSilentClose(code) == CloseWith(handler /\ ~registered, results)
MutantOkClose(code) == CloseWith(handler /\ ~registered, Answered("ok"))
MutantKeepHandler(code) == CloseWith(handler, Answered(code))
Shut(code) == CloseWith(handler /\ ~registered, Answered(code))

RunSend ==                                \* the closure posted by send()
  /\ LoopFree /\ tasks # <<>> /\ Head(tasks) # CloseTask
  /\ tasks' = Tail(tasks)
  /\ \/ /\ ~open
        /\ results' = [results EXCEPT ![Head(tasks)] = Append(@, "not_connected")]
        /\ UNCHANGED <<wq, interest, activity>>
     \/ /\ open
        /\ wq' = Append(wq, [frame |-> Head(tasks), written |-> 0])
        /\ interest' = InterestFor(wq') /\ activity' = "writing"
        /\ UNCHANGED results
  /\ UNCHANGED <<phase, open, registered, handler, closes, sent, reported,
                 streamVars, netVars, outVars>>

RunClose ==                               \* the closure posted by close()
  /\ LoopFree /\ tasks # <<>> /\ Head(tasks) = CloseTask
  /\ tasks' = Tail(tasks)
  /\ IF open THEN Shut("not_connected") ELSE UNCHANGED endVars
  /\ UNCHANGED <<phase, sent, activity, reported, streamVars, netVars, outVars>>

Ready == {e \in interest : \/ e = "IN" /\ (unread > 0 \/ fin \/ reset)
                           \/ e = "RDHUP" /\ (fin \/ reset)
                           \/ e = "OUT" /\ (room > 0 \/ reset)}
         \cup (IF interest # {} /\ reset THEN {"ERR"} ELSE {})

Poll ==                                   \* epoll_wait reports this descriptor
  /\ LoopFree /\ Ready # {}
  /\ reported' = Ready
  /\ UNCHANGED <<phase, tasks, sent, activity, streamVars, netVars, outVars, endVars>>

OnError ==
  /\ activity = "none" /\ "ERR" \in reported /\ reported' = {}
  /\ Shut("not_connected")
  /\ UNCHANGED <<phase, tasks, sent, activity, streamVars, netVars, outVars>>

MutantGoOn ==                             \* the rest of the events of a closed session
  /\ activity = "none" /\ "IN" \in reported /\ "ERR" \notin reported
  /\ buffered' = buffered + unread /\ unread' = 0
  /\ fin /\ Shut("not_connected") /\ reported' = reported \ {"IN"}
  /\ UNCHANGED <<phase, tasks, sent, activity, popped, delivered, inbound, fin, reset, outVars>>

\* async_read()'s recv loop takes everything, then meets an error, EOF or EAGAIN.
OnReadable ==
  /\ activity = "none" /\ "IN" \in reported /\ "ERR" \notin reported
  /\ buffered' = buffered + unread /\ unread' = 0
  /\ \/ /\ reset /\ Shut("error")
        /\ reported' = {} /\ UNCHANGED activity
     \/ /\ fin /\ Shut("not_connected")
        /\ reported' = {} /\ UNCHANGED activity
     \/ /\ ~reset /\ ~fin
        /\ activity' = "parsing" /\ reported' = reported \ {"IN"} /\ UNCHANGED endVars
  /\ UNCHANGED <<phase, tasks, sent, popped, delivered, inbound, fin, reset, outVars>>

\* EPOLLRDHUP comes only with EPOLLIN, and recv() == 0 then closes the session: the
\* last branch of handle_events() is never taken.
OnWritable ==
  /\ activity = "none" /\ "OUT" \in reported /\ reported \cap {"ERR", "IN"} = {}
  /\ activity' = "writing" /\ reported' = reported \ {"OUT"}
  /\ UNCHANGED <<phase, tasks, sent, streamVars, netVars, outVars, endVars>>

\* try_pop_frame() on read_buffer_.
Complete == buffered >= 2 /\ inbound[popped + 1] # "too_large"
TooLarge == buffered >= 1 /\ inbound[popped + 1] = "too_large"

MutantOneFrame ==                         \* if (...), not while (...), around the pop
  /\ activity = "parsing" /\ Complete /\ activity' = "none"
  /\ popped' = popped + 1 /\ buffered' = buffered - 2
  /\ delivered' = Append(delivered, popped + 1)
  /\ UNCHANGED <<phase, tasks, sent, reported, netVars, outVars, endVars>>

Deliver ==
  /\ activity = "parsing" /\ Complete /\ inbound[popped + 1] = "ok"
  /\ popped' = popped + 1 /\ buffered' = buffered - 2
  /\ delivered' = Append(delivered, popped + 1)
  /\ UNCHANGED <<phase, tasks, sent, activity, reported, netVars, outVars, endVars>>

Refuse ==                                 \* TooLarge, or decode() fails
  /\ activity = "parsing" /\ activity' = "none" /\ reported' = {}
  /\ \/ TooLarge /\ UNCHANGED <<buffered, popped>>
     \/ /\ Complete /\ inbound[popped + 1] = "undecodable"
        /\ popped' = popped + 1 /\ buffered' = buffered - 2
  /\ Shut("error")
  /\ UNCHANGED <<phase, tasks, sent, delivered, netVars, outVars>>

NeedMore ==
  /\ activity = "parsing" /\ ~Complete /\ ~TooLarge /\ activity' = "none"
  /\ UNCHANGED <<phase, tasks, sent, reported, streamVars, netVars, outVars, endVars>>

\* One ::send() of async_write(): the socket takes what it has room for.
Taken == Smaller(room, Size[wq[1].frame] - wq[1].written)
MutantRestart == [i \in 1..Taken |-> <<wq[1].frame, i>>]
Units == [i \in 1..Taken |-> <<wq[1].frame, wq[1].written + i>>]

WriteSome ==
  /\ activity = "writing" /\ wq # <<>> /\ ~reset /\ room > 0
  /\ wire' = wire \o Units /\ room' = room - Taken
  /\ IF wq[1].written + Taken = Size[wq[1].frame]
       THEN /\ wq' = Tail(wq)
            /\ results' = [results EXCEPT ![wq[1].frame] = Append(@, "ok")]
       ELSE wq' = [wq EXCEPT ![1].written = @ + Taken] /\ UNCHANGED results
  /\ UNCHANGED <<phase, tasks, sent, activity, reported, streamVars, netVars, open,
                 registered, loopVars, closes>>

WriteStop ==                              \* EAGAIN, or nothing left
  /\ activity = "writing" /\ activity' = "none"
  /\ wq = <<>> \/ (room = 0 /\ ~reset)
  /\ interest' = InterestFor(wq)
  /\ UNCHANGED <<phase, tasks, sent, reported, streamVars, netVars, outVars, open,
                 registered, handler, wq, results, closes>>

WriteFail ==
  /\ activity = "writing" /\ wq # <<>> /\ reset
  /\ activity' = "none" /\ reported' = {}
  /\ Shut("error")
  /\ UNCHANGED <<phase, tasks, sent, streamVars, netVars, outVars>>

Destroy ==                                \* the loop is destroyed, then ~Session
  /\ LoopFree /\ phase \in {"started", "unwatched"} /\ phase' = "destroyed"
  /\ tasks' = <<>> /\ handler' = FALSE /\ interest' = {}
  /\ UNCHANGED <<open, registered, wq, results, closes, sent, activity, reported,
                 streamVars, netVars, outVars>>
-----------------------------------------------------------------------------
(* The peer and the network.                                               *)

PeerStep ==
  /\ \/ /\ ~fin /\ ~reset /\ unread + buffered + 2 * popped < 2 * Len(inbound)
        /\ unread' = unread + 1 /\ UNCHANGED <<fin, reset>>
     \/ ~fin /\ fin' = TRUE /\ UNCHANGED <<unread, reset>>
     \/ ~reset /\ reset' = TRUE /\ UNCHANGED <<unread, fin>>
  /\ UNCHANGED <<phase, tasks, sent, activity, reported, streamVars, inbound, outVars,
                 endVars>>

PeerReads ==
  /\ room < Buffer /\ room' = room + 1
  /\ UNCHANGED <<phase, tasks, sent, activity, reported, streamVars, netVars, wire, endVars>>
-----------------------------------------------------------------------------
Handling == \/ OnError \/ OnReadable \/ OnWritable
            \/ Deliver \/ Refuse \/ NeedMore \/ WriteSome \/ WriteStop \/ WriteFail
Loop == RunSend \/ RunClose \/ Poll \/ Handling

Next == \/ Add \/ AddFails \/ Register \/ Close \/ \E f \in Frames : Send(f)
        \/ Loop \/ Destroy
        \/ PeerStep \/ PeerReads

Spec == Init /\ [][Next]_vars

\* The thread in start() and the loop go on; the loop comes to every closure
\* (EventLoop!PostedRuns) and to a descriptor that stays ready; the peer reads.
FairSpec == /\ Spec
            /\ WF_vars(Register) /\ WF_vars(Handling) /\ WF_vars(PeerReads)
            /\ SF_vars(RunSend \/ RunClose) /\ SF_vars(Poll)
-----------------------------------------------------------------------------
FlagTypes == /\ open \in BOOLEAN /\ registered \in BOOLEAN /\ handler \in BOOLEAN
             /\ fin \in BOOLEAN /\ reset \in BOOLEAN

\* Every variable has its type; the loop is inside a handler, or has events left
\* to handle, only while the session is open.
TypeOK ==
  /\ FlagTypes
  /\ phase \in {"new", "added", "started", "unwatched", "destroyed"}
  /\ interest \subseteq Events /\ reported \subseteq Events
  /\ tasks \in Seq(Frames \cup {CloseTask}) /\ sent \in Seq(Frames)
  /\ activity \in {"none", "parsing", "writing"}
  /\ wq \in Seq(OutgoingFrame)
  /\ buffered \in Nat /\ popped \in Nat /\ unread \in Nat /\ room \in 0..Buffer
  /\ inbound \in Streams
  /\ wire \in Seq(Frames \X Nat)
  /\ results \in [Frames -> Seq(Codes)]
  /\ delivered \in Seq(Nat) /\ closes \in Nat
  /\ activity # "none" \/ reported # {} => open

\* The WriteHandler of a posted frame is called exactly once, when the frame is
\* neither in the loop's queue nor in write_queue_ any more, whichever of send(),
\* async_write(), fail_and_close() and close_from_loop() disposes of it.
OneResult ==
  phase # "destroyed" =>
    \A f \in Frames \ Oversized :
      Len(results[f]) = IF f \in Elements(sent) \ (Elements(tasks) \cup Queued) THEN 1 ELSE 0

\* The bytes the socket took are the frames in the order of send(), whole and
\* without gaps: a frame cut by EAGAIN goes on where it stopped.
WireIntegrity ==
  /\ wire # <<>> => wire[1] = <<sent[1], 1>>
  /\ \A i \in 1..(Len(wire) - 1) :
       \/ wire[i][2] < Size[wire[i][1]] /\ wire[i + 1] = <<wire[i][1], wire[i][2] + 1>>
       \/ /\ wire[i][2] = Size[wire[i][1]]
          /\ \E k \in 1..(Len(sent) - 1) :
               sent[k] = wire[i][1] /\ wire[i + 1] = <<sent[k + 1], 1>>

\* A WriteHandler sees success exactly for the frames the socket took whole.
OkMeansTaken ==
  \A f \in Frames : results[f] = <<"ok">> <=> <<f, Size[f]>> \in Elements(wire)

\* Once start() has returned, the epoll set asks for EPOLLOUT, between callbacks, exactly
\* while write_queue_ holds something: it neither stalls a cut frame nor spins on a
\* writable socket.  (Refuted where start() runs off the loop: a frame cut before
\* registered_ is set waits for an EPOLLOUT that nobody asked for.)
OutInterest ==
  LoopFree /\ open /\ phase = "started" => ("OUT" \in interest <=> wq # <<>>)

\* Between callbacks an open session holds no complete frame it has not delivered,
\* and no header that it should have refused, however the frames were glued.
NoFrameLeft == LoopFree /\ open => ~Complete /\ ~TooLarge

\* close_from_loop() runs its cleanup whole and once: nothing queued, out of the
\* epoll set and of handlers_, one call of the close handler, none before.
ClosedOnce ==
  /\ open => closes = 0
  /\ ~open => wq = <<>> /\ interest = {} /\ ~handler /\ closes = 1

\* Every frame handed to send() gets its WriteHandler called, unless the loop is
\* destroyed first, or start() threw and nobody watches the socket.
FrameAnswered ==
  \A f \in Frames :
    (f \in Elements(sent)) ~> (results[f] # <<>> \/ phase \in {"unwatched", "destroyed"})

\* A session whose peer has closed or reset the connection closes.
PeerCloseSeen == (phase = "started" /\ (fin \/ reset)) ~> (~open \/ phase = "destroyed")

\* docs/technical_design.md: the MessageHandler is called after a complete message
\* has been received.  (Refuted: at EOF async_read() returns before it parses.)
CompleteFramesDelivered ==
  LoopFree => ~(Complete /\ inbound[popped + 1] = "ok")

\* docs/flowchart.mmd: closing is "remove fd, close socket, run close handler".
\* (Refuted where start() runs off the loop: registered_ may not be set yet.)
ClosedIsRemoved == ~open => ~handler
=============================================================================
