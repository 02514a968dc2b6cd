-------------------------- MODULE RpcClientProofs ---------------------------
(***************************************************************************)
(* Proofs about RpcClient, for every set of threads and every bound: its   *)
(* variables keep their types, a ResponseHandler is called at most once,   *)
(* pending_ keeps none that nothing will call, and while the client has    *)
(* made one session, what is on the wire has its handler waiting.          *)
(***************************************************************************)
EXTENDS RpcClient, FiniteSetTheorems, SequenceTheorems, TLAPS

Tasks == [op : Operations, to : Sessions, id : Ids \cup {None}]

(* Facts on sequences, by elements. *)

LEMMA ElementsOfAppend ==
  ASSUME NEW S, NEW s \in Seq(S), NEW x \in S
  PROVE  Elements(Append(s, x)) = Elements(s) \cup {x}
<1>1. /\ Len(Append(s, x)) = Len(s) + 1 /\ Len(s) \in Nat
      /\ Append(s, x)[Len(s) + 1] = x
      /\ \A i \in 1..Len(s) : Append(s, x)[i] = s[i]
  BY AppendProperties, LenProperties
<1>2. 1..(Len(s) + 1) = (1..Len(s)) \cup {Len(s) + 1}
  BY <1>1
<1> QED
  BY <1>1, <1>2 DEF Elements

LEMMA ElementsOfTail ==
  ASSUME NEW S, NEW s \in Seq(S), s # <<>>
  PROVE  Elements(s) = Elements(Tail(s)) \cup {Head(s)}
<1>1. /\ Len(Tail(s)) = Len(s) - 1 /\ Len(s) \in Nat \ {0} /\ Head(s) = s[1]
      /\ \A i \in 1..Len(Tail(s)) : Tail(s)[i] = s[i + 1]
  BY HeadTailProperties, LenProperties, EmptySeq
<1>2. \A i \in 1..Len(Tail(s)) : i + 1 \in 1..Len(s)
  BY <1>1
<1>3. \A j \in 1..Len(s) : j # 1 => j - 1 \in 1..Len(Tail(s)) /\ Tail(s)[j - 1] = s[j]
  BY <1>1
<1>4. \A i \in 1..Len(Tail(s)) : Tail(s)[i] \in Elements(s)
  BY <1>1, <1>2 DEF Elements
<1>5. Head(s) \in Elements(s)
  BY <1>1 DEF Elements
<1>6. \A j \in 1..Len(s) : s[j] = Head(s) \/ s[j] \in Elements(Tail(s))
  <2> TAKE j \in 1..Len(s)
  <2>1. CASE j = 1
    BY <1>1, <2>1
  <2>2. CASE j # 1
    BY <1>3, <2>2 DEF Elements
  <2> QED
    BY <2>1, <2>2
<1> QED
  BY <1>4, <1>5, <1>6 DEF Elements

LEMMA ElementsOfEmpty == Elements(<<>>) = {}
BY DEF Elements

LEMMA ElementsType ==
  ASSUME NEW S, NEW s \in Seq(S) PROVE Elements(s) \subseteq S
BY ElementOfSeq DEF Elements
-----------------------------------------------------------------------------
(* Types.  nextId stays in range because Begin() counts the calls that have *)
(* not taken their id yet.                                                  *)

\* What a thread inside the client has at each of its steps.
CallInv ==
  \A u \in Users :
    /\ call[u].at \in {"pointer", "open", "make", "insert"} => call[u].id = None
    /\ call[u].at = "open" => call[u].op # "close"
    /\ call[u].at = "insert" => call[u].op = "call"
    /\ call[u].at = "use" => (call[u].op = "call" <=> call[u].id # None)

Callers == {v \in Users : call[v].op = "call" /\ call[v].id = None}
BoundInv == IsFiniteSet(Callers) /\ nextId + Cardinality(Callers) <= MaxId + 1

\* Only sessions that were made are open or closing.
MadeInv == closing <= made /\ \A s \in Sessions : open[s] => s <= made

Shape == TypeOK /\ CallInv /\ BoundInv /\ MadeInv

LEMMA ShapeInit == Init => Shape
<1> SUFFICES ASSUME Init PROVE Shape
  OBVIOUS
<1>1. Callers = {}
  BY DEF Init, Callers, Idle
<1>2. BoundInv
  BY <1>1, FS_EmptySet, BoundsAssumption DEF Init, BoundInv
<1>3. CallInv
  BY DEF Init, CallInv, Idle, None
<1>4. TypeOK
  <2>1. /\ tasks \in Seq(Tasks) /\ queue \in [Sessions -> Seq(Ids \cup {None})]
        /\ replies \in [Sessions -> Seq(Ids)]
    BY EmptySeq DEF Init
  <2>2. /\ session \in 0..made /\ made \in 0..MaxSessions /\ nextId \in 1..(MaxId + 1)
        /\ closing = None
    BY BoundsAssumption DEF Init, None
  <2> QED
    BY <2>1, <2>2 DEF Init, TypeOK, Tasks
<1> QED
  BY <1>2, <1>3, <1>4 DEF Shape, MadeInv, Init, None

\* No new call of call_async(), so the bound on ids stays.
LEMMA FewerCallers ==
  ASSUME BoundInv, Callers' \subseteq Callers, nextId' = nextId, nextId \in Nat
  PROVE  BoundInv'
<1>1. IsFiniteSet(Callers') /\ Cardinality(Callers') <= Cardinality(Callers)
  BY FS_Subset DEF BoundInv
<1>2. Cardinality(Callers') \in Nat /\ Cardinality(Callers) \in Nat
  BY <1>1, FS_CardinalityType DEF BoundInv
<1> QED
  BY <1>1, <1>2, BoundsAssumption DEF BoundInv

Calls == {Idle} \cup [op : Operations, at : Steps, id : Ids \cup {None}]
CallAllows(c) ==
  /\ c.at # "use" => c.id = None
  /\ c.at = "open" => c.op # "close"
  /\ c.at = "insert" => c.op = "call"
  /\ c.at = "use" => (c.op = "call" <=> c.id # None)

\* One thread goes on in its call, or leaves it, without a new call of call_async().
LEMMA OneCallMoves ==
  ASSUME TypeOK, CallInv, BoundInv, NEW u \in Users, NEW c \in Calls,
         call' = [call EXCEPT ![u] = c], nextId' = nextId,
         c # Idle => CallAllows(c),
         c.op = "call" /\ c.id = None => u \in Callers
  PROVE  call' \in [Users -> Calls] /\ CallInv' /\ BoundInv'
<1>1. call \in [Users -> Calls]
  BY DEF TypeOK, Calls
<1>2. CallInv'
  <2>1. c = Idle => c.at = "none" /\ c.op = "none" /\ c.id = None
    BY DEF Idle
  <2> QED
    BY <1>1, <2>1 DEF CallInv, CallAllows
<1>3. Callers' \subseteq Callers
  BY <1>1 DEF Callers
<1>4. BoundInv'
  BY <1>3, FewerCallers DEF TypeOK
<1> QED
  BY <1>1, <1>2, <1>4

\* A thread inside a call is at one of the call's steps, with its operation.
LEMMA Inside ==
  ASSUME TypeOK, NEW u \in Users, call[u].at \in Steps
  PROVE  /\ call[u] \in [op : Operations, at : Steps, id : Ids \cup {None}]
         /\ \A to \in Steps : [call[u] EXCEPT !.at = to] =
                              [op |-> call[u].op, at |-> to, id |-> call[u].id]
<1>1. call[u] \in {Idle} \cup [op : Operations, at : Steps, id : Ids \cup {None}]
  BY DEF TypeOK
<1>2. call[u] # Idle
  BY DEF Idle, Steps
<1> QED
  BY <1>1, <1>2

LEMMA ProceedShape ==
  ASSUME TypeOK, CallInv, BoundInv, NEW u \in Users, NEW from \in Steps,
         NEW to \in Steps \cup {"none"}, Proceed(u, from, to), nextId' = nextId,
         to # "none" => CallAllows([op |-> call[u].op, at |-> to, id |-> call[u].id])
  PROVE  call' \in [Users -> Calls] /\ CallInv' /\ BoundInv'
<1> DEFINE next == [op |-> call[u].op, at |-> to, id |-> call[u].id]
<1>1. call[u].at = from /\ call[u] \in [op : Operations, at : Steps, id : Ids \cup {None}]
  BY Inside DEF Proceed
<1>2. CASE to = "none"
  <2>1. call' = [call EXCEPT ![u] = Idle] /\ Idle \in Calls /\ Idle.op # "call"
    BY <1>2 DEF Proceed, Calls, Idle
  <2> QED
    BY <2>1, OneCallMoves
<1>3. CASE to # "none"
  <2>1. call' = [call EXCEPT ![u] = next] /\ next \in Calls
    BY <1>1, <1>3, Inside DEF Proceed, Calls
  <2>2. next.op = "call" /\ next.id = None => u \in Callers
    BY DEF Callers
  <2>3. CallAllows(next)
    BY <1>3
  <2> HIDE DEF next
  <2> QED
    BY <2>1, <2>2, <2>3, OneCallMoves
<1> QED
  BY <1>2, <1>3

LEMMA ShapeOfBegin ==
  ASSUME Shape, NEW u \in Users, NEW op \in Operations, Begin(u, op)
  PROVE  Shape'
<1> DEFINE c == [op |-> op, at |-> "pointer", id |-> None]
<1> USE DEF Shape
<1>1. /\ call' = [call EXCEPT ![u] = c] /\ c \in Calls /\ CallAllows(c)
      /\ call[u] = Idle
      /\ UNCHANGED <<session, sessionVars, tasks, netVars, callVars, crashed>>
  BY DEF Begin, Calls, CallAllows, Steps
<1>2. call' \in [Users -> Calls] /\ CallInv' /\ BoundInv'
  <2>1. CASE op # "call"
    BY <1>1, <2>1, OneCallMoves DEF callVars
  <2>2. CASE op = "call"
    <3>1. call \in [Users -> Calls]
      BY DEF TypeOK, Calls
    <3>2. CallInv'
      BY <1>1, <3>1, <2>2 DEF CallInv
    <3>3. Callers' = Callers \cup {u}
      BY <1>1, <3>1, <2>2 DEF Callers
    <3>4. nextId + Cardinality(Callers) \in Ids /\ nextId' = nextId
      BY <1>1, <2>2 DEF Begin, Callers, callVars
    <3>5. /\ IsFiniteSet(Callers') /\ Cardinality(Callers) \in Nat
          /\ Cardinality(Callers') <= Cardinality(Callers) + 1
      <4>1. IsFiniteSet(Callers) /\ Cardinality(Callers) \in Nat
        BY FS_CardinalityType DEF BoundInv
      <4>2. /\ IsFiniteSet(Callers \cup {u})
            /\ Cardinality(Callers \cup {u}) =
                 IF u \in Callers THEN Cardinality(Callers) ELSE Cardinality(Callers) + 1
        BY <4>1, FS_AddElement
      <4> QED
        BY <3>3, <4>1, <4>2
    <3>6. Cardinality(Callers') \in Nat
      BY <3>5, FS_CardinalityType
    <3>7. BoundInv'
      BY <3>4, <3>5, <3>6, BoundsAssumption DEF BoundInv, Ids, TypeOK
    <3> QED
      BY <1>1, <3>1, <3>2, <3>7
  <2> QED
    BY <2>1, <2>2
<1>3. TypeOK'
  BY <1>1, <1>2 DEF TypeOK, Calls, sessionVars, netVars, callVars
<1> QED
  BY <1>1, <1>2, <1>3 DEF MadeInv, sessionVars

LEMMA ShapeOfStep ==
  ASSUME Shape, NEW u \in Users, Step(u)
  PROVE  Shape'
<1> USE DEF Shape
<1>0. call[u].at \in Steps => /\ call[u].op \in Operations /\ call[u].id \in Ids \cup {None}
                              /\ call[u].op \in {"connect", "close", "call", "notify"}
  BY Inside DEF Operations
<1>1. CASE ReadPointer(u)
  <2>1. PICK to \in {"use", "open", "make", "none"} :
          /\ Proceed(u, "pointer", to)
          /\ to = "use" => call[u].op = "close"
          /\ to = "open" => call[u].op # "close"
    BY <1>1 DEF ReadPointer
  <2>2. call[u].id = None
    BY <2>1 DEF Proceed, CallInv
  <2>3. to # "none" => CallAllows([op |-> call[u].op, at |-> to, id |-> call[u].id])
    BY <2>1, <2>2 DEF CallAllows
  <2>4. UNCHANGED <<session, sessionVars, tasks, netVars, callVars, crashed>>
    BY <1>1 DEF ReadPointer
  <2>5. call' \in [Users -> Calls] /\ CallInv' /\ BoundInv'
    BY <2>1, <2>3, <2>4, ProceedShape DEF callVars, Steps
  <2> QED
    BY <2>4, <2>5 DEF TypeOK, MadeInv, Calls, sessionVars, netVars, callVars
<1>2. CASE ReadOpen(u)
  <2>1. PICK to \in {"insert", "use", "make", "none"} :
          /\ Proceed(u, "open", to)
          /\ to = "insert" => call[u].op = "call"
          /\ to = "use" => call[u].op = "notify"
    BY <1>2 DEF ReadOpen
  <2>2. call[u].id = None
    BY <2>1 DEF Proceed, CallInv
  <2>3. to # "none" => CallAllows([op |-> call[u].op, at |-> to, id |-> call[u].id])
    BY <2>1, <2>2 DEF CallAllows
  <2>4. UNCHANGED <<session, sessionVars, tasks, netVars, callVars>>
    BY <1>2 DEF ReadOpen
  <2>5. call' \in [Users -> Calls] /\ CallInv' /\ BoundInv'
    BY <2>1, <2>3, <2>4, ProceedShape DEF callVars, Steps
  <2>6. crashed' \in BOOLEAN
    BY <1>2, Zenon DEF ReadOpen
  <2> QED
    BY <2>4, <2>5, <2>6 DEF TypeOK, MadeInv, Calls, sessionVars, netVars, callVars
<1>3. CASE Make(u)
  <2>1. Proceed(u, "make", "none") /\ UNCHANGED <<closing, tasks, netVars, callVars, crashed>>
    BY <1>3 DEF Make
  <2>2. call' \in [Users -> Calls] /\ CallInv' /\ BoundInv'
    BY <2>1, ProceedShape DEF callVars, Steps
  <2>3. /\ session' \in 0..made' /\ made' \in 0..MaxSessions
        /\ open' \in [Sessions -> BOOLEAN] /\ watched' \in [Sessions -> BOOLEAN]
        /\ closing # None => ~open'[closing]
        /\ MadeInv'
    <3>1. CASE UNCHANGED <<session, made, open, watched>>
      BY <2>1, <3>1 DEF TypeOK, MadeInv
    <3>2. CASE /\ made < MaxSessions /\ made' = made + 1 /\ session' = made + 1
               /\ open' = [open EXCEPT ![made + 1] = TRUE]
               /\ \E started \in BOOLEAN : watched' = [watched EXCEPT ![made + 1] = started]
      <4>1. made \in Nat /\ MaxSessions \in Nat /\ closing \in Nat /\ closing <= made
        BY BoundsAssumption DEF TypeOK, MadeInv, Sessions, None
      <4>2. session' \in 0..made' /\ made' \in 0..MaxSessions
        BY <3>2, <4>1
      <4>3. /\ open' \in [Sessions -> BOOLEAN]
            /\ \A s \in Sessions : s # made + 1 => open'[s] = open[s]
        BY <3>2 DEF TypeOK
      <4>4. closing # None => ~open'[closing]
        BY <4>1, <4>3 DEF TypeOK
      <4>5. MadeInv'
        BY <2>1, <3>2, <4>1, <4>3 DEF MadeInv, Sessions
      <4>6. watched' \in [Sessions -> BOOLEAN]
        BY <3>2, Zenon DEF TypeOK
      <4> QED
        BY <4>2, <4>3, <4>4, <4>5, <4>6
    <3> QED
      BY <1>3, <3>1, <3>2 DEF Make
  <2> QED
    BY <2>1, <2>2, <2>3 DEF TypeOK, Calls, netVars, callVars
<1>4. CASE Insert(u)
  <2> DEFINE c == [op |-> "call", at |-> "use", id |-> nextId]
  <2>1. call[u].at = "insert" /\ call[u].id = None /\ call[u].op = "call"
    BY <1>4 DEF Insert, CallInv
  <2>2. call \in [Users -> Calls] /\ u \in Callers
    BY <2>1 DEF TypeOK, Calls, Callers
  <2>3. /\ Cardinality(Callers) \in Nat \ {0} /\ IsFiniteSet(Callers \ {u})
        /\ Cardinality(Callers \ {u}) = Cardinality(Callers) - 1
    BY <2>2, FS_CardinalityType, FS_RemoveElement, FS_EmptySet DEF BoundInv
  <2>4. nextId \in Ids /\ nextId # None
    BY <2>3, BoundsAssumption DEF BoundInv, TypeOK, Ids, None
  <2>5. call' = [call EXCEPT ![u] = c]
    BY <1>4 DEF Insert
  <2>6. c \in Calls /\ CallAllows(c)
    BY <2>4 DEF Calls, Steps, Operations, CallAllows
  <2>7. Callers' = Callers \ {u} /\ call' \in [Users -> Calls]
    BY <2>2, <2>4, <2>5, <2>6 DEF Callers
  <2>8. nextId' = nextId + 1 /\ pending' = pending \cup {nextId}
        /\ UNCHANGED <<session, sessionVars, tasks, netVars, answered, crashed>>
    BY <1>4 DEF Insert
  <2>9. BoundInv'
    BY <2>3, <2>7, <2>8, BoundsAssumption DEF BoundInv, TypeOK
  <2>10. CallInv'
    BY <2>2, <2>5, <2>6 DEF CallInv, CallAllows
  <2>11. pending' \subseteq Ids /\ nextId' \in 1..(MaxId + 1)
    BY <2>4, <2>8, BoundsAssumption DEF TypeOK, Ids
  <2> QED
    BY <2>7, <2>8, <2>9, <2>10, <2>11 DEF TypeOK, MadeInv, Calls, sessionVars, netVars
<1>5. CASE Use(u)
  <2>1. Proceed(u, "use", "none")
        /\ UNCHANGED <<session, sessionVars, netVars, nextId, answered>>
    BY <1>5 DEF Use
  <2>2. call' \in [Users -> Calls] /\ CallInv' /\ BoundInv'
    BY <2>1, ProceedShape DEF Steps
  <2>3. crashed' \in BOOLEAN
    BY <1>5, Zenon DEF Use
  <2>4. pending' \subseteq Ids
    BY <1>5 DEF Use, TypeOK
  <2>5. tasks' \in Seq(Tasks)
    <3>1. tasks \in Seq(Tasks) /\ session \in 0..MaxSessions
      BY BoundsAssumption DEF TypeOK, Tasks
    <3>2. call[u].at \in Steps
      BY <2>1 DEF Proceed, Steps
    <3>3. session # None => [op |-> call[u].op, to |-> session, id |-> call[u].id] \in Tasks
      BY <1>0, <3>1, <3>2 DEF Tasks, Sessions, None
    <3> QED
      BY <1>5, <3>1, <3>3, AppendProperties DEF Use
  <2> QED
    BY <2>1, <2>2, <2>3, <2>4, <2>5 DEF TypeOK, MadeInv, Calls, Tasks, sessionVars, netVars
<1> QED
  BY <1>1, <1>2, <1>3, <1>4, <1>5 DEF Step

\* The loop's steps leave every call as it is.
LEMMA CallsKept ==
  ASSUME Shape, UNCHANGED <<call, nextId>>
  PROVE  CallInv' /\ BoundInv'
BY DEF Shape, CallInv, BoundInv, Callers

LEMMA ShutTypes ==
  ASSUME Shape, NEW s \in Sessions, open[s], Shut(s)
  PROVE  /\ open' \in [Sessions -> BOOLEAN] /\ closing' = s /\ s <= made /\ ~open'[s]
         /\ \A r \in Sessions : open'[r] => open[r]
         /\ queue' \in [Sessions -> Seq(Ids \cup {None})] /\ pending' \subseteq Ids
<1>1. open \in [Sessions -> BOOLEAN] /\ queue \in [Sessions -> Seq(Ids \cup {None})]
  BY DEF Shape, TypeOK
<1>2. queue' \in [Sessions -> Seq(Ids \cup {None})]
  BY <1>1, EmptySeq DEF Shut
<1> QED
  BY <1>1, <1>2 DEF Shut, Shape, TypeOK, MadeInv

\* The closure that the loop runs next.
LEMMA NextTask ==
  ASSUME Shape, tasks # <<>>
  PROVE  /\ tasks \in Seq(Tasks) /\ Tail(tasks) \in Seq(Tasks)
         /\ Head(tasks).op \in Operations /\ Head(tasks).to \in Sessions
         /\ Head(tasks).id \in Ids \cup {None}
<1>1. tasks \in Seq(Tasks)
  BY DEF Shape, TypeOK, Tasks
<1>2. Head(tasks) \in Tasks /\ Tail(tasks) \in Seq(Tasks)
  BY <1>1, HeadTailProperties
<1> QED
  BY <1>1, <1>2 DEF Tasks

LEMMA ShapeOfClosing ==
  ASSUME Shape, RunClose \/ CloseHandler \/ \E s \in Sessions : ConnectionEnds(s)
  PROVE  Shape'
<1> USE DEF Shape
<1>1. ASSUME NEW s \in Sessions, open[s], Shut(s), tasks' \in Seq(Tasks),
             UNCHANGED <<session, made, watched, wire, replies, nextId, answered, call, crashed>>
      PROVE  Shape'
  <2>1. /\ open' \in [Sessions -> BOOLEAN] /\ closing' = s /\ s <= made /\ ~open'[s]
        /\ \A r \in Sessions : open'[r] => open[r]
        /\ queue' \in [Sessions -> Seq(Ids \cup {None})] /\ pending' \subseteq Ids
    BY <1>1, ShutTypes
  <2>2. CallInv' /\ BoundInv'
    BY <1>1, CallsKept
  <2> QED
    BY <1>1, <2>1, <2>2 DEF TypeOK, Tasks, MadeInv
<1>2. CASE RunClose
  <2>1. tasks' \in Seq(Tasks) /\ Head(tasks).to \in Sessions
    BY <1>2, NextTask DEF RunClose
  <2>2. UNCHANGED <<session, made, watched, wire, replies, nextId, answered, call, crashed>>
    BY <1>2 DEF RunClose
  <2>3. CASE open[Head(tasks).to]
    BY <1>1, <1>2, <2>1, <2>2, <2>3 DEF RunClose
  <2>4. CASE UNCHANGED <<open, closing, pending, queue>>
    BY <2>1, <2>2, <2>4, CallsKept DEF TypeOK, Tasks, MadeInv
  <2> QED
    BY <1>2, <2>3, <2>4 DEF RunClose
<1>3. CASE CloseHandler
  <2>1. CallInv' /\ BoundInv'
    BY <1>3, CallsKept DEF CloseHandler, callVars
  <2> QED
    BY <1>3, <2>1 DEF CloseHandler, TypeOK, MadeInv, netVars, None
<1>4. ASSUME NEW s \in Sessions, ConnectionEnds(s) PROVE Shape'
  BY <1>1, <1>4 DEF ConnectionEnds, TypeOK, Tasks
<1> QED
  BY <1>2, <1>3, <1>4

LEMMA ShapeOfNetwork ==
  ASSUME Shape, \/ RunSend
                \/ \E s \in Sessions : Write(s) \/ Dispatch(s)
                \/ \E s \in Sessions, id \in Ids : Reply(s, id)
  PROVE  Shape'
<1> USE DEF Shape
<1> DEFINE Rest == UNCHANGED <<session, sessionVars, nextId, call, crashed>>
<1>1. ASSUME Rest, tasks' \in Seq(Tasks), queue' \in [Sessions -> Seq(Ids \cup {None})],
             wire' \in [Sessions -> SUBSET Ids], replies' \in [Sessions -> Seq(Ids)],
             pending' \subseteq Ids, answered' \in [Ids -> Nat]
      PROVE  Shape'
  <2>1. CallInv' /\ BoundInv'
    BY <1>1, CallsKept
  <2> QED
    BY <1>1, <2>1 DEF TypeOK, Tasks, MadeInv, sessionVars
<1>2. /\ tasks \in Seq(Tasks) /\ queue \in [Sessions -> Seq(Ids \cup {None})]
      /\ wire \in [Sessions -> SUBSET Ids] /\ replies \in [Sessions -> Seq(Ids)]
      /\ pending \subseteq Ids /\ answered \in [Ids -> Nat]
  BY DEF TypeOK, Tasks
<1>3. CASE RunSend
  <2>1. tasks' \in Seq(Tasks) /\ Head(tasks).to \in Sessions /\ Head(tasks).id \in Ids \cup {None}
    BY <1>3, NextTask DEF RunSend
  <2>2. queue' \in [Sessions -> Seq(Ids \cup {None})] /\ pending' \subseteq Ids
    <3>1. Append(queue[Head(tasks).to], Head(tasks).id) \in Seq(Ids \cup {None})
      BY <1>2, <2>1, AppendProperties
    <3> QED
      BY <1>2, <1>3, <2>1, <3>1 DEF RunSend
  <2>3. Rest /\ UNCHANGED <<wire, replies, answered>>
    BY <1>3 DEF RunSend
  <2> QED
    BY <1>1, <1>2, <2>1, <2>2, <2>3
<1>4. ASSUME NEW s \in Sessions, Write(s) PROVE Shape'
  <2>1. Head(queue[s]) \in Ids \cup {None} /\ Tail(queue[s]) \in Seq(Ids \cup {None})
    BY <1>2, <1>4, HeadTailProperties DEF Write
  <2>2. queue' \in [Sessions -> Seq(Ids \cup {None})] /\ wire' \in [Sessions -> SUBSET Ids]
    BY <1>2, <1>4, <2>1 DEF Write
  <2>3. Rest /\ UNCHANGED <<tasks, replies, pending, answered>>
    BY <1>4 DEF Write, callVars
  <2> QED
    BY <1>1, <1>2, <2>2, <2>3
<1>5. ASSUME NEW s \in Sessions, Dispatch(s) PROVE Shape'
  <2>1. Head(replies[s]) \in Ids /\ Tail(replies[s]) \in Seq(Ids)
    BY <1>2, <1>5, HeadTailProperties DEF Dispatch
  <2>2. /\ replies' \in [Sessions -> Seq(Ids)] /\ answered' \in [Ids -> Nat]
        /\ pending' \subseteq Ids
    BY <1>2, <1>5, <2>1 DEF Dispatch
  <2>3. Rest /\ UNCHANGED <<tasks, queue, wire>>
    BY <1>5 DEF Dispatch
  <2> QED
    BY <1>1, <1>2, <2>2, <2>3
<1>6. ASSUME NEW s \in Sessions, NEW id \in Ids, Reply(s, id) PROVE Shape'
  <2>1. replies' \in [Sessions -> Seq(Ids)]
    BY <1>2, <1>6, AppendProperties DEF Reply
  <2>2. Rest /\ UNCHANGED <<tasks, queue, wire, pending, answered>>
    BY <1>6 DEF Reply, callVars
  <2> QED
    BY <1>1, <1>2, <2>1, <2>2
<1> QED
  BY <1>3, <1>4, <1>5, <1>6

LEMMA ShapeStep == Shape /\ [Next]_vars => Shape'
<1> SUFFICES ASSUME Shape, [Next]_vars PROVE Shape'
  OBVIOUS
<1>1. CASE UNCHANGED vars
  BY <1>1, CallsKept DEF vars, sessionVars, netVars, callVars, Shape, TypeOK, MadeInv
<1> QED
  BY <1>1, ShapeOfBegin, ShapeOfStep, ShapeOfClosing, ShapeOfNetwork DEF Next

LEMMA ShapeHolds == Spec => []Shape
<1> QED
  BY ShapeInit, ShapeStep, PTL DEF Spec

\* Every variable of the client keeps its type; in particular next_request_id_ stays
\* within its bound, for every number of threads that call at the same time.
THEOREM TypeInvariant == Spec => []TypeOK
<1>1. Shape => TypeOK
  BY DEF Shape
<1> QED
  BY <1>1, ShapeHolds, PTL
-----------------------------------------------------------------------------
(* A handler in pending_ has not been called: Dispatch() takes it out as it *)
(* calls it, and next_request_id_ only grows.                               *)

FreshInv ==
  /\ \A id \in Ids : id >= nextId => answered[id] = 0
  /\ \A id \in pending : id < nextId /\ answered[id] = 0

LEMMA FreshInit == Init => FreshInv /\ AnsweredOnce
BY DEF Init, FreshInv, AnsweredOnce

LEMMA FreshStep ==
  ASSUME Shape, FreshInv, AnsweredOnce, [Next]_vars
  PROVE  FreshInv' /\ AnsweredOnce'
<1>0. /\ pending \subseteq Ids /\ nextId \in 1..(MaxId + 1) /\ answered \in [Ids -> Nat]
      /\ replies \in [Sessions -> Seq(Ids)] /\ MaxId \in Nat
  BY BoundsAssumption DEF Shape, TypeOK
<1>1. ASSUME nextId' = nextId, answered' = answered, pending' \subseteq pending
      PROVE  FreshInv' /\ AnsweredOnce'
  BY <1>1 DEF FreshInv, AnsweredOnce
<1>2. ASSUME NEW u \in Users, Insert(u) PROVE FreshInv' /\ AnsweredOnce'
  <2>1. nextId' = nextId + 1 /\ pending' = pending \cup {nextId} /\ answered' = answered
    BY <1>2 DEF Insert
  <2>2. pending' \subseteq Ids
    BY ShapeStep DEF Shape, TypeOK
  <2> QED
    BY <1>0, <2>1, <2>2 DEF FreshInv, AnsweredOnce, Ids
<1>3. ASSUME NEW s \in Sessions, Dispatch(s) PROVE FreshInv' /\ AnsweredOnce'
  <2> DEFINE id == Head(replies[s])
  <2>1. id \in Ids
    BY <1>0, <1>3, HeadTailProperties DEF Dispatch
  <2>2. /\ answered' = [answered EXCEPT ![id] = @ + (IF id \in pending THEN 1 ELSE 0)]
        /\ pending' = pending \ {id} /\ nextId' = nextId
    BY <1>3 DEF Dispatch
  <2> HIDE DEF id
  <2>3. CASE id \in pending
    <3>1. answered[id] = 0 /\ id < nextId
      BY <2>3 DEF FreshInv
    <3>2. answered'[id] = 1 /\ \A other \in Ids : other # id => answered'[other] = answered[other]
      BY <1>0, <2>1, <2>2, <2>3, <3>1
    <3>3. FreshInv'
      BY <1>0, <2>1, <2>2, <3>1, <3>2 DEF FreshInv, Ids
    <3> QED
      BY <3>2, <3>3 DEF AnsweredOnce
  <2>4. CASE id \notin pending
    BY <1>0, <2>1, <2>2, <2>4 DEF FreshInv, AnsweredOnce
  <2> QED
    BY <2>3, <2>4
<1>4. CASE \E u \in Users : Step(u) /\ ~Insert(u)
  <2>1. /\ nextId' = nextId /\ answered' = answered
        /\ pending' \subseteq pending
    BY <1>4 DEF Step, ReadPointer, ReadOpen, Make, Use, callVars
  <2> QED
    BY <1>1, <2>1
<1>5. CASE \/ \E u \in Users, op \in Operations : Begin(u, op)
           \/ RunSend \/ RunClose \/ CloseHandler \/ UNCHANGED vars
           \/ \E s \in Sessions : Write(s) \/ ConnectionEnds(s)
           \/ \E s \in Sessions, id \in Ids : Reply(s, id)
  <2>1. CASE RunSend \/ RunClose \/ CloseHandler
    BY <1>1, <2>1 DEF RunSend, RunClose, CloseHandler, Shut
  <2>2. ASSUME NEW s \in Sessions, Write(s) \/ ConnectionEnds(s)
        PROVE  FreshInv' /\ AnsweredOnce'
    BY <1>1, <2>2 DEF Write, ConnectionEnds, Shut, callVars
  <2>3. CASE UNCHANGED vars \/ \E u \in Users, op \in Operations : Begin(u, op)
    BY <1>1, <2>3 DEF Begin, vars, callVars
  <2>4. CASE \E s \in Sessions, id \in Ids : Reply(s, id)
    BY <1>1, <2>4 DEF Reply, callVars
  <2> QED
    BY <1>5, <2>1, <2>2, <2>3, <2>4
<1> QED
  BY <1>2, <1>3, <1>4, <1>5 DEF Next

LEMMA FreshHolds == Spec => [](Shape /\ FreshInv /\ AnsweredOnce)
<1>1. Shape /\ FreshInv /\ AnsweredOnce /\ [Next]_vars => (Shape /\ FreshInv /\ AnsweredOnce)'
  BY ShapeStep, FreshStep
<1> QED
  BY ShapeInit, FreshInit, <1>1, PTL DEF Spec

\* However often the server answers a request, and whatever the threads do meanwhile,
\* dispatch_message() calls the request's ResponseHandler at most once.
THEOREM EachAnsweredOnce == Spec => []AnsweredOnce
BY FreshHolds, PTL
-----------------------------------------------------------------------------
(* A request passes from call_async() to the loop's queue, to write_queue_  *)
(* and to the wire.                                                         *)

IdsOf(s) == [i \in 1..Len(s) |-> s[i].id]
TaskIds == IdsOf(tasks)
CloseTasks == \A t \in Elements(tasks) : t.op = "close" => t.id = None

LEMMA IdsOfType ==
  ASSUME NEW s \in Seq(Tasks)
  PROVE  /\ IdsOf(s) \in Seq(Ids \cup {None}) /\ Len(IdsOf(s)) = Len(s) /\ Len(s) \in Nat
         /\ \A i \in 1..Len(s) : IdsOf(s)[i] = s[i].id
<1>1. \A i \in 1..Len(s) : s[i] \in Tasks
  BY ElementOfSeq
<1>2. IdsOf(s) \in [1..Len(s) -> Ids \cup {None}]
  BY <1>1 DEF IdsOf, Tasks
<1>3. Len(s) \in Nat
  BY LenProperties
<1> QED
  BY <1>2, <1>3, SeqDef, LenProperties DEF IdsOf

LEMMA IdsOfEmpty == IdsOf(<<>>) = <<>>
<1>1. <<>> \in Seq(Tasks) /\ Len(<<>>) = 0
  BY EmptySeq
<1>2. IdsOf(<<>>) \in Seq(Ids \cup {None}) /\ Len(IdsOf(<<>>)) = 0
  BY <1>1, IdsOfType
<1> QED
  BY <1>2, EmptySeq

\* Use() posts a closure.
LEMMA IdsOfAppend ==
  ASSUME NEW s \in Seq(Tasks), NEW t \in Tasks
  PROVE  IdsOf(Append(s, t)) = Append(IdsOf(s), t.id)
<1>1. Append(s, t) \in Seq(Tasks) /\ t.id \in Ids \cup {None}
  BY AppendProperties DEF Tasks
<1>2. /\ Len(Append(s, t)) = Len(s) + 1 /\ Len(s) \in Nat
      /\ \A i \in 1..Len(s) : Append(s, t)[i] = s[i]
      /\ Append(s, t)[Len(s) + 1] = t
  BY AppendProperties, LenProperties
<1>3. /\ IdsOf(s) \in Seq(Ids \cup {None}) /\ Len(IdsOf(s)) = Len(s)
      /\ \A i \in 1..Len(s) : IdsOf(s)[i] = s[i].id
  BY IdsOfType
<1>4. /\ Append(IdsOf(s), t.id) \in Seq(Ids \cup {None})
      /\ Len(Append(IdsOf(s), t.id)) = Len(s) + 1
      /\ \A i \in 1..Len(s) : Append(IdsOf(s), t.id)[i] = IdsOf(s)[i]
      /\ Append(IdsOf(s), t.id)[Len(s) + 1] = t.id
  BY <1>1, <1>3, AppendProperties
<1>5. /\ IdsOf(Append(s, t)) \in Seq(Ids \cup {None}) /\ Len(IdsOf(Append(s, t))) = Len(s) + 1
      /\ \A i \in 1..(Len(s) + 1) : IdsOf(Append(s, t))[i] = Append(s, t)[i].id
  BY <1>1, <1>2, IdsOfType
<1>6. \A i \in 1..(Len(s) + 1) : IdsOf(Append(s, t))[i] = Append(IdsOf(s), t.id)[i]
  <2> SUFFICES ASSUME NEW i \in 1..(Len(s) + 1)
               PROVE  IdsOf(Append(s, t))[i] = Append(IdsOf(s), t.id)[i]
    OBVIOUS
  <2>1. CASE i = Len(s) + 1
    <3>1. IdsOf(Append(s, t))[i] = Append(s, t)[i].id
      BY <1>5
    <3>2. Append(s, t)[i] = t /\ Append(IdsOf(s), t.id)[i] = t.id
      BY <1>2, <1>4, <2>1
    <3> QED
      BY <3>1, <3>2
  <2>2. CASE i \in 1..Len(s)
    <3>1. IdsOf(Append(s, t))[i] = Append(s, t)[i].id
      BY <1>5
    <3>2. Append(s, t)[i] = s[i] /\ Append(IdsOf(s), t.id)[i] = IdsOf(s)[i]
      BY <1>2, <1>4, <2>2
    <3>3. IdsOf(s)[i] = s[i].id
      BY <1>3, <2>2
    <3> QED
      BY <3>1, <3>2, <3>3
  <2>3. i = Len(s) + 1 \/ i \in 1..Len(s)
    <3>1. Len(s) \in Nat
      BY <1>2
    <3> QED
      BY <3>1
  <2> QED
    BY <2>1, <2>2, <2>3
<1> QED
  BY <1>4, <1>5, <1>6, SeqEqual

\* The loop takes the first closure.
LEMMA IdsOfTail ==
  ASSUME NEW s \in Seq(Tasks), s # <<>>
  PROVE  IdsOf(s) # <<>> /\ IdsOf(Tail(s)) = Tail(IdsOf(s)) /\ Head(s).id = Head(IdsOf(s))
<1>1. /\ Len(s) \in Nat \ {0} /\ Len(Tail(s)) = Len(s) - 1 /\ Head(s) = s[1]
      /\ \A i \in 1..Len(Tail(s)) : Tail(s)[i] = s[i + 1]
      /\ Tail(s) \in Seq(Tasks)
  BY HeadTailProperties, LenProperties, EmptySeq
<1>2. /\ IdsOf(s) \in Seq(Ids \cup {None}) /\ Len(IdsOf(s)) = Len(s)
      /\ \A i \in 1..Len(s) : IdsOf(s)[i] = s[i].id
  BY IdsOfType
<1>3. IdsOf(s) # <<>>
  BY <1>1, <1>2, EmptySeq
<1>4. /\ Tail(IdsOf(s)) \in Seq(Ids \cup {None}) /\ Len(Tail(IdsOf(s))) = Len(Tail(s))
      /\ \A i \in 1..Len(Tail(s)) : Tail(IdsOf(s))[i] = IdsOf(s)[i + 1]
      /\ Head(IdsOf(s)) = IdsOf(s)[1]
  BY <1>1, <1>2, <1>3, HeadTailProperties
<1>5. /\ IdsOf(Tail(s)) \in Seq(Ids \cup {None}) /\ Len(IdsOf(Tail(s))) = Len(Tail(s))
      /\ \A i \in 1..Len(Tail(s)) : IdsOf(Tail(s))[i] = Tail(s)[i].id
  BY <1>1, IdsOfType
<1>6. \A i \in 1..Len(Tail(s)) : IdsOf(Tail(s))[i] = Tail(IdsOf(s))[i]
  <2>1. \A i \in 1..Len(Tail(s)) : i + 1 \in 1..Len(s)
    BY <1>1
  <2> QED
    BY <1>1, <1>2, <1>4, <1>5, <2>1
<1>7. IdsOf(Tail(s)) = Tail(IdsOf(s))
  BY <1>4, <1>5, <1>6, SeqEqual
<1>8. Head(s).id = Head(IdsOf(s))
  BY <1>1, <1>2, <1>4
<1> QED
  BY <1>3, <1>7, <1>8

\* The closure of a close() carries no id.
LEMMA CloseTasksStep == Shape /\ CloseTasks /\ [Next]_vars => CloseTasks'
<1> SUFFICES ASSUME Shape, CloseTasks, [Next]_vars PROVE CloseTasks'
  OBVIOUS
<1>1. CASE UNCHANGED tasks
  BY <1>1 DEF CloseTasks
<1>2. CASE tasks # <<>> /\ tasks' = Tail(tasks)
  BY <1>2, NextTask, ElementsOfTail DEF CloseTasks
<1>3. ASSUME NEW u \in Users, Use(u), tasks' # tasks PROVE CloseTasks'
  <2> DEFINE t == [op |-> call[u].op, to |-> session, id |-> call[u].id]
  <2>1. session # None /\ tasks' = Append(tasks, t) /\ call[u].at = "use"
    BY <1>3 DEF Use, Proceed
  <2>2. call[u] \in [op : Operations, at : Steps, id : Ids \cup {None}]
    BY <2>1, Inside DEF Shape, Steps
  <2>5. session \in Sessions
    BY <2>1, BoundsAssumption DEF Shape, TypeOK, Sessions, None
  <2>3. t \in Tasks /\ (t.op = "close" => t.id = None)
    BY <2>1, <2>2, <2>5 DEF Shape, CallInv, Tasks
  <2>6. tasks \in Seq(Tasks)
    BY DEF Shape, TypeOK, Tasks
  <2> HIDE DEF t
  <2>4. Elements(tasks') = Elements(tasks) \cup {t}
    BY <2>1, <2>3, <2>6, ElementsOfAppend
  <2> QED
    BY <2>3, <2>4 DEF CloseTasks
<1>4. ASSUME NEW u \in Users, Step(u), ~Use(u) PROVE UNCHANGED tasks
  BY <1>4 DEF Step, ReadPointer, ReadOpen, Make, Insert
<1>5. CASE \/ \E u \in Users, op \in Operations : Begin(u, op)
           \/ CloseHandler \/ UNCHANGED vars
           \/ \E s \in Sessions : Write(s) \/ ConnectionEnds(s) \/ Dispatch(s)
           \/ \E s \in Sessions, id \in Ids : Reply(s, id)
  BY <1>1, <1>5 DEF Begin, CloseHandler, Write, ConnectionEnds, Dispatch, Reply, vars
<1>6. CASE RunSend \/ RunClose
  BY <1>2, <1>6 DEF RunSend, RunClose
<1> QED
  BY <1>1, <1>3, <1>4, <1>5, <1>6 DEF Next, Step

\* What the ids in the loop's queue are after a step of it.
LEMMA PostedIds ==
  ASSUME Shape, NEW u \in Users, Use(u), session # None, tasks' # tasks
  PROVE  /\ Elements(TaskIds') = Elements(TaskIds) \cup {call[u].id}
         /\ TaskIds' = Append(TaskIds, call[u].id) /\ TaskIds \in Seq(Ids \cup {None})
         /\ call[u].id \in Ids \cup {None} /\ pending' = pending
<1> DEFINE t == [op |-> call[u].op, to |-> session, id |-> call[u].id]
<1>1. tasks' = Append(tasks, t) /\ call[u].at \in Steps /\ pending' = pending
  BY DEF Use, Proceed, Steps
<1>2. call[u] \in [op : Operations, at : Steps, id : Ids \cup {None}]
  BY <1>1, Inside DEF Shape
<1>3. session \in Sessions /\ tasks \in Seq(Tasks)
  BY BoundsAssumption DEF Shape, TypeOK, Sessions, None, Tasks
<1>4. t \in Tasks /\ t.id = call[u].id /\ call[u].id \in Ids \cup {None}
  BY <1>2, <1>3 DEF Tasks
<1> HIDE DEF t
<1>5. IdsOf(tasks') = Append(IdsOf(tasks), call[u].id)
  BY <1>1, <1>3, <1>4, IdsOfAppend
<1>6. IdsOf(tasks) \in Seq(Ids \cup {None})
  BY <1>3, IdsOfType
<1>7. Elements(Append(IdsOf(tasks), call[u].id)) = Elements(IdsOf(tasks)) \cup {call[u].id}
  BY <1>4, <1>6, ElementsOfAppend
<1> QED
  BY <1>1, <1>4, <1>5, <1>6, <1>7 DEF TaskIds

LEMMA TakenIds ==
  ASSUME Shape, tasks # <<>>, tasks' = Tail(tasks)
  PROVE  /\ Elements(TaskIds) = Elements(TaskIds') \cup {Head(tasks).id}
         /\ TaskIds # <<>> /\ TaskIds' = Tail(TaskIds) /\ TaskIds \in Seq(Ids \cup {None})
         /\ Head(tasks).id = Head(TaskIds)
<1>1. tasks \in Seq(Tasks)
  BY DEF Shape, TypeOK, Tasks
<1>2. /\ IdsOf(tasks) # <<>> /\ IdsOf(tasks') = Tail(IdsOf(tasks))
      /\ Head(tasks).id = Head(IdsOf(tasks)) /\ IdsOf(tasks) \in Seq(Ids \cup {None})
  BY <1>1, IdsOfTail, IdsOfType
<1>3. Elements(IdsOf(tasks)) = Elements(Tail(IdsOf(tasks))) \cup {Head(IdsOf(tasks))}
  BY <1>2, ElementsOfTail
<1> QED
  BY <1>2, <1>3 DEF TaskIds
-----------------------------------------------------------------------------
(* Every handler in pending_ has a place where its call still waits.        *)

WaitsIn(s, id) == \/ id \in Elements(queue[s])
                  \/ id \in wire[s] /\ (open[s] \/ closing = s)
Waits(id) == \/ \E u \in Users : call[u].id = id
             \/ id \in Elements(TaskIds)
             \/ \E s \in Sessions : WaitsIn(s, id)
AllWait == \A id \in pending : crashed \/ Waits(id)

LEMMA TaskIdsElements == TypeOK => Elements(TaskIds) = {t.id : t \in Elements(tasks)}
<1> SUFFICES ASSUME TypeOK PROVE Elements(TaskIds) = {t.id : t \in Elements(tasks)}
  OBVIOUS
<1>1. tasks \in Seq(Tasks)
  BY DEF TypeOK, Tasks
<1>2. Len(IdsOf(tasks)) = Len(tasks) /\ \A i \in 1..Len(tasks) : IdsOf(tasks)[i] = tasks[i].id
  BY <1>1, IdsOfType
<1>3. DOMAIN IdsOf(tasks) = 1..Len(tasks)
  BY DEF IdsOf
<1>4. {IdsOf(tasks)[i] : i \in 1..Len(tasks)} = {t.id : t \in {tasks[i] : i \in 1..Len(tasks)}}
  BY <1>2
<1> QED
  BY <1>2, <1>4 DEF Elements, TaskIds

LEMMA AllWaitIsNoOrphan == TypeOK => (AllWait <=> NoOrphan)
<1> SUFFICES ASSUME TypeOK PROVE AllWait <=> NoOrphan
  OBVIOUS
<1>1. ASSUME NEW id
      PROVE  id \in Elements(TaskIds) <=> \E t \in Elements(tasks) : t.id = id
  BY TaskIdsElements
<1>2. ASSUME NEW id \in pending
      PROVE  crashed \/ Waits(id) <=>
               \/ crashed
               \/ \E u \in Users : call[u].id = id
               \/ \E t \in Elements(tasks) : t.id = id
               \/ \E s \in Sessions : \/ id \in Elements(queue[s])
                                      \/ id \in wire[s] /\ (open[s] \/ closing = s)
  BY <1>1, Zenon DEF Waits, WaitsIn
<1> QED
  BY <1>2, Zenon DEF AllWait, NoOrphan

LEMMA AllWaitOfStep ==
  ASSUME Shape, AllWait, NEW u \in Users, Step(u)
  PROVE  AllWait'
<1>0. call \in [Users -> Calls] /\ 0 \notin pending /\ pending \subseteq Ids
  BY DEF Shape, TypeOK, Calls, Ids
<1>1. ASSUME pending' \subseteq pending, crashed => crashed', Elements(TaskIds') = Elements(TaskIds),
             queue' = queue, wire' = wire, closing' = closing,
             \A s \in Sessions : open[s] => open'[s],
             \A v \in Users : call'[v].id = call[v].id \/ call[v].id = None
      PROVE  AllWait'
  <2> SUFFICES ASSUME NEW id \in pending', ~crashed' PROVE Waits(id)'
    BY DEF AllWait
  <2>1. Waits(id) /\ id # None
    BY <1>0, <1>1 DEF AllWait, None
  <2>2. ASSUME NEW v \in Users, call[v].id = id PROVE call'[v].id = id
    BY <1>1, <2>1, <2>2
  <2>3. ASSUME NEW s \in Sessions, WaitsIn(s, id) PROVE WaitsIn(s, id)'
    BY <1>1, <2>3 DEF WaitsIn
  <2> QED
    BY <1>1, <2>1, <2>2, <2>3 DEF Waits
<1>2. CASE ReadPointer(u) \/ ReadOpen(u) \/ Make(u)
  <2>1. /\ ~crashed /\ call[u].at \in {"pointer", "open", "make"}
        /\ \E c : call' = [call EXCEPT ![u] = c]
    BY <1>2, Zenon DEF ReadPointer, ReadOpen, Make, Proceed
  <2>2. call[u].id = None
    BY <2>1 DEF Shape, CallInv
  <2>3. \A v \in Users : call'[v].id = call[v].id \/ call[v].id = None
    BY <1>0, <2>1, <2>2
  <2>4. UNCHANGED <<pending, tasks, queue, wire, closing>>
    BY <1>2 DEF ReadPointer, ReadOpen, Make, sessionVars, netVars, callVars
  <2>5. \A s \in Sessions : open[s] => open'[s]
    BY <1>2 DEF ReadPointer, ReadOpen, Make, sessionVars, Shape, TypeOK
  <2>6. Elements(TaskIds') = Elements(TaskIds)
    BY <2>4 DEF TaskIds
  <2> QED
    BY <1>1, <2>1, <2>3, <2>4, <2>5, <2>6
<1>3. CASE Insert(u)
  <2>1. /\ ~crashed /\ call' = [call EXCEPT ![u] = [op |-> "call", at |-> "use", id |-> nextId]]
        /\ pending' = pending \cup {nextId} /\ crashed' = crashed
        /\ UNCHANGED <<tasks, queue, wire, open, closing>>
        /\ call[u].at = "insert"
    BY <1>3 DEF Insert, sessionVars, netVars
  <2>2. call[u].id = None
    BY <2>1 DEF Shape, CallInv
  <2> SUFFICES ASSUME NEW id \in pending' PROVE Waits(id)'
    BY DEF AllWait
  <2>3. CASE id = nextId
    <3>1. call'[u].id = id
      BY <1>0, <2>1, <2>3
    <3> QED
      BY <3>1 DEF Waits
  <2>4. CASE id \in pending
    <3>1. Waits(id) /\ id # None
      BY <1>0, <2>1, <2>4 DEF AllWait, None
    <3>2. ASSUME NEW v \in Users, call[v].id = id PROVE call'[v].id = id
      BY <1>0, <2>1, <2>2, <3>1, <3>2
    <3>3. Elements(TaskIds') = Elements(TaskIds)
      BY <2>1 DEF TaskIds
    <3>4. ASSUME NEW s \in Sessions, WaitsIn(s, id) PROVE WaitsIn(s, id)'
      BY <2>1, <3>4 DEF WaitsIn
    <3> QED
      BY <3>1, <3>2, <3>3, <3>4 DEF Waits
  <2> QED
    BY <2>1, <2>3, <2>4
<1>4. CASE Use(u)
  <2> SUFFICES ASSUME NEW id \in pending', ~crashed' PROVE Waits(id)'
    BY DEF AllWait
  <2>1. session # None
    BY <1>4, Zenon DEF Use
  <2>2. /\ ~crashed /\ pending' \subseteq pending /\ call' = [call EXCEPT ![u] = Idle]
        /\ UNCHANGED <<queue, wire, open, closing>>
        /\ call[u].at = "use"
    BY <1>4 DEF Use, Proceed, sessionVars, netVars
  <2>3. /\ Elements(TaskIds) \subseteq Elements(TaskIds')
        /\ id = call[u].id => id \in Elements(TaskIds')
    <3>1. CASE tasks' # tasks
      BY <1>4, <2>1, <3>1, PostedIds
    <3>2. CASE tasks' = tasks
      <4>1. TaskIds' = TaskIds
        BY <3>2 DEF TaskIds
      <4>2. CASE pending' = pending \ {call[u].id}
        BY <4>1, <4>2
      <4>3. CASE tasks' = Append(tasks, [op |-> call[u].op, to |-> session, id |-> call[u].id])
        <5>1. Len(tasks) \in Nat /\ tasks \in Seq(Tasks)
          BY LenProperties DEF Shape, TypeOK, Tasks
        <5>2. Len(tasks') = Len(tasks) + 1
          BY <4>3, <5>1
        <5> QED
          BY <3>2, <5>1, <5>2
      <4> QED
        BY <1>4, <2>1, <4>2, <4>3 DEF Use
    <3> QED
      BY <3>1, <3>2
  <2>4. Waits(id)
    BY <2>2 DEF AllWait
  <2>5. ASSUME NEW v \in Users, call[v].id = id PROVE call'[v].id = id \/ id \in Elements(TaskIds')
    BY <1>0, <2>2, <2>3, <2>5
  <2>6. ASSUME NEW s \in Sessions, WaitsIn(s, id) PROVE WaitsIn(s, id)'
    BY <2>2, <2>6 DEF WaitsIn
  <2> QED
    BY <2>3, <2>4, <2>5, <2>6 DEF Waits
<1> QED
  BY <1>2, <1>3, <1>4 DEF Step

LEMMA AllWaitOfLoop ==
  ASSUME Shape, CloseTasks, AllWait,
         \/ RunSend \/ RunClose \/ CloseHandler
         \/ \E s \in Sessions : Write(s) \/ ConnectionEnds(s)
  PROVE  AllWait'
<1>0. /\ 0 \notin pending /\ pending \subseteq Ids /\ open \in [Sessions -> BOOLEAN]
      /\ queue \in [Sessions -> Seq(Ids \cup {None})] /\ wire \in [Sessions -> SUBSET Ids]
  BY DEF Shape, TypeOK, Ids
<1>1. ASSUME NEW s \in Sessions, open[s], Shut(s), call' = call, wire' = wire, closing = None,
             \A id \in Elements(TaskIds) : id = None \/ id \in Elements(TaskIds'), ~crashed
      PROVE  AllWait'
  <2> SUFFICES ASSUME NEW id \in pending' PROVE Waits(id)'
    BY DEF AllWait
  <2>1. id \notin Elements(queue[s]) /\ id \in pending /\ id # None
    BY <1>0, <1>1 DEF Shut, None
  <2>2. Waits(id)
    BY <1>1, <2>1 DEF AllWait
  <2>3. ASSUME NEW r \in Sessions, WaitsIn(r, id) PROVE WaitsIn(r, id)'
    <3>1. CASE r = s
      BY <1>0, <1>1, <2>1, <2>3, <3>1 DEF WaitsIn, Shut
    <3>2. CASE r # s
      <4>1. queue'[r] = queue[r] /\ open'[r] = open[r]
        BY <1>0, <1>1, <3>2 DEF Shut
      <4> QED
        BY <1>1, <2>3, <4>1 DEF WaitsIn, Sessions, None
    <3> QED
      BY <3>1, <3>2
  <2> QED
    BY <1>1, <2>1, <2>2, <2>3 DEF Waits
<1>2. CASE RunSend
  <2>1. /\ tasks # <<>> /\ tasks' = Tail(tasks) /\ ~crashed
        /\ UNCHANGED <<call, wire, open, closing>>
    BY <1>2 DEF RunSend, LoopFree, sessionVars
  <2>2. /\ Elements(TaskIds) = Elements(TaskIds') \cup {Head(tasks).id}
        /\ Head(tasks).to \in Sessions /\ Head(tasks).id \in Ids \cup {None}
    BY <2>1, TakenIds, NextTask
  <2> SUFFICES ASSUME NEW id \in pending' PROVE Waits(id)'
    BY DEF AllWait
  <2>3. CASE open[Head(tasks).to]
    <3>0. PICK to \in Sessions, new \in Ids \cup {None} :
            to = Head(tasks).to /\ new = Head(tasks).id
      BY <2>2
    <3>1. /\ queue' = [queue EXCEPT ![to] = Append(@, new)]
          /\ pending' = pending
      BY <1>2, <2>3, <3>0 DEF RunSend
    <3>6. Elements(TaskIds) = Elements(TaskIds') \cup {new}
      BY <2>2, <3>0
    <3>7. queue[to] \in Seq(Ids \cup {None})
      BY <1>0, <3>0
    <3>2. /\ Elements(queue'[to]) = Elements(queue[to]) \cup {new}
          /\ \A s \in Sessions : s # to => queue'[s] = queue[s]
      BY <1>0, <3>1, <3>7, ElementsOfAppend
    <3>3. Waits(id)
      BY <2>1, <3>1 DEF AllWait
    <3>4. ASSUME NEW s \in Sessions, WaitsIn(s, id) PROVE WaitsIn(s, id)'
      <4>1. Elements(queue[s]) \subseteq Elements(queue'[s])
        BY <3>2
      <4> QED
        BY <2>1, <3>4, <4>1 DEF WaitsIn
    <3>5. id = new => WaitsIn(to, id)'
      BY <3>2 DEF WaitsIn
    <3> QED
      BY <2>1, <3>3, <3>4, <3>5, <3>6 DEF Waits
  <2>4. CASE ~open[Head(tasks).to]
    <3>1. queue' = queue /\ pending' = pending \ {Head(tasks).id}
      BY <1>2, <2>4 DEF RunSend
    <3>2. Waits(id) /\ id # Head(tasks).id
      BY <2>1, <3>1 DEF AllWait
    <3> QED
      BY <2>1, <2>2, <3>1, <3>2 DEF Waits, WaitsIn
  <2> QED
    BY <2>3, <2>4
<1>3. CASE RunClose
  <2>1. /\ tasks # <<>> /\ tasks' = Tail(tasks) /\ ~crashed /\ closing = None
        /\ UNCHANGED <<call, wire>> /\ Head(tasks).op = "close"
    BY <1>3 DEF RunClose, LoopFree
  <2>2. /\ Elements(TaskIds) = Elements(TaskIds') \cup {Head(tasks).id}
        /\ Head(tasks).to \in Sessions /\ Head(tasks).id \in Ids \cup {None}
    BY <2>1, TakenIds, NextTask
  <2>3. Head(tasks).id = None
    <3>1. tasks \in Seq(Tasks)
      BY DEF Shape, TypeOK, Tasks
    <3> QED
      BY <2>1, <3>1, ElementsOfTail DEF CloseTasks
  <2>4. CASE open[Head(tasks).to]
    BY <1>1, <1>3, <2>1, <2>2, <2>3, <2>4 DEF RunClose
  <2>5. CASE ~open[Head(tasks).to]
    <3>1. UNCHANGED <<open, closing, pending, queue>>
      BY <1>3, <2>5 DEF RunClose
    <3> SUFFICES ASSUME NEW id \in pending' PROVE Waits(id)'
      BY DEF AllWait
    <3>2. Waits(id) /\ id # None
      BY <1>0, <2>1, <3>1 DEF AllWait, None
    <3> QED
      BY <2>1, <2>2, <2>3, <3>1, <3>2 DEF Waits, WaitsIn
  <2> QED
    BY <2>4, <2>5
<1>4. CASE CloseHandler
  BY <1>4 DEF CloseHandler, AllWait
<1>5. ASSUME NEW s \in Sessions, Write(s) PROVE AllWait'
  <2>1. /\ open[s] /\ queue[s] # <<>> /\ ~crashed
        /\ queue' = [queue EXCEPT ![s] = Tail(@)]
        /\ wire' = [wire EXCEPT ![s] = @ \cup ({Head(queue[s])} \ {None})]
        /\ UNCHANGED <<open, closing, tasks, pending, call>>
    BY <1>5 DEF Write, LoopFree, sessionVars, callVars
  <2>2. Elements(queue[s]) = Elements(queue'[s]) \cup {Head(queue[s])}
    BY <1>0, <2>1, ElementsOfTail
  <2> SUFFICES ASSUME NEW id \in pending' PROVE Waits(id)'
    BY DEF AllWait
  <2>3. Waits(id) /\ id # None
    BY <1>0, <2>1 DEF AllWait, None
  <2>4. ASSUME NEW r \in Sessions, WaitsIn(r, id) PROVE WaitsIn(r, id)'
    <3>1. CASE r = s
      <4>1. wire'[s] = wire[s] \cup ({Head(queue[s])} \ {None}) /\ open'[s]
        BY <1>0, <2>1
      <4> QED
        BY <2>2, <2>3, <2>4, <3>1, <4>1 DEF WaitsIn
    <3>2. CASE r # s
      <4>1. wire'[r] = wire[r] /\ queue'[r] = queue[r]
        BY <1>0, <2>1, <3>2
      <4> QED
        BY <2>1, <2>4, <4>1 DEF WaitsIn
    <3> QED
      BY <3>1, <3>2
  <2>5. Elements(TaskIds') = Elements(TaskIds)
    BY <2>1 DEF TaskIds
  <2> QED
    BY <2>1, <2>3, <2>4, <2>5 DEF Waits
<1>6. ASSUME NEW s \in Sessions, ConnectionEnds(s) PROVE AllWait'
  <2>1. Elements(TaskIds') = Elements(TaskIds)
    BY <1>6 DEF TaskIds, ConnectionEnds
  <2> QED
    BY <1>1, <1>6, <2>1 DEF ConnectionEnds, LoopFree
<1> QED
  BY <1>2, <1>3, <1>4, <1>5, <1>6

LEMMA AllWaitStep == Shape /\ CloseTasks /\ AllWait /\ [Next]_vars => AllWait'
<1> SUFFICES ASSUME Shape, CloseTasks, AllWait, [Next]_vars PROVE AllWait'
  OBVIOUS
<1>1. ASSUME pending' \subseteq pending, UNCHANGED <<tasks, queue, wire, open, closing, crashed>>,
             \A u \in Users : call'[u].id = call[u].id \/ call[u].id = None
      PROVE  AllWait'
  <2> SUFFICES ASSUME NEW id \in pending', ~crashed' PROVE Waits(id)'
    BY DEF AllWait
  <2>1. Waits(id) /\ id # None
    BY <1>1 DEF AllWait, Shape, TypeOK, Ids, None
  <2>2. TaskIds' = TaskIds
    BY <1>1 DEF TaskIds
  <2> QED
    BY <1>1, <2>1, <2>2 DEF Waits, WaitsIn
<1>2. CASE UNCHANGED vars
  BY <1>1, <1>2 DEF vars, sessionVars, netVars, callVars
<1>3. ASSUME NEW u \in Users, NEW op \in Operations, Begin(u, op) PROVE AllWait'
  <2>1. /\ call[u].id = None /\ call \in [Users -> Calls]
        /\ call' = [call EXCEPT ![u] = [op |-> op, at |-> "pointer", id |-> None]]
    BY <1>3 DEF Begin, Idle, Shape, TypeOK, Calls
  <2>2. \A v \in Users : call'[v].id = call[v].id \/ call[v].id = None
    BY <2>1
  <2> QED
    BY <1>1, <1>3, <2>2 DEF Begin, sessionVars, netVars, callVars
<1>4. ASSUME NEW s \in Sessions, Dispatch(s) PROVE AllWait'
  BY <1>1, <1>4 DEF Dispatch, sessionVars
<1>5. ASSUME NEW s \in Sessions, NEW id \in Ids, Reply(s, id) PROVE AllWait'
  BY <1>1, <1>5 DEF Reply, sessionVars, callVars
<1> QED
  BY <1>2, <1>3, <1>4, <1>5, AllWaitOfStep, AllWaitOfLoop DEF Next

LEMMA AllWaitHolds == Spec => [](Shape /\ CloseTasks /\ AllWait)
<1>1. Init => CloseTasks /\ AllWait
  BY ElementsOfEmpty DEF Init, CloseTasks, AllWait
<1>2. /\ Shape /\ CloseTasks /\ AllWait /\ [Next]_vars
      => (Shape /\ CloseTasks /\ AllWait)'
  BY ShapeStep, CloseTasksStep, AllWaitStep
<1> QED
  BY ShapeInit, <1>1, <1>2, PTL DEF Spec

\* pending_ never keeps a handler that nothing will call or drop: its call is still in
\* call_async(), in the loop's queue, in write_queue_, or on the wire of a session that
\* has yet to finish closing.
THEOREM NoHandlerIsLost == Spec => []NoOrphan
<1>1. Shape /\ AllWait => NoOrphan
  BY AllWaitIsNoOrphan DEF Shape
<1> QED
  BY <1>1, AllWaitHolds, PTL
-----------------------------------------------------------------------------
(* An id is in one place at a time, so that what drops it from pending_ in  *)
(* one place does not drop it in another.  A notify has no id.              *)

Once(s) == \A i, j \in 1..Len(s) : s[i] = s[j] => s[i] = None \/ i = j

LEMMA OnceAppend ==
  ASSUME NEW s \in Seq(Ids \cup {None}), NEW x \in Ids \cup {None}, Once(s),
         x = None \/ x \notin Elements(s)
  PROVE  Once(Append(s, x))
<1>1. /\ Len(Append(s, x)) = Len(s) + 1 /\ Len(s) \in Nat
      /\ Append(s, x)[Len(s) + 1] = x
      /\ \A i \in 1..Len(s) : Append(s, x)[i] = s[i]
  BY AppendProperties, LenProperties
<1>2. \A i \in 1..(Len(s) + 1) : i = Len(s) + 1 \/ i \in 1..Len(s)
  BY <1>1
<1>3. \A i \in 1..Len(s) : s[i] \in Elements(s)
  BY DEF Elements
<1> QED
  BY <1>1, <1>2, <1>3 DEF Once

LEMMA OnceTail ==
  ASSUME NEW s \in Seq(Ids \cup {None}), s # <<>>, Once(s)
  PROVE  Once(Tail(s)) /\ (Head(s) = None \/ Head(s) \notin Elements(Tail(s)))
<1>1. /\ Len(Tail(s)) = Len(s) - 1 /\ Len(s) \in Nat \ {0} /\ Head(s) = s[1]
      /\ \A i \in 1..Len(Tail(s)) : Tail(s)[i] = s[i + 1]
  BY HeadTailProperties, LenProperties, EmptySeq
<1>2. \A i \in 1..Len(Tail(s)) : i \in Nat /\ i + 1 \in 1..Len(s) /\ i + 1 # 1
  BY <1>1
<1>3. 1 \in 1..Len(s)
  BY <1>1
<1>4. Once(Tail(s))
  BY <1>1, <1>2 DEF Once
<1>5. ASSUME NEW i \in 1..Len(Tail(s)), Tail(s)[i] = Head(s) PROVE Head(s) = None
  BY <1>1, <1>2, <1>3, <1>5 DEF Once
<1> QED
  BY <1>4, <1>5 DEF Elements

OnceInv ==
  /\ \A u \in Users : call[u].id < nextId
  /\ \A id \in Elements(TaskIds) : id < nextId
  /\ \A s \in Sessions : \A id \in Elements(queue[s]) \cup wire[s] : id < nextId
  /\ \A u, v \in Users : call[u].id = call[v].id => call[u].id = None \/ u = v
  /\ Once(TaskIds) /\ \A s \in Sessions : Once(queue[s])
  /\ \A u \in Users : call[u].id # None =>
        /\ call[u].id \notin Elements(TaskIds)
        /\ \A s \in Sessions : call[u].id \notin Elements(queue[s]) \cup wire[s]
  /\ \A id \in Elements(TaskIds) : id # None =>
        \A s \in Sessions : id \notin Elements(queue[s]) \cup wire[s]
  /\ \A s, r \in Sessions : \A id \in Elements(queue[s]) : id # None =>
        id \notin wire[r] /\ (s # r => id \notin Elements(queue[r]))

LEMMA CallIds == Shape => \A u \in Users : call[u].id \in Ids \cup {None}
<1>1. Shape => call \in [Users -> Calls]
  BY DEF Shape, TypeOK, Calls
<1> QED
  BY <1>1 DEF Calls, Idle

\* A thread that goes on without an id, or returns, has no id.
LEMMA ProceedIds ==
  ASSUME Shape, NEW u \in Users, NEW from \in Steps, NEW to, Proceed(u, from, to),
         call[u].id = None \/ to = "none"
  PROVE  call'[u].id = None /\ \A v \in Users : v # u => call'[v] = call[v]
<1>1. call \in [Users -> Calls] /\ call[u].at \in Steps
  BY DEF Shape, TypeOK, Calls, Proceed
<1>2. call[u] \in [op : Operations, at : Steps, id : Ids \cup {None}]
  BY <1>1, Inside DEF Shape
<1>3. call'[u] = IF to = "none" THEN Idle ELSE [call[u] EXCEPT !.at = to]
  BY <1>1 DEF Proceed
<1>4. call'[u].id = None
  <2>1. CASE to = "none"
    BY <1>3, <2>1 DEF Idle
  <2>2. CASE to # "none"
    <3>1. [call[u] EXCEPT !.at = to].id = call[u].id
      BY <1>2
    <3> QED
      BY <1>3, <2>2, <3>1
  <2> QED
    BY <2>1, <2>2
<1> QED
  BY <1>1, <1>4 DEF Proceed

LEMMA OnceOfStep ==
  ASSUME Shape, OnceInv, NEW u \in Users, Step(u)
  PROVE  OnceInv'
<1>0. /\ nextId \in Nat \ {0} /\ \A v \in Users : call[v].id \in Nat
      /\ call \in [Users -> Calls]
  BY CallIds DEF Shape, TypeOK, Ids, None, Calls
<1>1. ASSUME call[u].id = None, nextId' = nextId, UNCHANGED <<tasks, queue, wire>>,
             call'[u].id = None, \A v \in Users : v # u => call'[v] = call[v]
      PROVE  OnceInv'
  <2>1. TaskIds' = TaskIds
    BY <1>1 DEF TaskIds
  <2>2. \A v \in Users : call'[v].id = call[v].id
    BY <1>1
  <2> QED
    BY <1>1, <2>1, <2>2 DEF OnceInv
<1>2. CASE ReadPointer(u) \/ ReadOpen(u) \/ Make(u)
  <2>1. PICK from \in Steps, to \in Steps \cup {"none"} :
          Proceed(u, from, to) /\ from \in {"pointer", "open", "make"}
    BY <1>2, Zenon DEF ReadPointer, ReadOpen, Make, Steps
  <2>2. call[u].id = None
    BY <2>1 DEF Shape, CallInv, Proceed
  <2>3. UNCHANGED <<nextId, tasks, queue, wire>>
    BY <1>2 DEF ReadPointer, ReadOpen, Make, netVars, callVars
  <2> QED
    BY <1>1, <2>1, <2>2, <2>3, ProceedIds
<1>3. CASE Insert(u)
  <2>1. /\ call' = [call EXCEPT ![u] = [op |-> "call", at |-> "use", id |-> nextId]]
        /\ nextId' = nextId + 1 /\ UNCHANGED <<tasks, queue, wire>>
    BY <1>3 DEF Insert, netVars
  <2>2. call'[u].id = nextId /\ \A v \in Users : v # u => call'[v] = call[v]
    BY <1>0, <2>1
  <2>3. TaskIds' = TaskIds
    BY <2>1 DEF TaskIds
  <2>4. \A v \in Users : call'[v].id < nextId'
    BY <1>0, <2>1, <2>2 DEF OnceInv
  <2>5. /\ \A id \in Elements(TaskIds') : id < nextId'
        /\ \A s \in Sessions : \A id \in Elements(queue'[s]) \cup wire'[s] : id < nextId'
    <3>1. Elements(TaskIds) \subseteq Nat
      <4>1. tasks \in Seq(Tasks)
        BY DEF Shape, TypeOK, Tasks
      <4>2. TaskIds \in Seq(Ids \cup {None})
        BY <4>1, IdsOfType DEF TaskIds
      <4> QED
        BY <4>2, ElementsType DEF Ids, None
    <3>2. \A s \in Sessions : Elements(queue[s]) \cup wire[s] \subseteq Nat
      <4>1. \A s \in Sessions : queue[s] \in Seq(Ids \cup {None}) /\ wire[s] \subseteq Ids
        BY DEF Shape, TypeOK
      <4> QED
        BY <4>1, ElementsType DEF Ids, None
    <3> QED
      BY <1>0, <2>1, <2>3, <3>1, <3>2 DEF OnceInv
  <2>6. \A v, w \in Users : call'[v].id = call'[w].id => call'[v].id = None \/ v = w
    BY <1>0, <2>2 DEF OnceInv
  <2>7. /\ nextId \notin Elements(TaskIds)
        /\ \A s \in Sessions : nextId \notin Elements(queue[s]) \cup wire[s]
    BY <1>0 DEF OnceInv
  <2>8. \A v \in Users : call'[v].id # None =>
          /\ call'[v].id \notin Elements(TaskIds)
          /\ \A s \in Sessions : call'[v].id \notin Elements(queue[s]) \cup wire[s]
    BY <2>2, <2>7 DEF OnceInv
  <2> QED
    BY <2>1, <2>3, <2>4, <2>5, <2>6, <2>8 DEF OnceInv
<1>4. CASE Use(u)
  <2>1. /\ Proceed(u, "use", "none") /\ UNCHANGED <<nextId, queue, wire>>
        /\ call[u].at = "use"
    BY <1>4 DEF Use, Proceed, netVars
  <2>2. call'[u].id = None /\ \A v \in Users : v # u => call'[v] = call[v]
    BY <2>1, ProceedIds DEF Steps
  <2>3. \A v \in Users : call'[v].id # None => v # u /\ call'[v].id = call[v].id
    BY <2>2
  <2>4. \A v \in Users : call'[v].id < nextId
    BY <1>0, <2>2 DEF OnceInv, None
  <2>5. CASE tasks' = tasks
    <3>1. TaskIds' = TaskIds
      BY <2>5 DEF TaskIds
    <3> QED
      BY <2>1, <2>3, <2>4, <3>1 DEF OnceInv
  <2>6. CASE tasks' # tasks /\ session # None
    <3>1. /\ Elements(TaskIds') = Elements(TaskIds) \cup {call[u].id}
          /\ TaskIds' = Append(TaskIds, call[u].id) /\ TaskIds \in Seq(Ids \cup {None})
          /\ call[u].id \in Ids \cup {None}
      BY <1>4, <2>6, PostedIds
    <3>2. Once(TaskIds')
      BY <3>1, OnceAppend DEF OnceInv
    <3>3. \A v \in Users : call'[v].id # None =>
            /\ call'[v].id \notin Elements(TaskIds')
            /\ \A s \in Sessions : call'[v].id \notin Elements(queue[s]) \cup wire[s]
      BY <2>3, <3>1 DEF OnceInv
    <3>4. \A id \in Elements(TaskIds') : id < nextId
      BY <3>1 DEF OnceInv
    <3>5. \A id \in Elements(TaskIds') : id # None =>
            \A s \in Sessions : id \notin Elements(queue[s]) \cup wire[s]
      BY <3>1 DEF OnceInv
    <3>6. \A v, w \in Users : call'[v].id = call'[w].id => call'[v].id = None \/ v = w
      BY <2>3 DEF OnceInv
    <3> QED
      BY <2>1, <2>4, <3>2, <3>3, <3>4, <3>5, <3>6 DEF OnceInv
  <2> QED
    BY <1>4, <2>5, <2>6, Zenon DEF Use
<1> QED
  BY <1>2, <1>3, <1>4 DEF Step

\* Write_queue_ only gets shorter, the loop's queue too.
LEMMA OnceOfShut ==
  ASSUME Shape, OnceInv, NEW s \in Sessions, Shut(s), UNCHANGED <<call, nextId, wire>>,
         Once(TaskIds'), Elements(TaskIds') \subseteq Elements(TaskIds)
  PROVE  OnceInv'
<1>1. \A r \in Sessions : queue'[r] = queue[r] \/ queue'[r] = <<>>
  BY DEF Shape, TypeOK, Shut
<1>2. \A r \in Sessions : Elements(queue'[r]) \subseteq Elements(queue[r]) /\ Once(queue'[r])
  <2>1. Once(<<>>)
    BY DEF Once
  <2> QED
    BY <1>1, <2>1, ElementsOfEmpty DEF OnceInv
<1>3. \A u \in Users : call[u].id # None =>
        /\ call[u].id \notin Elements(TaskIds')
        /\ \A r \in Sessions : call[u].id \notin Elements(queue'[r]) \cup wire[r]
  BY <1>2 DEF OnceInv
<1>4. \A id \in Elements(TaskIds') : id # None =>
        \A r \in Sessions : id \notin Elements(queue'[r]) \cup wire[r]
  BY <1>2 DEF OnceInv
<1>5. \A r, q \in Sessions : \A id \in Elements(queue'[r]) : id # None =>
        id \notin wire[q] /\ (r # q => id \notin Elements(queue'[q]))
  BY <1>2 DEF OnceInv
<1>6. \A r \in Sessions : \A id \in Elements(queue'[r]) \cup wire[r] : id < nextId
  BY <1>2 DEF OnceInv
<1> QED
  BY <1>2, <1>3, <1>4, <1>5, <1>6 DEF OnceInv

LEMMA TakenOnce ==
  ASSUME Shape, OnceInv, tasks # <<>>, tasks' = Tail(tasks)
  PROVE  /\ Once(TaskIds') /\ Elements(TaskIds') \subseteq Elements(TaskIds)
         /\ Head(tasks).id \in Elements(TaskIds)
         /\ Head(tasks).id = None \/ Head(tasks).id \notin Elements(TaskIds')
<1>1. /\ Elements(TaskIds) = Elements(TaskIds') \cup {Head(tasks).id}
      /\ TaskIds # <<>> /\ TaskIds' = Tail(TaskIds) /\ TaskIds \in Seq(Ids \cup {None})
      /\ Head(tasks).id = Head(TaskIds)
  BY TakenIds
<1>2. /\ Once(TaskIds')
      /\ Head(tasks).id = None \/ Head(tasks).id \notin Elements(TaskIds')
  BY <1>1, OnceTail DEF OnceInv
<1> QED
  BY <1>1, <1>2

LEMMA OnceOfRunSend ==
  ASSUME Shape, OnceInv, RunSend
  PROVE  OnceInv'
<1>0. PICK to \in Sessions, new \in Ids \cup {None} :
        to = Head(tasks).to /\ new = Head(tasks).id
  BY NextTask DEF RunSend
<1>1. /\ Once(TaskIds') /\ Elements(TaskIds') \subseteq Elements(TaskIds)
      /\ new \in Elements(TaskIds) /\ (new = None \/ new \notin Elements(TaskIds'))
  BY <1>0, TakenOnce DEF RunSend
<1>2. UNCHANGED <<call, nextId, wire>>
  BY DEF RunSend
<1>3. CASE queue' = queue
  BY <1>1, <1>2, <1>3 DEF OnceInv
<1>4. CASE queue' = [queue EXCEPT ![to] = Append(@, new)]
  <2>1. queue \in [Sessions -> Seq(Ids \cup {None})]
    BY DEF Shape, TypeOK
  <2>2. /\ Elements(queue'[to]) = Elements(queue[to]) \cup {new}
        /\ \A s \in Sessions : s # to => queue'[s] = queue[s]
        /\ queue'[to] = Append(queue[to], new) /\ queue[to] \in Seq(Ids \cup {None})
    BY <1>4, <2>1, ElementsOfAppend
  <2>3. \A s \in Sessions : \A id \in Elements(queue'[s]) :
          id \in Elements(queue[s]) \/ (s = to /\ id = new)
    BY <2>2
  <2>4. new # None => \A s \in Sessions : new \notin Elements(queue[s]) \cup wire[s]
    BY <1>1 DEF OnceInv
  <2>5. \A s \in Sessions : Once(queue'[s])
    <3>1. Once(queue'[to])
      BY <2>2, <2>4, OnceAppend DEF OnceInv
    <3> QED
      BY <2>2, <3>1 DEF OnceInv
  <2>6. \A u \in Users : call[u].id # None =>
          /\ call[u].id \notin Elements(TaskIds')
          /\ \A s \in Sessions : call[u].id \notin Elements(queue'[s]) \cup wire[s]
    BY <1>1, <2>3 DEF OnceInv
  <2>7. \A id \in Elements(TaskIds') : id # None =>
          \A s \in Sessions : id \notin Elements(queue'[s]) \cup wire[s]
    BY <1>1, <2>3 DEF OnceInv
  <2>8. \A s, r \in Sessions : \A id \in Elements(queue'[s]) : id # None =>
          id \notin wire[r] /\ (s # r => id \notin Elements(queue'[r]))
    BY <2>3, <2>4 DEF OnceInv
  <2>9. \A s \in Sessions : \A id \in Elements(queue'[s]) \cup wire[s] : id < nextId
    BY <1>1, <2>3 DEF OnceInv
  <2> QED
    BY <1>1, <1>2, <2>5, <2>6, <2>7, <2>8, <2>9 DEF OnceInv
<1> QED
  BY <1>0, <1>3, <1>4 DEF RunSend

LEMMA OnceOfWrite ==
  ASSUME Shape, OnceInv, NEW s \in Sessions, Write(s)
  PROVE  OnceInv'
<1>0. /\ queue \in [Sessions -> Seq(Ids \cup {None})] /\ wire \in [Sessions -> SUBSET Ids]
  BY DEF Shape, TypeOK
<1>1. /\ queue[s] # <<>> /\ queue' = [queue EXCEPT ![s] = Tail(@)]
      /\ wire' = [wire EXCEPT ![s] = @ \cup ({Head(queue[s])} \ {None})]
      /\ UNCHANGED <<tasks, nextId, call>>
  BY DEF Write, callVars
<1>2. TaskIds' = TaskIds
  BY <1>1 DEF TaskIds
<1>3. /\ queue'[s] = Tail(queue[s]) /\ wire'[s] = wire[s] \cup ({Head(queue[s])} \ {None})
      /\ \A r \in Sessions : r # s => queue'[r] = queue[r] /\ wire'[r] = wire[r]
      /\ queue[s] \in Seq(Ids \cup {None})
  BY <1>0, <1>1
<1>4. /\ Elements(queue[s]) = Elements(queue'[s]) \cup {Head(queue[s])}
      /\ Once(queue'[s])
      /\ Head(queue[s]) = None \/ Head(queue[s]) \notin Elements(queue'[s])
  BY <1>1, <1>3, ElementsOfTail, OnceTail DEF OnceInv
<1>5. /\ \A r \in Sessions : Elements(queue'[r]) \subseteq Elements(queue[r])
      /\ \A r \in Sessions : \A id \in wire'[r] :
           id \in wire[r] \/ (r = s /\ id = Head(queue[s]) /\ id # None)
  BY <1>3, <1>4
<1>6. \A r \in Sessions : Once(queue'[r])
  BY <1>3, <1>4 DEF OnceInv
<1>7. \A r \in Sessions : \A id \in Elements(queue'[r]) \cup wire'[r] :
        id \in Elements(queue[r]) \cup wire[r]
  BY <1>4, <1>5
<1>8. \A r \in Sessions : \A id \in Elements(queue'[r]) \cup wire'[r] : id < nextId
  BY <1>7 DEF OnceInv
<1>9. \A u \in Users : call[u].id # None =>
        /\ call[u].id \notin Elements(TaskIds)
        /\ \A r \in Sessions : call[u].id \notin Elements(queue'[r]) \cup wire'[r]
  BY <1>7 DEF OnceInv
<1>10. \A id \in Elements(TaskIds) : id # None =>
         \A r \in Sessions : id \notin Elements(queue'[r]) \cup wire'[r]
  BY <1>7 DEF OnceInv
<1>11. \A r, q \in Sessions : \A id \in Elements(queue'[r]) : id # None =>
         id \notin wire'[q] /\ (r # q => id \notin Elements(queue'[q]))
  BY <1>4, <1>5 DEF OnceInv
<1> QED
  BY <1>1, <1>2, <1>6, <1>8, <1>9, <1>10, <1>11 DEF OnceInv

LEMMA OnceStep == Shape /\ OnceInv /\ [Next]_vars => OnceInv'
<1> SUFFICES ASSUME Shape, OnceInv, [Next]_vars PROVE OnceInv'
  OBVIOUS
<1>1. ASSUME UNCHANGED <<tasks, queue, wire, nextId>>,
             \A u \in Users : call'[u].id = call[u].id
      PROVE  OnceInv'
  <2>1. TaskIds' = TaskIds
    BY <1>1 DEF TaskIds
  <2> QED
    BY <1>1, <2>1 DEF OnceInv
<1>2. CASE UNCHANGED vars
  BY <1>1, <1>2 DEF vars, sessionVars, netVars, callVars
<1>3. ASSUME NEW u \in Users, NEW op \in Operations, Begin(u, op) PROVE OnceInv'
  <2>1. /\ call[u].id = None /\ call \in [Users -> Calls]
        /\ call' = [call EXCEPT ![u] = [op |-> op, at |-> "pointer", id |-> None]]
    BY <1>3 DEF Begin, Idle, Shape, TypeOK, Calls
  <2>2. \A v \in Users : call'[v].id = call[v].id
    BY <2>1
  <2> QED
    BY <1>1, <1>3, <2>2 DEF Begin, sessionVars, netVars, callVars
<1>4. ASSUME NEW s \in Sessions, Dispatch(s) PROVE OnceInv'
  BY <1>1, <1>4 DEF Dispatch, sessionVars
<1>5. ASSUME NEW s \in Sessions, NEW id \in Ids, Reply(s, id) PROVE OnceInv'
  BY <1>1, <1>5 DEF Reply, sessionVars, callVars
<1>6. CASE CloseHandler
  BY <1>1, <1>6 DEF CloseHandler, netVars
<1>7. ASSUME NEW s \in Sessions, ConnectionEnds(s) PROVE OnceInv'
  <2>1. TaskIds' = TaskIds
    BY <1>7 DEF TaskIds, ConnectionEnds
  <2> QED
    BY <1>7, <2>1, OnceOfShut DEF ConnectionEnds, OnceInv
<1>8. CASE RunClose
  <2>1. Head(tasks).to \in Sessions
    BY <1>8, NextTask DEF RunClose
  <2>2. Once(TaskIds') /\ Elements(TaskIds') \subseteq Elements(TaskIds)
    BY <1>8, TakenOnce DEF RunClose
  <2>3. CASE open[Head(tasks).to]
    BY <1>8, <2>1, <2>2, <2>3, OnceOfShut DEF RunClose
  <2>4. CASE ~open[Head(tasks).to]
    BY <1>8, <2>2, <2>4 DEF RunClose, OnceInv
  <2> QED
    BY <2>3, <2>4
<1> QED
  BY <1>2, <1>3, <1>4, <1>5, <1>6, <1>7, <1>8, OnceOfStep, OnceOfRunSend, OnceOfWrite DEF Next
-----------------------------------------------------------------------------
(* While the client has made one session only, what drops a request from    *)
(* pending_ is the end of its call: pending_.clear() and the WriteHandlers  *)
(* of a closing session come when that session is not open any more.  With  *)
(* a second session it is not so (RpcClientReconnect shows it).             *)

\* A server answers what was written to it.
RepliesInv == \A s \in Sessions : Elements(replies[s]) \subseteq wire[s]

NoneMade == made = 0 =>
  /\ tasks = <<>> /\ \A u \in Users : call[u].at \notin {"open", "insert", "use"}
  /\ \A s \in Sessions : queue[s] = <<>> /\ wire[s] = {}

\* What is sent, or is about to be, has its handler waiting, unless answered.
KeptOn(s) ==
  /\ \A u \in Users : call[u].id # None => call[u].id \in pending
  /\ \A id \in Elements(TaskIds) \cup Elements(queue[s]) : id # None => id \in pending
  /\ \A id \in wire[s] : answered[id] = 0 => id \in pending
Kept == made <= 1 => \A s \in Sessions : open[s] => KeptOn(s)

LEMMA RepliesStep == Shape /\ RepliesInv /\ [Next]_vars => RepliesInv'
<1> SUFFICES ASSUME Shape, RepliesInv, [Next]_vars PROVE RepliesInv'
  OBVIOUS
<1>0. replies \in [Sessions -> Seq(Ids)] /\ wire \in [Sessions -> SUBSET Ids]
  BY DEF Shape, TypeOK
<1>1. CASE UNCHANGED <<replies, wire>>
  BY <1>1 DEF RepliesInv
<1>2. ASSUME NEW s \in Sessions, Write(s) PROVE RepliesInv'
  BY <1>0, <1>2 DEF Write, RepliesInv
<1>3. ASSUME NEW s \in Sessions, Dispatch(s) PROVE RepliesInv'
  <2>1. Elements(replies'[s]) \subseteq Elements(replies[s])
    BY <1>0, <1>3, ElementsOfTail DEF Dispatch
  <2> QED
    BY <1>0, <1>3, <2>1 DEF Dispatch, RepliesInv
<1>4. ASSUME NEW s \in Sessions, NEW id \in Ids, Reply(s, id) PROVE RepliesInv'
  <2>1. Elements(replies'[s]) = Elements(replies[s]) \cup {id}
    BY <1>0, <1>4, ElementsOfAppend DEF Reply
  <2> QED
    BY <1>0, <1>4, <2>1 DEF Reply, RepliesInv
<1>5. ASSUME NEW u \in Users, Step(u) PROVE UNCHANGED <<replies, wire>>
  BY <1>5 DEF Step, ReadPointer, ReadOpen, Make, Insert, Use, netVars
<1>6. CASE \/ \E u \in Users, op \in Operations : Begin(u, op)
           \/ RunSend \/ RunClose \/ CloseHandler \/ UNCHANGED vars
           \/ \E s \in Sessions : ConnectionEnds(s)
  BY <1>1, <1>6 DEF Begin, RunSend, RunClose, CloseHandler, ConnectionEnds, vars, netVars
<1> QED
  BY <1>1, <1>2, <1>3, <1>4, <1>5, <1>6 DEF Next

LEMMA NoneMadeStep == Shape /\ NoneMade /\ [Next]_vars => NoneMade'
<1> SUFFICES ASSUME Shape, NoneMade, [Next]_vars, made' = 0 PROVE NoneMade'
  BY DEF NoneMade
<1>0. /\ made \in Nat /\ call \in [Users -> Calls]
      /\ made = 0 => session = None /\ closing = None /\ \A s \in Sessions : ~open[s]
  BY BoundsAssumption DEF Shape, TypeOK, MadeInv, Calls, Sessions, None
<1>1. ASSUME made = 0, UNCHANGED <<tasks, queue, wire>>,
             \A u \in Users : call'[u].at = call[u].at \/ call'[u].at \notin {"open", "insert", "use"}
      PROVE  NoneMade'
  BY <1>1 DEF NoneMade
<1>2. ASSUME NEW u \in Users, Step(u) PROVE NoneMade'
  <2>1. made = 0
    BY <1>0, <1>2 DEF Step, ReadPointer, ReadOpen, Make, Insert, Use, sessionVars
  <2>2. /\ \A v \in Users : call[v].at \notin {"open", "insert", "use"}
        /\ session = None
    BY <1>0, <2>1 DEF NoneMade
  <2>3. PICK to \in {"make", "none"} :
          /\ Proceed(u, call[u].at, to) /\ call[u].at \in Steps
          /\ UNCHANGED <<tasks, queue, wire>>
    BY <1>2, <2>2 DEF Step, ReadPointer, ReadOpen, Make, Insert, Use, Proceed, netVars, Steps
  <2>4. call'[u].at = to
    <3>1. [call[u] EXCEPT !.at = to].at = to
      BY <2>3, Inside DEF Shape
    <3> QED
      BY <1>0, <2>3, <3>1 DEF Proceed, Idle
  <2>5. \A v \in Users : v # u => call'[v] = call[v]
    BY <1>0, <2>3 DEF Proceed
  <2> QED
    BY <1>1, <2>1, <2>3, <2>4, <2>5
<1>3. ASSUME NEW u \in Users, NEW op \in Operations, Begin(u, op) PROVE NoneMade'
  BY <1>0, <1>1, <1>3 DEF Begin, sessionVars, netVars
<1>4. CASE UNCHANGED vars
  BY <1>1, <1>4 DEF vars, sessionVars, netVars
<1>5. ASSUME \/ RunSend \/ RunClose \/ CloseHandler
             \/ \E s \in Sessions : Write(s) \/ ConnectionEnds(s) \/ Dispatch(s)
             \/ \E s \in Sessions, id \in Ids : Reply(s, id)
      PROVE  FALSE
  <2>1. made = 0
    BY <1>5 DEF RunSend, RunClose, CloseHandler, Write, ConnectionEnds, Dispatch, Reply,
                sessionVars
  <2> QED
    BY <1>0, <1>5, <2>1
       DEF RunSend, RunClose, CloseHandler, Write, ConnectionEnds, Dispatch, Reply, NoneMade
<1> QED
  BY <1>2, <1>3, <1>4, <1>5 DEF Next

\* With one session made, it is the only one that is open or closing.
LEMMA OnlySession ==
  ASSUME Shape, made <= 1
  PROVE  /\ \A s, r \in Sessions : open[s] /\ open[r] => s = r
         /\ closing # None => \A s \in Sessions : ~open[s]
BY DEF Shape, MadeInv, TypeOK, Sessions, None

LEMMA KeptOfStep ==
  ASSUME Shape, OnceInv, NoneMade, Kept, NEW u \in Users, Step(u)
  PROVE  Kept'
<1>0. /\ call \in [Users -> Calls] /\ made \in Nat
      /\ \A v \in Users : call[v].id \in Ids \cup {None}
  BY CallIds, BoundsAssumption DEF Shape, TypeOK, Calls
<1>1. ASSUME NEW s \in Sessions, KeptOn(s), pending \subseteq pending',
             UNCHANGED <<tasks, queue, wire, answered>>,
             \A v \in Users : call'[v].id \in {call[v].id, None}
      PROVE  KeptOn(s)'
  <2>1. TaskIds' = TaskIds
    BY <1>1 DEF TaskIds
  <2> QED
    BY <1>1, <2>1 DEF KeptOn
<1>2. CASE ReadPointer(u) \/ ReadOpen(u)
  <2>1. PICK from \in Steps, to \in Steps \cup {"none"} :
          Proceed(u, from, to) /\ from \in {"pointer", "open"}
    BY <1>2, Zenon DEF ReadPointer, ReadOpen, Steps
  <2>2. call[u].id = None
    BY <2>1 DEF Shape, CallInv, Proceed
  <2>3. \A v \in Users : call'[v].id \in {call[v].id, None}
    BY <2>1, <2>2, ProceedIds
  <2>4. UNCHANGED <<made, open, tasks, queue, wire, answered, pending>>
    BY <1>2 DEF ReadPointer, ReadOpen, sessionVars, netVars, callVars
  <2> QED
    BY <1>1, <2>3, <2>4 DEF Kept
<1>3. CASE Make(u)
  <2>1. Proceed(u, "make", "none") /\ UNCHANGED <<tasks, queue, wire, answered, pending>>
    BY <1>3 DEF Make, netVars, callVars
  <2>2. /\ call'[u].id = None /\ \A v \in Users : v # u => call'[v] = call[v]
        /\ call[u].id = None
    BY <2>1, ProceedIds DEF Steps, Shape, CallInv, Proceed
  <2>3. CASE UNCHANGED <<made, open>>
    BY <1>1, <2>1, <2>2, <2>3 DEF Kept
  <2>4. CASE made' = made + 1
    <3> SUFFICES ASSUME made = 0, NEW s \in Sessions PROVE KeptOn(s)'
      BY <1>0, <2>4 DEF Kept
    <3>1. /\ tasks = <<>> /\ queue[s] = <<>> /\ wire[s] = {}
          /\ \A v \in Users : call[v].at \notin {"open", "insert", "use"}
      BY DEF NoneMade
    <3>2. \A v \in Users : call[v].id = None
      BY <1>0, <3>1 DEF Shape, CallInv, Calls, Idle, Steps
    <3>3. TaskIds' = <<>>
      BY <2>1, <3>1, IdsOfEmpty DEF TaskIds
    <3> QED
      BY <2>1, <2>2, <3>1, <3>2, <3>3, ElementsOfEmpty DEF KeptOn
  <2> QED
    BY <1>3, <2>3, <2>4 DEF Make
<1>4. CASE Insert(u)
  <2>1. /\ call' = [call EXCEPT ![u] = [op |-> "call", at |-> "use", id |-> nextId]]
        /\ pending' = pending \cup {nextId}
        /\ UNCHANGED <<tasks, queue, wire, made, open, answered>>
    BY <1>4 DEF Insert, netVars, sessionVars
  <2>2. call'[u].id = nextId /\ \A v \in Users : v # u => call'[v] = call[v]
    BY <1>0, <2>1
  <2>3. TaskIds' = TaskIds
    BY <2>1 DEF TaskIds
  <2> QED
    BY <2>1, <2>2, <2>3 DEF Kept, KeptOn
<1>5. CASE Use(u)
  <2>1. /\ Proceed(u, "use", "none") /\ UNCHANGED <<made, open, queue, wire, answered>>
    BY <1>5 DEF Use, netVars, sessionVars
  <2>2. call'[u].id = None /\ \A v \in Users : v # u => call'[v] = call[v]
    BY <2>1, ProceedIds DEF Steps
  <2>3. \A v \in Users : call'[v].id \in {call[v].id, None}
    BY <2>2
  <2> SUFFICES ASSUME made <= 1, NEW s \in Sessions, open[s] PROVE KeptOn(s)'
    BY <2>1 DEF Kept
  <2>4. KeptOn(s)
    BY DEF Kept
  <2>5. CASE tasks' = tasks /\ pending' = pending
    BY <1>1, <2>1, <2>3, <2>4, <2>5
  <2>6. CASE tasks' # tasks /\ session # None
    <3>1. /\ Elements(TaskIds') = Elements(TaskIds) \cup {call[u].id}
          /\ pending' = pending
      BY <1>5, <2>6, PostedIds
    <3> QED
      BY <2>1, <2>3, <2>4, <3>1 DEF KeptOn
  <2>7. CASE tasks' = tasks /\ pending' = pending \ {call[u].id}
    <3>1. TaskIds' = TaskIds
      BY <2>7 DEF TaskIds
    <3>2. \A v \in Users : call'[v].id # None => v # u /\ call'[v].id = call[v].id
      BY <2>2
    <3>3. \A v \in Users : call'[v].id # None => call'[v].id \in pending'
      BY <2>4, <2>7, <3>2 DEF KeptOn, OnceInv
    <3>4. \A id \in Elements(TaskIds) \cup Elements(queue[s]) : id # None => id \in pending'
      BY <1>0, <2>4, <2>7 DEF KeptOn, OnceInv
    <3>5. \A id \in wire[s] : answered[id] = 0 => id \in pending'
      <4>1. 0 \notin wire[s]
        BY DEF Shape, TypeOK, Ids
      <4> QED
        BY <1>0, <2>4, <2>7, <4>1 DEF KeptOn, OnceInv, None
    <3> QED
      BY <2>1, <3>1, <3>3, <3>4, <3>5 DEF KeptOn
  <2> QED
    BY <1>5, <2>5, <2>6, <2>7, Zenon DEF Use
<1> QED
  BY <1>2, <1>3, <1>4, <1>5 DEF Step

LEMMA KeptOfRunSend ==
  ASSUME Shape, OnceInv, Kept, RunSend
  PROVE  Kept'
<1>0. PICK to \in Sessions, new \in Ids \cup {None} :
        to = Head(tasks).to /\ new = Head(tasks).id
  BY NextTask DEF RunSend
<1>1. /\ Elements(TaskIds) = Elements(TaskIds') \cup {new}
      /\ new = None \/ new \notin Elements(TaskIds')
  BY <1>0, TakenIds, TakenOnce DEF RunSend
<1>2. UNCHANGED <<call, wire, open, made, answered>>
  BY DEF RunSend, sessionVars
<1> SUFFICES ASSUME made <= 1, NEW s \in Sessions, open[s] PROVE KeptOn(s)'
  BY <1>2 DEF Kept
<1>3. KeptOn(s)
  BY DEF Kept
<1>4. CASE queue' = [queue EXCEPT ![to] = Append(@, new)] /\ pending' = pending
  <2>1. queue \in [Sessions -> Seq(Ids \cup {None})]
    BY DEF Shape, TypeOK
  <2>2. Elements(queue'[s]) \subseteq Elements(queue[s]) \cup {new}
    BY <1>4, <2>1, ElementsOfAppend
  <2> QED
    BY <1>1, <1>2, <1>3, <1>4, <2>2 DEF KeptOn
<1>5. CASE queue' = queue /\ pending' = pending \ {new}
  <2>1. \A u \in Users : call[u].id # None => call[u].id # new
    BY <1>1 DEF OnceInv
  <2>2. \A id \in Elements(TaskIds') \cup Elements(queue[s]) : id # None => id # new
    BY <1>1 DEF OnceInv
  <2>3. new \notin wire[s]
    <3>1. 0 \notin wire[s]
      BY DEF Shape, TypeOK, Ids
    <3> QED
      BY <1>1, <3>1 DEF OnceInv, None
  <2> QED
    BY <1>1, <1>2, <1>3, <1>5, <2>1, <2>2, <2>3 DEF KeptOn
<1> QED
  BY <1>0, <1>4, <1>5 DEF RunSend

LEMMA KeptOfWrite ==
  ASSUME Shape, Kept, NEW r \in Sessions, Write(r)
  PROVE  Kept'
<1>0. /\ queue \in [Sessions -> Seq(Ids \cup {None})] /\ wire \in [Sessions -> SUBSET Ids]
  BY DEF Shape, TypeOK
<1>1. /\ queue[r] # <<>> /\ queue' = [queue EXCEPT ![r] = Tail(@)]
      /\ wire' = [wire EXCEPT ![r] = @ \cup ({Head(queue[r])} \ {None})]
      /\ UNCHANGED <<tasks, pending, answered, call, open, made>>
  BY DEF Write, callVars, sessionVars
<1>2. TaskIds' = TaskIds
  BY <1>1 DEF TaskIds
<1>3. Elements(queue[r]) = Elements(queue'[r]) \cup {Head(queue[r])}
  BY <1>0, <1>1, ElementsOfTail
<1> SUFFICES ASSUME made <= 1, NEW s \in Sessions, open[s] PROVE KeptOn(s)'
  BY <1>1 DEF Kept
<1>4. KeptOn(s)
  BY DEF Kept
<1>5. CASE s = r
  <2>1. wire'[s] = wire[s] \cup ({Head(queue[s])} \ {None})
    BY <1>0, <1>1, <1>5
  <2> QED
    BY <1>1, <1>2, <1>3, <1>4, <1>5, <2>1 DEF KeptOn
<1>6. CASE s # r
  <2>1. wire'[s] = wire[s] /\ queue'[s] = queue[s]
    BY <1>0, <1>1, <1>6
  <2> QED
    BY <1>1, <1>2, <1>4, <2>1 DEF KeptOn
<1> QED
  BY <1>5, <1>6

LEMMA KeptOfDispatch ==
  ASSUME Shape, OnceInv, RepliesInv, Kept, NEW r \in Sessions, Dispatch(r)
  PROVE  Kept'
<1>0. /\ replies \in [Sessions -> Seq(Ids)] /\ wire \in [Sessions -> SUBSET Ids]
      /\ answered \in [Ids -> Nat] /\ 0 \notin Ids
  BY DEF Shape, TypeOK, Ids
<1>1. PICK got \in Ids : got = Head(replies[r]) /\ got \in wire[r]
  <2>1. replies[r] # <<>> /\ replies[r] \in Seq(Ids)
    BY <1>0 DEF Dispatch
  <2>2. Head(replies[r]) \in Elements(replies[r]) /\ Head(replies[r]) \in Ids
    BY <2>1, ElementsOfTail, HeadTailProperties
  <2> QED
    BY <2>2 DEF RepliesInv
<1>2. /\ answered' = [answered EXCEPT ![got] = @ + (IF got \in pending THEN 1 ELSE 0)]
      /\ pending' = pending \ {got}
      /\ UNCHANGED <<tasks, queue, wire, call, open, made>>
  BY <1>1 DEF Dispatch, sessionVars
<1>3. TaskIds' = TaskIds
  BY <1>2 DEF TaskIds
<1> SUFFICES ASSUME made <= 1, NEW s \in Sessions, open[s] PROVE KeptOn(s)'
  BY <1>2 DEF Kept
<1>4. KeptOn(s)
  BY DEF Kept
<1>5. \A u \in Users : call[u].id # None => call[u].id # got
  BY <1>1 DEF OnceInv
<1>6. \A id \in Elements(TaskIds) \cup Elements(queue[s]) : id # None => id # got
  BY <1>1 DEF OnceInv
<1>7. \A id \in wire[s] : answered'[id] = 0 => id \in pending'
  <2> SUFFICES ASSUME NEW id \in wire[s], answered'[id] = 0 PROVE id \in pending'
    OBVIOUS
  <2>0. id \in Ids
    BY <1>0
  <2>1. CASE id # got
    BY <1>0, <1>2, <1>4, <2>0, <2>1 DEF KeptOn
  <2>2. CASE id = got
    <3>1. answered'[got] = answered[got] + (IF got \in pending THEN 1 ELSE 0)
      BY <1>0, <1>2
    <3>2. answered[got] = 0 /\ got \notin pending
      BY <1>0, <2>2, <3>1
    <3> QED
      BY <1>4, <2>2, <3>2 DEF KeptOn
  <2> QED
    BY <2>1, <2>2
<1> QED
  BY <1>2, <1>3, <1>4, <1>5, <1>6, <1>7 DEF KeptOn

LEMMA KeptStep ==
  ASSUME Shape, OnceInv, NoneMade, RepliesInv, Kept, [Next]_vars
  PROVE  Kept'
<1>1. ASSUME UNCHANGED <<tasks, queue, wire, pending, answered, open, made>>,
             \A u \in Users : call'[u].id = call[u].id
      PROVE  Kept'
  <2>1. TaskIds' = TaskIds
    BY <1>1 DEF TaskIds
  <2> QED
    BY <1>1, <2>1 DEF Kept, KeptOn
<1>2. CASE UNCHANGED vars
  BY <1>1, <1>2 DEF vars, sessionVars, netVars, callVars
<1>3. ASSUME NEW u \in Users, NEW op \in Operations, Begin(u, op) PROVE Kept'
  <2>1. /\ call[u].id = None /\ call \in [Users -> Calls]
        /\ call' = [call EXCEPT ![u] = [op |-> op, at |-> "pointer", id |-> None]]
    BY <1>3 DEF Begin, Idle, Shape, TypeOK, Calls
  <2>2. \A v \in Users : call'[v].id = call[v].id
    BY <2>1
  <2> QED
    BY <1>1, <1>3, <2>2 DEF Begin, sessionVars, netVars, callVars
<1>4. ASSUME NEW s \in Sessions, NEW id \in Ids, Reply(s, id) PROVE Kept'
  BY <1>1, <1>4 DEF Reply, sessionVars, callVars
<1>5. ASSUME made' = made, made <= 1 => \A s \in Sessions : ~open'[s] PROVE Kept'
  BY <1>5 DEF Kept
<1>6. CASE CloseHandler
  BY <1>5, <1>6, OnlySession DEF CloseHandler
<1>7. ASSUME NEW s \in Sessions, open[s], Shut(s), made' = made PROVE Kept'
  <2>1. open \in [Sessions -> BOOLEAN]
    BY DEF Shape, TypeOK
  <2>2. made <= 1 => \A r \in Sessions : ~open'[r]
    BY <1>7, <2>1, OnlySession DEF Shut
  <2> QED
    BY <1>5, <1>7, <2>2
<1>8. CASE RunClose
  <2>1. Head(tasks).to \in Sessions
    BY <1>8, NextTask DEF RunClose
  <2>2. CASE open[Head(tasks).to]
    BY <1>7, <1>8, <2>1, <2>2 DEF RunClose
  <2>3. CASE ~open[Head(tasks).to]
    <3>1. Elements(TaskIds') \subseteq Elements(TaskIds)
      BY <1>8, TakenOnce DEF RunClose
    <3> QED
      BY <1>8, <2>3, <3>1 DEF RunClose, Kept, KeptOn
  <2> QED
    BY <2>2, <2>3
<1>9. ASSUME NEW s \in Sessions, ConnectionEnds(s) PROVE Kept'
  BY <1>7, <1>9 DEF ConnectionEnds
<1> QED
  BY <1>2, <1>3, <1>4, <1>6, <1>8, <1>9, KeptOfStep, KeptOfRunSend, KeptOfWrite, KeptOfDispatch
     DEF Next

Sent == Shape /\ OnceInv /\ NoneMade /\ RepliesInv /\ Kept

LEMMA SentHolds == Spec => []Sent
<1>1. Init => Sent
  <2> SUFFICES ASSUME Init PROVE Sent
    OBVIOUS
  <2>1. TaskIds = <<>>
    BY IdsOfEmpty DEF Init, TaskIds
  <2>2. OnceInv
    BY <2>1, ElementsOfEmpty DEF Init, OnceInv, Idle, None, Once
  <2> QED
    BY <2>2, ShapeInit, ElementsOfEmpty DEF Sent, Init, NoneMade, RepliesInv, Kept, Idle
<1>2. Sent /\ [Next]_vars => Sent'
  BY ShapeStep, OnceStep, NoneMadeStep, RepliesStep, KeptStep DEF Sent
<1> QED
  BY <1>1, <1>2, PTL DEF Spec

\* Until the client connects a second time, a request on the wire of its open session
\* has its handler waiting, until it has been answered.
THEOREM SentWaits == Spec => [](made <= 1 => SentIsPending)
<1>1. Sent => (made <= 1 => SentIsPending)
  BY DEF Sent, Kept, KeptOn, SentIsPending
<1> QED
  BY <1>1, SentHolds, PTL
=============================================================================
