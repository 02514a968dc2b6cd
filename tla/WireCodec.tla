----------------------------- MODULE WireCodec ------------------------------
(***************************************************************************)
(* minirpc's codec: ProtobufWireCodec inside length-prefixed frames, from  *)
(* the frame of a message to the message another process makes of it.      *)
(*                                                                         *)
(* Widths are parameters.  A byte holds a group of a varint and a flag, a  *)
(* word is a uint64 and half a word a uint32 (2^7, 2^64 and 2^32 in the    *)
(* code); tags keep their three bits of wire type.  A behaviour decodes    *)
(* one payload: an encoding, whole or tampered with, or noise.  Operators  *)
(* named Mutant... are plausible mistakes in the definition below them.    *)
(***************************************************************************)
EXTENDS Integers, Sequences, SequencesExt

CONSTANTS Group, Word, Half,  \* values of a group, of a uint64, of a uint32
          MaxFrame,           \* kMaxFrameSize
          Messages,           \* what is encoded
          Updates,            \* messages encoded behind another in one payload
          Unknown,            \* fields of a later schema, encoded
          Noise,              \* payloads that no encoder made
          Tails               \* what follows a frame in the read buffer

Byte == 2 * Group

\* Every field's tag fits a word, and every frame's size fits the word and four bytes.
ASSUME WidthsAssumption ==
  /\ Group \in Nat /\ Group >= 2 /\ Half \in Nat /\ Half >= 8 /\ MaxFrame \in Nat \ {0}
  /\ Word \in Nat /\ Word >= 8 * Half
  /\ MaxFrame < Word /\ MaxFrame < Byte * Byte * Byte * Byte

VARIABLES
  how, origin,        \* history: what was done to the encodings of which messages
  tail,               \* history: what follows the frame in read_buffer_
  buffer,             \* read_buffer_
  wire, pos,          \* decode(): the payload and the position in it
  msg,                \* decode(): the message so far
  state

vars == <<how, origin, tail, buffer, wire, pos, msg, state>>

FieldName == <<"id", "kind", "service", "method", "payload", "status", "error">>
Numbers == {1, 2, 6}
Texts == {3, 4, 5, 7}
Empty == [id |-> 0, kind |-> 0, service |-> <<>>, method |-> <<>>, payload |-> <<>>,
          status |-> 0, error |-> <<>>]
Default(f) == Empty[FieldName[f]]

\* Wire types, and the sizes of those of a fixed size.
Varint == 0
Fixed64 == 1
Delimited == 2
Fixed32 == 5
MutantFixedSize == [t \in {Fixed64, Fixed32} |-> 8]
FixedSize == [t \in {Fixed64, Fixed32} |-> IF t = Fixed64 THEN 8 ELSE 4]
-----------------------------------------------------------------------------
(* encode()                                                                *)

WriteVarint[v \in 0..(Word - 1)] ==
  IF v < Group THEN <<v>> ELSE <<(v % Group) + Group>> \o WriteVarint[v \div Group]
WriteTag(f, t) == WriteVarint[(f * 8) + t]
WriteDelimited(f, s) == WriteTag(f, Delimited) \o WriteVarint[Len(s)] \o s

\* static_cast<std::uint32_t> of kind and status; id is a uint64 already.
Cast(f, v) == IF f = 1 THEN v ELSE v % Half

EncodeField(m, f) ==
  LET v == m[FieldName[f]] IN
  IF v = Default(f) THEN <<>>
  ELSE IF f \in Texts THEN WriteDelimited(f, v)
  ELSE WriteTag(f, Varint) \o WriteVarint[Cast(f, v)]

EncodeFields(m, from, to) == FlattenSeq([i \in 1..(to - from + 1) |-> EncodeField(m, from + i - 1)])
Encode(m) == EncodeFields(m, 1, 7)

EncodeFrameSize(n) == <<(n \div (Byte * Byte * Byte)) % Byte, (n \div (Byte * Byte)) % Byte,
                        (n \div Byte) % Byte, n % Byte>>
DecodeFrameSize(b) == ((b[1] * Byte + b[2]) * Byte + b[3]) * Byte + b[4]
MakeFrame(p) == EncodeFrameSize(Len(p)) \o p
-----------------------------------------------------------------------------
(* The payloads.  Session::send() makes no frame above kMaxFrameSize.      *)

Bytes == 0..(Byte - 1)
MessagesWith(statuses) ==
  [id : 0..(Word - 1), kind : 0..(Half - 1), status : statuses, service : Seq(Bytes),
   method : Seq(Bytes), payload : Seq(Bytes), error : Seq(Bytes)]
MessageType == MessagesWith(0..(Half \div 2 - 1))
SentType == MessagesWith((-(Half \div 2))..(Half \div 2 - 1))
Sendable == {m \in SentType : \A f \in Texts : Len(m[FieldName[f]]) < Word}

\* A field of a later schema: another number, and a whole value of its wire type.
WholeValue(t, b) ==
  \/ t = Varint /\ \E v \in 0..(Word - 1) : b = WriteVarint[v]
  \/ t = Fixed64 /\ Len(b) = 8
  \/ t = Fixed32 /\ Len(b) = 4
  \/ t = Delimited /\ \E n \in 0..Len(b) :
       n < Word /\ b = WriteVarint[n] \o SubSeq(b, Len(b) - n + 1, Len(b))
LaterField(u) ==
  \E f \in (0..(Half - 1)) \ (1..7), t \in 0..7, n \in 0..Len(u) :
    u = WriteTag(f, t) \o SubSeq(u, n + 1, Len(u)) /\ WholeValue(t, SubSeq(u, n + 1, Len(u)))

ASSUME InputsAssumption ==
  /\ Messages \subseteq Sendable /\ Updates \subseteq Sendable
  /\ Noise \subseteq Seq(Bytes) /\ Tails \subseteq Seq(Bytes) /\ <<>> \in Tails
  /\ \A u \in Unknown : u \in Seq(Bytes) /\ LaterField(u)

Payload(h, m, p) ==
  /\ how = h /\ origin = m
  /\ Len(p) <= MaxFrame
  /\ tail \in Tails /\ buffer = MakeFrame(p) \o tail

Cuts(m) == 0..(Len(Encode(m)) - 1)
Init ==
  /\ \/ \E m \in Messages : Payload("whole", <<m>>, Encode(m))
     \/ \E m \in Messages : \E n \in Cuts(m) : Payload("cut", <<m>>, SubSeq(Encode(m), 1, n))
     \/ \E m \in Messages, u \in Unknown, k \in 0..7 :
          Payload("unknown", <<m>>, EncodeFields(m, 1, k) \o u \o EncodeFields(m, k + 1, 7))
     \/ \E m \in Messages, n \in Updates : Payload("merged", <<m, n>>, Encode(m) \o Encode(n))
     \/ \E p \in Noise : Payload("noise", <<>>, p)
     \/ how = "noise" /\ origin = <<>> /\ tail = <<>> /\ buffer \in Noise
  /\ wire = <<>> /\ pos = 1 /\ msg = Empty /\ state = "buffered"
-----------------------------------------------------------------------------
(* try_pop_frame() on a buffer that holds a frame and more.                *)

FrameSize == DecodeFrameSize(buffer)
FrameWhole == Len(buffer) >= 4 /\ FrameSize <= MaxFrame /\ Len(buffer) >= 4 + FrameSize

MutantBehind == <<>>                      \* clear(), not erase(), after the pop
Behind == SubSeq(buffer, 5 + FrameSize, Len(buffer))

PopFrame ==
  /\ state = "buffered" /\ FrameWhole /\ state' = "decoding"
  /\ wire' = SubSeq(buffer, 5, 4 + FrameSize)
  /\ buffer' = Behind
  /\ UNCHANGED <<how, origin, tail, pos, msg>>

FrameUnread ==                            \* NeedMore or TooLarge
  /\ state = "buffered" /\ ~FrameWhole /\ state' = "unread"
  /\ UNCHANGED <<how, origin, tail, buffer, wire, pos, msg>>
-----------------------------------------------------------------------------
(* decode(): each step is one turn of its loop, one field of the payload.  *)

\* read_varint() at position p: it gives up at the end of the payload and after the
\* groups a word has room for, and drops the bits of the last one beyond the word.
Groups == Len(WriteVarint[Word - 1])
Ends(p) == {n \in 1..Groups : p + n - 1 <= Len(wire) /\ wire[p + n - 1] < Group}
Readable(p) == Ends(p) # {}
After(p) == p + Min(Ends(p))
\* The groups of a value come lowest first: sum[n] is what the last n of them make.
Sum(p) == LET sum[n \in 0..Min(Ends(p))] ==
                IF n = 0 THEN 0 ELSE sum[n - 1] * Group + (wire[After(p) - n] % Group)
          IN sum[Min(Ends(p))]
MutantValue(p) == Sum(p)                  \* a type wider than the word
Value(p) == Sum(p) % Word

FieldNumber == (Value(pos) \div 8) % Half
WireType == Value(pos) % 8
Left(p) == Len(wire) + 1 - p

\* The position after a field whose value is at p, 0 where there is no whole value.
Size(p) == Value(p)
MutantAfterDelimited(p) ==                \* substr() takes what there is
  IF Readable(p) THEN Min({After(p) + Size(p), Len(wire) + 1}) ELSE 0
AfterDelimited(p) == IF Readable(p) /\ Size(p) <= Left(After(p)) THEN After(p) + Size(p) ELSE 0
AfterValue(t, p) ==
  CASE t = Varint -> IF Readable(p) THEN After(p) ELSE 0
    [] t = Delimited -> AfterDelimited(p)
    [] t \in DOMAIN FixedSize -> IF FixedSize[t] <= Left(p) THEN p + FixedSize[t] ELSE 0
    [] OTHER -> 0

\* std::nullopt: no whole tag, no whole value, the wrong wire type, or a status that is
\* no int32.
At == After(pos)                          \* where the value of the field begins
Whole == Readable(pos) /\ AfterValue(WireType, At) # 0
Expected ==
  /\ FieldNumber \in Numbers => WireType = Varint
  /\ FieldNumber \in Texts => WireType = Delimited
  /\ FieldNumber = 6 => Value(At) < Half \div 2
InField == state = "decoding" /\ pos <= Len(wire)
Accepted == InField /\ Whole /\ Expected

Refuse ==
  /\ InField /\ ~(Whole /\ Expected) /\ state' = "refused"
  /\ UNCHANGED <<how, origin, tail, buffer, wire, pos, msg>>

Take(f, v) ==
  /\ FieldNumber = f /\ msg' = [msg EXCEPT ![FieldName[f]] = v]
  /\ pos' = AfterValue(WireType, At)
  /\ UNCHANGED <<how, origin, tail, buffer, wire, state>>

\* A kind is cast to its uint32, whether the enumeration has it or not.
TakeNumber == \E f \in Numbers : Accepted /\ Take(f, IF f = 2 THEN Value(At) % Half ELSE Value(At))

MutantKeepFirst ==                        \* only a field that has no value yet is set
  \E f \in Texts : /\ Accepted
                   /\ Take(f, IF msg[FieldName[f]] # <<>> THEN msg[FieldName[f]]
                              ELSE SubSeq(wire, After(At), AfterDelimited(At) - 1))
TakeText ==
  \E f \in Texts : Accepted /\ Take(f, SubSeq(wire, After(At), AfterDelimited(At) - 1))

SkipField ==
  /\ Accepted /\ FieldNumber \notin 1..7
  /\ pos' = AfterValue(WireType, At)
  /\ UNCHANGED <<how, origin, tail, buffer, wire, msg, state>>

Done ==
  /\ state = "decoding" /\ pos = Len(wire) + 1 /\ state' = "decoded"
  /\ UNCHANGED <<how, origin, tail, buffer, wire, pos, msg>>
-----------------------------------------------------------------------------
\* A process sends on what it made of noise.
Forward ==
  /\ state = "decoded" /\ how = "noise" /\ Len(Encode(msg)) <= MaxFrame
  /\ how' = "whole" /\ origin' = <<msg>>
  /\ tail' = <<>> /\ buffer' = MakeFrame(Encode(msg))
  /\ wire' = <<>> /\ pos' = 1 /\ msg' = Empty /\ state' = "buffered"

Next == \/ PopFrame \/ FrameUnread \/ Done \/ Refuse \/ Forward \/ SkipField \/ TakeNumber \/ TakeText

Spec == Init /\ [][Next]_vars
-----------------------------------------------------------------------------
Ended == state \in {"unread", "decoded", "refused"}
Decoded(m) == state = "decoded" /\ msg = m
\* Every variable has its type: what is decoded fits the members of RpcMessage, and no
\* step reads or stops beyond the end of the payload.
TypeOK ==
  /\ state \in {"buffered", "unread", "decoding", "decoded", "refused"}
  /\ how \in {"whole", "cut", "unknown", "merged", "noise"}
  /\ origin \in Seq(SentType)
  /\ tail \in Seq(Bytes) /\ buffer \in Seq(Bytes) /\ wire \in Seq(Bytes)
  /\ pos \in 1..(Len(wire) + 1)
  /\ msg \in MessageType

\* A frame made by Session::send() is read as that frame, exactly what follows it stays
\* in the buffer, and its message arrives with every field as it was, defaults included.
\* It holds of what a process forwards, too.
RoundTrip == how = "whole" /\ Ended => Decoded(origin[1]) /\ buffer = tail

\* A field that a later schema adds, of any wire type and at any place, is skipped.
ForwardCompatible == how = "unknown" /\ Ended => Decoded(origin[1])

\* A payload cut short is refused, except between two fields: then it is the message of
\* the fields before the cut.
WholeFieldsOnly ==
  how = "cut" /\ Ended =>
    LET m == origin[1]
        Boundaries == {k \in 0..7 : Len(EncodeFields(m, 1, k)) = Len(wire)}
        First(k) == [x \in DOMAIN m |->
                       IF \E f \in 1..k : FieldName[f] = x THEN m[x] ELSE Empty[x]]
    IN IF Boundaries = {} THEN state = "refused"
       ELSE \A k \in Boundaries : Decoded(First(k))

\* Of a field that comes twice the last value counts, as in proto3: two encodings one
\* behind the other are the first message with the second's fields over it.
LastValueWins ==
  how = "merged" /\ Ended =>
    Decoded([x \in DOMAIN Empty |->
               IF origin[2][x] = Empty[x] THEN origin[1][x] ELSE origin[2][x]])
=============================================================================
