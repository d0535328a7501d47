-------------------------------- MODULE Framing -------------------------------
(***************************************************************************)
(* InnerProtocol (engine/InnerProtocol.cpp, Headers.h): how a packet       *)
(* becomes bytes of a stream and back, with the messages in it             *)
(* (Messages.cpp) and their conversion for a handler (PacketHandlers.cpp). *)
(*                                                                         *)
(* A packet is a record: cmd, cb (the callback id), err and msg, which is  *)
(* NoMessage or the identity and the fields of a message.                  *)
(***************************************************************************)
EXTENDS Buffers

CONSTANTS NoMessage, \* a packet without a message
          Schema,    \* per identity with a creator, the types of the fields
          InitSize   \* the buffer a SerializeMessage starts with: 128

(* A null pointer and no message are none of the things that they are told *)
(* apart from.                                                             *)
ASSUME NullAssumption ==
  /\ NullPtr \notin Seq(Bytes) /\ NullPtr # NoMessage
  /\ \A x \in {NullPtr, NoMessage}: x \notin [id: Nat, bytes: Seq(Bytes)]

(* The fields of a message have the types that Serialize is written for,   *)
(* with numbers as the keys of sets and maps.                              *)
ASSUME SchemaAssumption ==
  \A id \in DOMAIN Schema:
    Len(Schema[id]) \in Nat /\ \A i \in 1..Len(Schema[id]): FieldType(Schema[id][i])

HeaderTypeCall     == Base - 3
HeaderTypeCallback == Base - 2
HeaderTypeMessage  == Base - 1

Heart == 1

(* sizeof of a header with so many 32-bit fields, the size included. *)
HeaderSize(fields) == 1 + fields * Width
BlockSize == HeaderSize(1)

-------------------------------------------------------------------------------
(* SerializeMessage(message): the fields, packed into a Buffer. *)
SerializeMessage(msg) ==
  Contents(Pack(Writer(NewBuffer(InitSize)), Schema[msg.id], msg.values).buf)

(* The identity and the bytes of the message, in innerBuf. *)
InnerData(msg) ==
  IF msg = NoMessage THEN <<>>
  ELSE Contents(WriteBytes(WriteInt(Writer(NewStackBuffer), msg.id, Width),
                           SerializeMessage(msg)).buf)

(* A header, its size included, and the data behind it, in the buffer of   *)
(* tcpSend.                                                                *)
Header(type, total, fields) ==
  <<type>> \o (Encode(total, Width) \o (Encode(fields[1], Width) \o
              (IF Len(fields) = 1 THEN <<>> ELSE Encode(fields[2], Width))))

(* Faulty variant: the size leaves out the header. *)
FrameDataSize(type, fields, data) == Header(type, Len(data), fields) \o data

Frame(type, fields, data) ==
  LET total == HeaderSize(1 + Len(fields)) + Len(data)
  IN Contents(Write(NewStackBuffer, 0, Header(type, total, fields) \o data))

HeaderType(p) ==
  CASE p.cmd # 0 /\ p.cb # 0 -> HeaderTypeCall
    [] p.cmd # 0 /\ p.cb = 0 -> HeaderTypeMessage
    [] p.cmd = 0             -> HeaderTypeCallback

HeaderFields(p) ==
  CASE p.cmd # 0 /\ p.cb # 0 -> <<p.cmd, p.cb>>
    [] p.cmd # 0 /\ p.cb = 0 -> <<p.cmd>>
    [] p.cmd = 0             -> <<p.cb, p.err>>

(* onSerialize.  A packet with neither a command nor a callback is nothing. *)
OnSerialize(p) ==
  IF p.cmd = 0 /\ p.cb = 0 THEN <<>>
  ELSE Frame(HeaderType(p), HeaderFields(p), InnerData(p.msg))

-------------------------------------------------------------------------------
(* onUnserialize: one turn of its loop, on the bytes of the input buffer.  *)

BlockLength(input) == Decode(SubSeq(input, 2, BlockSize))

(* Faulty variant: a block that ends the input is left there. *)
HasBlockStrict(input) == Len(input) >= BlockSize /\ BlockLength(input) < Len(input)

(* The loop goes on: a block is there, with all the bytes it announces. *)
HasBlock(input) == Len(input) >= BlockSize /\ BlockLength(input) <= Len(input)

(* innerBuf takes the block; reading beyond its end gives NullPtr. *)
InnerRead(block, pos, n) ==
  IF pos + n > Len(block) THEN NullPtr ELSE SubSeq(block, pos + 1, pos + n)

(* The message behind the header, NullPtr when its identity is cut off. A  *)
(* message without bytes is no message.                                    *)
MessageBehind(block, fields) ==
  LET id == InnerRead(block, HeaderSize(fields), Width)
      at == HeaderSize(fields) + Width
  IN IF Len(block) = HeaderSize(fields) THEN NoMessage
     ELSE IF id = NullPtr THEN NullPtr
     ELSE IF Len(block) = at THEN NoMessage
     ELSE [id |-> Decode(id), bytes |-> InnerRead(block, at, Len(block) - at)]

(* A turn: "packet", with the packet dispatched, "heart", "false" for an  *)
(* unknown type, or "crash" on a null pointer or a failed assertion.       *)
Turn(what, packet) == [what |-> what, packet |-> packet]
Crash == Turn("crash", NoMessage)

DispatchPacket(cmd, cb, err, m) ==
  IF m = NullPtr THEN Crash
  ELSE Turn("packet", [cmd |-> cmd, cb |-> cb, err |-> err, msg |-> m])

HandlerHeart(m) == IF m = NullPtr THEN Crash ELSE Turn("heart", NoMessage)

(* The type is what lies at the head of the input, however short the block. *)
OnBlock(type, block) ==
  LET field(i) == Decode(InnerRead(block, HeaderSize(i), Width))
      fields == IF type = HeaderTypeMessage THEN 2 ELSE 3
  IN IF type \notin {HeaderTypeCall, HeaderTypeCallback, HeaderTypeMessage}
     THEN Turn("false", NoMessage)
     ELSE IF Len(block) < HeaderSize(fields) THEN Crash
     ELSE CASE type = HeaderTypeCall     ->
                 DispatchPacket(field(1), field(2), 0, MessageBehind(block, 3))
            [] type = HeaderTypeCallback ->
                 DispatchPacket(0, field(1), field(2), MessageBehind(block, 3))
            [] type = HeaderTypeMessage  ->
                 IF field(1) = Heart THEN HandlerHeart(MessageBehind(block, 2))
                 ELSE DispatchPacket(field(1), 0, 0, MessageBehind(block, 2))

-------------------------------------------------------------------------------
(* MessageHandler::onPacket: what the handler of a packet is given.  A     *)
(* null message passes; a SerializeMessage is converted, to nothing if     *)
(* its identity has no creator, to NullPtr if it ends within a field.      *)
OnMessageConvert(m) ==
  IF m = NoMessage \/ m.id \notin DOMAIN Schema THEN NoMessage
  ELSE LET u == Unpack(Reader(Write(NewBuffer(Len(m.bytes)), 0, m.bytes)), Schema[m.id])
       IN IF u.failed THEN NullPtr ELSE [id |-> m.id, values |-> u.value]

OnPacket(p) == [p EXCEPT !.msg = OnMessageConvert(@)]

-------------------------------------------------------------------------------
(* The packets that an application can send: numbers of 32 bits, a message *)
(* with the fields of its type, and an int32 as size.                      *)

Message(m) ==
  /\ m # NullPtr /\ m = [id |-> m.id, values |-> m.values]
  /\ Fits(m.id, Width) /\ m.id \in DOMAIN Schema
  /\ Len(m.values) = Len(Schema[m.id]) /\ m.values = [i \in 1..Len(m.values) |-> m.values[i]]
  /\ \A i \in 1..Len(m.values): Field(Schema[m.id][i], m.values[i])

Packet(p) ==
  /\ p = [cmd |-> p.cmd, cb |-> p.cb, err |-> p.err, msg |-> p.msg]
  /\ Fits(p.cmd, Width) /\ Fits(p.cb, Width) /\ Fits(p.err, Width)
  /\ p.msg = NoMessage \/ Message(p.msg)
  /\ Counts(HeaderSize(1 + Len(HeaderFields(p))) + Len(InnerData(p.msg)))

(* The packet as the receiver should see it: what the header of its type   *)
(* does not carry is zero, and a message without fields is no message.     *)
AsReceived(p) ==
  [cmd |-> p.cmd, cb |-> p.cb,
   err |-> IF p.cmd = 0 THEN p.err ELSE 0,
   msg |-> IF p.msg # NoMessage /\ p.msg.values = <<>> THEN NoMessage ELSE p.msg]

(* Heartbeats keep the connection alive and reach no handler. *)
Heartbeat(p) == p.cmd = Heart /\ p.cb = 0

(* The codec: the bytes of a packet, as they are and taken for a block,    *)
(* make onUnserialize dispatch what onSerialize was given.                 *)
RoundTrip(p, data) ==
  /\ data \in Seq(Bytes)
  /\ Len(data) >= BlockSize /\ BlockLength(data) = Len(data)
  /\ LET turn == OnBlock(Head(data), data)
     IN IF Heartbeat(p) THEN turn.what = "heart"
        ELSE turn.what = "packet" /\ OnPacket(turn.packet) = AsReceived(p)

===============================================================================
