-------------------------------- MODULE Stream --------------------------------
(***************************************************************************)
(* One direction of an open connection, from CNetwork::tcpSend in one      *)
(* process to the handlers in another: Framing, the output buffer, the     *)
(* socket, the input buffer and the loop of onUnserialize, with the ways   *)
(* in which the connection ends: in an orderly way, forced, or broken.     *)
(*                                                                         *)
(* The buffers are queues of bytes, which is what RingBuffer implements;   *)
(* the sender is waiting for writability exactly while its buffer holds    *)
(* bytes (WriteInterestTracksBuffer of Network).                           *)
(***************************************************************************)
EXTENDS Framing

CONSTANTS Packets,  \* the packets that the application sends
          Room,     \* bytes that the socket holds
          IovMax,   \* the vectors that writev accepts
          Foreign,  \* what lies in the memory behind the array of vectors
          MaxSent   \* bound: packets sent

ASSUME StreamAssumption ==
  Room \in Nat /\ IovMax \in Nat /\ MaxSent \in Nat /\ Foreign \subseteq Bytes

(* The application sends what C++ lets it send. *)
ASSUME PacketsAssumption == \A p \in Packets: Packet(p)

VARIABLES state,     \* EConnectState of the sender
          out,       \* its output buffer
          socket,    \* bytes on their way
          fin,       \* the sending side of the socket is shut down
          input,     \* the input buffer of the receiver
          peer,      \* the receiver
          sent, got, \* history: packets taken by the stream; packets dispatched
          overtaken, \* history: bytes went past buffered ones
          foreign,   \* history: bytes that are not output were sent
          cut        \* the connection was removed and its socket closed

sender   == <<state, out, fin, sent, overtaken, foreign, cut>>
receiver == <<input, peer, got>>
vars == <<sender, receiver, socket>>

TypeOK ==
  /\ state \in {"CONNECTED", "DISCONNECTING", "DISCONNECTED"}
  /\ out \in Seq(Bytes) /\ input \in Seq(Bytes)
  /\ socket \in Seq(Bytes)
  /\ fin \in BOOLEAN /\ (fin => state # "CONNECTED" /\ out = <<>>)
  /\ peer \in {"open", "ended", "failed", "crashed"}
  /\ sent \in Seq(Packets) /\ Len(sent) <= MaxSent
  /\ {overtaken, foreign, cut} \subseteq BOOLEAN

Init ==
  /\ state = "CONNECTED" /\ out = <<>> /\ fin = FALSE
  /\ socket = <<>> /\ input = <<>> /\ peer = "open"
  /\ sent = <<>> /\ got = <<>>
  /\ overtaken = FALSE /\ foreign = FALSE /\ cut = FALSE

-------------------------------------------------------------------------------
(* The sender. *)

Lesser(m, n) == IF m < n THEN m ELSE n

(* write and writev on the nonblocking socket: what fits, or a part. *)
Takes(size) == 1..Lesser(size, Room - Len(socket))
First(bytes, n) == SubSeq(bytes, 1, n)
Rest(bytes, n)  == SubSeq(bytes, n + 1, Len(bytes))

Encoded == [p \in Packets |-> OnSerialize(p)]

(* Faulty variant: the whole message is buffered after a short write. *)
SendBuffersAll(p) ==
  /\ state = "CONNECTED" /\ Len(sent) < MaxSent
  /\ \E data \in {Encoded[p]}: \E n \in Takes(Len(data)):
       /\ socket' = socket \o First(data, n)
       /\ out' = out \o (IF n = Len(data) THEN <<>> ELSE data)
  /\ sent' = Append(sent, p)
  /\ overtaken' = (overtaken \/ out # <<>>)
  /\ UNCHANGED <<state, fin, foreign, cut, receiver>>

(* tcpSend.  A packet that serialises to nothing, and a packet of which    *)
(* the full socket takes nothing, are dropped: nothing changes.            *)
Send(p) ==
  /\ state = "CONNECTED" /\ Len(sent) < MaxSent
  /\ \E data \in {Encoded[p]}: \E n \in Takes(Len(data)):
       /\ socket' = socket \o First(data, n)
       /\ out' = out \o Rest(data, n)
  /\ sent' = Append(sent, p)
  /\ overtaken' = (overtaken \/ out # <<>>)
  /\ UNCHANGED <<state, fin, foreign, cut, receiver>>

(* handleTcpConWrite, when writev sends bytes of the buffer. *)
WriteOut ==
  /\ state # "DISCONNECTED" /\ out # <<>>
  /\ Len(out) <= IovMax
  /\ \E n \in Takes(Len(out)):
       /\ socket' = socket \o First(out, n)
       /\ out' = Rest(out, n)
       /\ fin' = (state = "DISCONNECTING" /\ n = Len(out))
  /\ UNCHANGED <<state, sent, overtaken, foreign, cut, receiver>>

(* handleTcpConWrite, when the vectors beyond the array of two send more   *)
(* bytes than the buffer has: nothing is confirmed.                        *)
WriteForeign ==
  /\ state # "DISCONNECTED" /\ Len(out) \in 3..IovMax
  /\ ~foreign /\ Len(socket) + Len(out) < Room
  /\ \E b \in Foreign: socket' = socket \o Append(out, b)
  /\ foreign' = TRUE
  /\ UNCHANGED <<state, out, fin, sent, overtaken, cut, receiver>>

(* In the other cases handleTcpConWrite changes nothing: writev fails for  *)
(* more than IovMax vectors, and it may fail for more than two.            *)
HandleTcpConWrite == WriteOut \/ WriteForeign

(* Faulty variant: the FIN does not wait for the output. *)
CloseFinNow ==
  /\ state = "CONNECTED"
  /\ state' = "DISCONNECTING"
  /\ fin' = TRUE
  /\ UNCHANGED <<out, sent, overtaken, foreign, cut, receiver, socket>>

(* An orderly close: tcpCloseConnection and tcpCloseConnector, not forced. *)
Close ==
  /\ state = "CONNECTED"
  /\ state' = "DISCONNECTING"
  /\ fin' = (out = <<>>)
  /\ UNCHANGED <<out, sent, overtaken, foreign, cut, receiver, socket>>

(* removeTcpCon: by the timer of an orderly close, or by an error of the   *)
(* socket (the network fails, or the receiver is gone).  Nothing is        *)
(* written from here on.                                                   *)
RemoveTcpCon ==
  /\ state \in {"CONNECTED", "DISCONNECTING"}
  /\ state' = "DISCONNECTED"
  /\ UNCHANGED <<out, fin, sent, overtaken, foreign, cut, receiver, socket>>

(* Faulty variant: the endpoint is not closed. *)
RecycleOpen ==
  /\ state = "DISCONNECTED" /\ ~cut
  /\ out' = <<>> /\ cut' = TRUE
  /\ \E n \in {0, Len(socket)}: socket' = First(socket, n)
  /\ UNCHANGED <<state, fin, sent, overtaken, foreign, receiver>>

(* onRecycle, when the last reference to the connection is gone: the       *)
(* socket is closed, and drops what it holds if input is unread or the     *)
(* connection is broken.                                                   *)
Recycle ==
  /\ state = "DISCONNECTED" /\ ~cut
  /\ out' = <<>> /\ fin' = TRUE /\ cut' = TRUE
  /\ \E n \in {0, Len(socket)}: socket' = First(socket, n)
  /\ UNCHANGED <<state, sent, overtaken, foreign, receiver>>

-------------------------------------------------------------------------------
(* The receiver.  handleTcpConRead runs the loop of onUnserialize to its   *)
(* end before it reads again.                                              *)

Reading == peer = "open" /\ ~HasBlock(input)

ReadSome ==
  /\ Reading
  /\ \E n \in 1..Len(socket):
       /\ input' = input \o First(socket, n)
       /\ socket' = Rest(socket, n)
  /\ UNCHANGED <<sender, peer, got>>

(* readv returns 0. *)
ReadEnd ==
  /\ Reading /\ socket = <<>> /\ fin
  /\ peer' = "ended" /\ input' = <<>>
  /\ UNCHANGED <<sender, got, socket>>

HandleTcpConRead == ReadSome \/ ReadEnd

OnUnserialize ==
  /\ peer = "open" /\ HasBlock(input)
  /\ \E turn \in {OnBlock(Head(input), First(input, BlockLength(input)))}:
       /\ input' = Rest(input, BlockLength(input))
       /\ got' = IF turn.what = "packet" THEN Append(got, turn.packet) ELSE got
       /\ peer' = CASE turn.what = "false" -> "failed"
                    [] turn.what = "crash" -> "crashed"
                    [] OTHER -> "open"
  /\ UNCHANGED <<sender, socket>>

-------------------------------------------------------------------------------
Next ==
  \/ \E p \in Packets: Send(p)
  \/ HandleTcpConWrite \/ Close \/ RemoveTcpCon \/ Recycle
  \/ HandleTcpConRead \/ OnUnserialize

Spec == Init /\ [][Next]_vars

(* Both network threads poll for ever, and the timer of an orderly close   *)
(* runs.  Recycle assumes two things of what is not in the repository: the *)
(* one-second timer of a connection (Network.cpp 461), which repeats until *)
(* onRecycle resets it, does not own the connection, so that the last of   *)
(* the other references releases it; and the network delivers the end.     *)
(* Nothing can be expected of a write with more than two vectors, and      *)
(* nobody makes the application act or the network fail.                   *)
FairSpec ==
  /\ Spec
  /\ WF_vars(HandleTcpConRead) /\ WF_vars(OnUnserialize)
  /\ WF_vars(state = "DISCONNECTING" /\ RemoveTcpCon) /\ WF_vars(Recycle)
  /\ WF_vars(HandleTcpConWrite /\ Len(out) <= 2)

-------------------------------------------------------------------------------
(* Properties. *)

Expected(packets) ==
  LET upTo[n \in 0..Len(packets)] ==
        IF n = 0 THEN <<>>
        ELSE IF Heartbeat(packets[n]) THEN upTo[n - 1]
        ELSE Append(upTo[n - 1], AsReceived(packets[n]))
  IN upTo[Len(packets)]

Handled == [i \in DOMAIN got |-> OnPacket(got[i])]

(* The bytes of every packet make onUnserialize dispatch that packet. *)
RoundTrips == \A p \in Packets: Encoded[p] = <<>> \/ RoundTrip(p, Encoded[p])

Broken == overtaken \/ foreign

(* The stream is a channel of messages until bytes overtake others or      *)
(* foreign memory is sent: whatever way messages are split by the two      *)
(* sockets and the two buffers, they are decoded as they were encoded, and *)
(* the end comes last.                                                     *)
Channel == INSTANCE MessageChannel WITH sent <- Expected(sent), got <- Handled,
                                        ended <- peer = "ended", broken <- Broken
ChannelSpec == Channel!Spec

(* Only then can the receiver meet an unknown type or a null pointer, or a *)
(* handler a message that ends within a field: an honest stream neither    *)
(* closes the connection nor crashes anyone.                               *)
NoFailure ==
  peer \in {"failed", "crashed"} \/ (\E i \in DOMAIN got: Handled[i].msg = NullPtr)
    => Broken

(* Every message is dispatched in the end, unless the connection was cut,  *)
(* bytes overtook others or foreign memory was sent, or a message, this    *)
(* one or a later one, leaves more than two bytes in the output buffer:    *)
(* no block waits for bytes that have come already.                        *)
AllArrive ==
  (Len(out) <= 2) ~> (Broken \/ cut \/ Handled = Expected(sent) \/ Len(out) > 2)

(* An orderly close reaches the receiver, also when the output is stuck:   *)
(* then by the forced close, and only if the connection is released after  *)
(* it (see FairSpec).                                                      *)
EndArrives == (state = "DISCONNECTING") ~> (peer # "open")

(* What the test module relies on: a packet arrives as it was sent, and in *)
(* order (TestModule.cpp:15-26 takes the message of every packet for the   *)
(* one it sent, without a check).  Foreign bytes set aside.                *)
StreamInOrder == ~foreign => IsPrefix(Handled, Expected(sent))

(* What the logs of the two short writes say, that of tcpSend ("con write  *)
(* bigger", TCP_Network.cpp 284) and that of handleTcpConWrite ("con write *)
(* messge size: ... remain: ...", line 161): what is left in the output    *)
(* buffer remains to be sent.                                              *)
OutputDrains ==
  (state = "CONNECTED" /\ Len(out) > IovMax) ~> (state # "CONNECTED" \/ Len(out) <= IovMax)

===============================================================================
