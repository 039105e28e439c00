----------------------------- MODULE TcpChannel -----------------------------
(***************************************************************************)
(* One TcpConnection between an rpc client and a TcpServer: messages framed*)
(* by their length are cut into whatever pieces the sockets take, and put  *)
(* together in in_buf_, which is trimmed, doubled and shrunk on the way.   *)
(*                                                                         *)
(* The client writes a message and, if it HasResponse, reads the response. *)
(* The server has one outstanding operation: a read, or the write of a     *)
(* response.  A byte is its message and its place in it.                   *)
(***************************************************************************)
EXTENDS Integers, Sequences, SequencesExt

CONSTANTS Header,          \* sizeof(int), the length in front of a message
          Packet,          \* the sizes of messages, Header included
          Initial, Big,    \* INITIAL_BUF_BYTES, MAX_BUF_BYTES
          MaxMessages,     \* bound: calls of the client on a connection
          MaxConnections   \* bound: calls of Connect

\* What the constants may be.
ChannelConstants ==
  /\ Header \in Nat \ {0} /\ Packet \subseteq Nat /\ \A n \in Packet : n >= Header
  /\ Initial \in Nat \ {0} /\ Big \in Nat
  /\ MaxMessages \in Nat /\ MaxConnections \in Nat \ {0}

VARIABLES conn,      \* the number of the connection
          up,        \* FALSE: it is broken
          pc,        \* what each end is doing
          wire,      \* bytes on the way to each end
          buf,       \* in_buf_, in_buf_offset_ and in_bytes_ of each end
          out,       \* the bytes of out_stream_ after out_bytes_, of each end
          sent,      \* history: messages on their way to each end, all so far
          handled    \* history: messages each end has deserialized

channelVars == <<conn, up, pc, wire, buf, out, sent, handled>>

End == {"client", "server"}
Peer(e) == IF e = "client" THEN "server" ELSE "client"

Message == [conn : 1..MaxConnections, id : 1..MaxMessages, size : Packet, reply : BOOLEAN]

Bytes(m) == [i \in 1..m.size |-> [msg |-> m, at |-> i]]

\* a byte of the buffer nobody has written
Blank == [msg |-> [conn |-> 0, id |-> 0, size |-> 0, reply |-> FALSE], at |-> 0]

Zeros(n) == [i \in 1..n |-> Blank]

Fresh == [data |-> Zeros(Initial), offset |-> 0, bytes |-> 0]

-----------------------------------------------------------------------------
(* GetInBuf and TryReadMessage. *)

\* Mutant: the offset is forgotten, the bytes stay.
TrimmedNothing(b) == [data |-> b.data, offset |-> 0, bytes |-> b.bytes]

\* the leading in_buf_offset_ bytes are erased
Trimmed(b) ==
  [data |-> SubSeq(b.data, b.offset + 1, Len(b.data)), offset |-> 0, bytes |-> b.bytes]

\* Mutant: a full buffer is not enlarged.
ResizedNever(b) == b

\* a full buffer is doubled, a large empty one is cut
Resized(b) ==
  IF Len(b.data) = b.bytes
    THEN [data |-> b.data \o Zeros(Len(b.data)), offset |-> b.offset, bytes |-> b.bytes]
  ELSE IF b.bytes = 0 /\ Len(b.data) > Big THEN Fresh
  ELSE b

GetInBuf(b) == Resized(Trimmed(b))

\* the message whose first Header bytes are at the offset, if they are that
Framed(b) ==
  {m \in {b.data[b.offset + i].msg : i \in 1..Header} :
     \A i \in 1..Header : b.data[b.offset + i] = [msg |-> m, at |-> i]}

\* packet_bytes: whatever the bytes say, when they are not a length
PacketBytes(b) ==
  IF Framed(b) = {} THEN 0..(2 * Len(b.data)) ELSE {m.size : m \in Framed(b)}

\* Mutant: a message is complete when a byte of the next has come.
IncompleteWhenExact(b) ==
  b.bytes >= Header => \E n \in PacketBytes(b) : b.bytes <= n

\* TryReadMessage returns 1.
Incomplete(b) ==
  b.bytes >= Header => \E n \in PacketBytes(b) : b.bytes < n

\* The n bytes at the offset are m.
IsMessage(b, n, m) ==
  /\ m \in Framed(b) /\ n = m.size
  /\ \A i \in 1..n : b.data[b.offset + i] = [msg |-> m, at |-> i]

\* The packet is taken out of the buffer.
Taken(b, n) ==
  IF b.bytes = n THEN [data |-> b.data, offset |-> 0, bytes |-> 0]
  ELSE [data |-> b.data, offset |-> b.offset + n, bytes |-> b.bytes - n]

-----------------------------------------------------------------------------
(* Calls, and the steps of the sockets. *)

ChannelInit ==
  /\ conn = 1 /\ up = TRUE
  /\ pc = [client |-> "idle", server |-> "read"]
  /\ wire = [e \in End |-> <<>>]
  /\ buf = [e \in End |-> Fresh]
  /\ out = [e \in End |-> <<>>]
  /\ sent = [e \in End |-> <<>>]
  /\ handled = [e \in End |-> <<>>]

\* PrepareOutBuf: e is about to write m.
Prepare(e, m) ==
  /\ out' = [out EXCEPT ![e] = Bytes(m)]
  /\ sent' = [sent EXCEPT ![Peer(e)] = Append(@, m)]

\* RpcWrite of a request or a notify
Call ==
  /\ pc["client"] = "idle"
  /\ Len(sent["server"]) < MaxMessages
  /\ \E n \in Packet, r \in BOOLEAN :
       Prepare("client", [conn |-> conn, id |-> Len(sent["server"]) + 1, size |-> n, reply |-> r])
  /\ pc' = [pc EXCEPT !["client"] = "write"]
  /\ UNCHANGED <<conn, up, wire, buf, handled>>

\* after the last byte: the response is read, or the next message handled
Written(e) ==
  IF e = "server" \/ Last(sent["server"]).reply THEN "parse" ELSE "idle"

\* write_some or async_write_some takes part of the message
WriteSome(e) ==
  /\ pc[e] = "write" /\ up
  /\ \E n \in 1..Len(out[e]) :
       /\ wire' = [wire EXCEPT ![Peer(e)] = @ \o SubSeq(out[e], 1, n)]
       /\ out' = [out EXCEPT ![e] = SubSeq(@, n + 1, Len(@))]
       /\ pc' = [pc EXCEPT ![e] = IF n = Len(out[e]) THEN Written(e) ELSE @]
  /\ UNCHANGED <<conn, up, buf, sent, handled>>

\* The bytes s, written behind those in the buffer.
Filled(b, s) ==
  [data |-> SubSeq(b.data, 1, b.bytes) \o s \o SubSeq(b.data, b.bytes + Len(s) + 1, Len(b.data)),
   offset |-> b.offset, bytes |-> b.bytes + Len(s)]

\* receive or async_read_some fills part of the room in the buffer
ReadSome(e) ==
  /\ pc[e] = "read"
  /\ \E n \in 1..Len(wire[e]) :
       /\ n <= Len(buf[e].data) - buf[e].bytes
       /\ buf' = [buf EXCEPT ![e] = Filled(@, SubSeq(wire[e], 1, n))]
       /\ wire' = [wire EXCEPT ![e] = SubSeq(@, n + 1, Len(@))]
  /\ pc' = [pc EXCEPT ![e] = "parse"]
  /\ UNCHANGED <<conn, up, out, sent, handled>>

\* AsyncRead, or the next receive of ReadMessage
NeedMore(e) ==
  /\ pc[e] = "parse"
  /\ Incomplete(buf[e])
  /\ buf' = [buf EXCEPT ![e] = GetInBuf(@)]
  /\ pc' = [pc EXCEPT ![e] = "read"]
  /\ UNCHANGED <<conn, up, wire, out, sent, handled>>

\* OnReadMessage: a request is answered, a notify is not, and the loop of
\* OnRead goes on; the client has the response it waited for.
Handle(e, m) ==
  /\ handled' = [handled EXCEPT ![e] = Append(@, m)]
  /\ IF e = "server" /\ m.reply
       THEN /\ \E n \in Packet :
                 Prepare(e, [conn |-> m.conn, id |-> m.id, size |-> n, reply |-> FALSE])
            /\ pc' = [pc EXCEPT ![e] = "write"]
       ELSE /\ pc' = [pc EXCEPT ![e] = IF e = "server" THEN "parse" ELSE "idle"]
            /\ UNCHANGED <<out, sent>>

\* TryReadMessage returns 0.
ReadMessage(e) ==
  /\ pc[e] = "parse"
  /\ buf[e].bytes >= Header
  /\ \E n \in PacketBytes(buf[e]) :
       /\ n <= buf[e].bytes
       /\ \E m \in Framed(buf[e]) : IsMessage(buf[e], n, m) /\ Handle(e, m)
       /\ buf' = [buf EXCEPT ![e] = Taken(@, n)]
  /\ UNCHANGED <<conn, up, wire>>

\* TryReadMessage returns -2: Close, DeleteConnection.  (Bytes that are not a
\* message may also happen to look like one; that case is left out.)
Garbage(e) ==
  /\ pc[e] = "parse"
  /\ buf[e].bytes >= Header
  /\ \E n \in PacketBytes(buf[e]) :
       n <= buf[e].bytes /\ ~\E m \in Framed(buf[e]) : IsMessage(buf[e], n, m)
  /\ pc' = [pc EXCEPT ![e] = "closed"] /\ up' = FALSE
  /\ UNCHANGED <<conn, wire, buf, out, sent, handled>>

-----------------------------------------------------------------------------
(* The connection breaks: the server stops, or the network does. *)

Break ==
  /\ up /\ up' = FALSE
  /\ UNCHANGED <<conn, pc, wire, buf, out, sent, handled>>

\* An operation fails, with bytes unread or not: Close, DeleteConnection.
Fail(e) ==
  /\ ~up
  /\ pc[e] \in {"read", "write", "idle"}
  /\ pc' = [pc EXCEPT ![e] = "closed"]
  /\ UNCHANGED <<conn, up, wire, buf, out, sent, handled>>

\* TcpConnection::Connect: a new socket for the same TcpConnection.  At the
\* server it is a new TcpConnection; the old one is out of sight.
Connect ==
  /\ pc["client"] = "closed" /\ conn < MaxConnections
  /\ conn' = conn + 1 /\ up' = TRUE
  /\ pc' = [client |-> "idle", server |-> "read"]
  /\ wire' = [e \in End |-> <<>>]
  /\ buf' = [buf EXCEPT !["server"] = Fresh]
  /\ out' = [e \in End |-> <<>>]
  /\ sent' = [e \in End |-> <<>>]
  /\ handled' = [e \in End |-> <<>>]

Step(e) == WriteSome(e) \/ ReadSome(e) \/ NeedMore(e) \/ ReadMessage(e) \/ Garbage(e) \/ Fail(e)

ChannelNext == Call \/ Break \/ Connect \/ \E e \in End : Step(e)

ChannelSpec == ChannelInit /\ [][ChannelNext]_channelVars

-----------------------------------------------------------------------------
(* Properties. *)

ChannelTypeOK ==
  /\ conn \in 1..MaxConnections /\ up \in BOOLEAN
  /\ pc \in [End -> {"idle", "write", "read", "parse", "closed"}]
  /\ \A e \in End :
       /\ buf[e].offset \in Nat /\ buf[e].bytes \in Nat
       /\ buf[e].offset + buf[e].bytes <= Len(buf[e].data)
       /\ sent[e] \in Seq(Message) /\ handled[e] \in Seq(Message)

\* Both ends are fresh TcpConnections: nothing of an earlier one is in a buffer.
New == conn = 1

\* On a new connection an end has deserialized what the other has written,
\* message for message and in order, however the bytes were cut; and no byte
\* is lost or taken for another on the way into the next message: behind the
\* offset are exactly the bytes of the messages not yet handled.
InOrder ==
  New => \A e \in End :
    LET unread == SubSeq(buf[e].data, buf[e].offset + 1, buf[e].offset + buf[e].bytes)
                    \o wire[e] \o out[Peer(e)]
        pending == SubSeq(sent[e], Len(handled[e]) + 1, Len(sent[e]))
    IN  /\ handled[e] = SubSeq(sent[e], 1, Len(handled[e]))
        /\ unread = FlattenSeq([i \in DOMAIN pending |-> Bytes(pending[i])])

\* A read is never handed an empty buffer, which the socket would complete at
\* once, without a byte, for ever, whatever an earlier connection left behind;
\* and a peer that sends small messages cannot make the buffer grow: on a new
\* connection it stays below twice the largest message, or at its initial size.
BufferFits ==
  /\ \A e \in End : pc[e] = "read" => buf[e].bytes < Len(buf[e].data)
  /\ New => \A e \in End :
       Len(buf[e].data) <= Initial \/ \E n \in Packet : Len(buf[e].data) < 2 * n

\* On a new connection every call of the client comes to an end: its response,
\* or an error.
CallsReturn == New /\ pc["client"] # "idle" ~> pc["client"] \in {"idle", "closed"}

\* tcp_connection.h on in_bytes_: bytes read for current message
BytesOfCurrentMessage ==
  \A e \in End : \A i \in 1..buf[e].bytes :
    buf[e].data[buf[e].offset + i].msg.conn = conn
=============================================================================
