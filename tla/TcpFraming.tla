----------------------------- MODULE TcpFraming -----------------------------
(***************************************************************************)
(* One TCP connection of src/core/Network.cpp: TcpClient::Send writes the  *)
(* length of a packet, then the packet in chunks, and after each write     *)
(* waits until read_some returns some part of a reply; TcpSession collects *)
(* packets from what each async_read_some happens to return, and sends one *)
(* reply per read, not per write.                                          *)
(*                                                                         *)
(* A byte is its position on the wire, counted from 0.  TCP may cut and    *)
(* join what is written at any place.                                      *)
(***************************************************************************)
EXTENDS Naturals, Sequences

CONSTANTS
  Lengths,    \* lengths of packets Send may be called with
  MaxPackets, \* bound: calls of Send
  HeaderSize, \* sizeof(size_t): the length that goes before a packet
  ChunkSize,  \* chunkSize of Send
  ReplySize,  \* sizeof(responsecode)
  MaxRead     \* max_length of TcpSession: the most one read returns

ASSUME FramingAssumption ==
  /\ Lengths \subseteq Nat
  /\ MaxPackets \in Nat
  /\ HeaderSize \in Nat \ {0}
  /\ ChunkSize \in Nat \ {0}
  /\ ReplySize \in Nat \ {0}
  /\ MaxRead \in Nat /\ MaxRead >= HeaderSize

VARIABLES
  client,    \* what TcpClient does next
  sent,      \* for each call of Send: where on the wire it began, its len
  written,   \* bytes written by the client
  replies,   \* bytes of replies sent and not read by the client
  session,   \* what TcpSession does next
  readPos,   \* bytes taken from the connection by the session
  remaining, \* bytesRemaining
  length,    \* length of the read being worked on
  cur,       \* m_pCurPacket: nothing, or its size and the bytes copied to it
  delivered, \* the packets given to m_onData
  closed,    \* the server stopped its io_context
  clean,     \* history: each read was one header, or bytes of one packet
  whole,     \* history: each read of either side took whole writes
  firstRead  \* history: what the session's first read returned, 0 before

clientVars  == <<client, sent, written>>
sessionVars == <<session, readPos, remaining, length, cur, delivered, clean, firstRead>>
tcpVars     == <<clientVars, sessionVars, replies, closed, whole>>

(* Where the bytes of packet k begin on the wire, where it ends, and which *)
(* bytes it has.                                                           *)
Body(k)    == sent[k].at + HeaderSize
End(k)     == sent[k].at + HeaderSize + sent[k].len
Payload(k) == [i \in 1 .. sent[k].len |-> Body(k) + i - 1]

(* A place on the wire where a write of the client ends. *)
WriteEnd(p) == \E k \in DOMAIN sent :
                 /\ p \in Body(k) .. End(k)
                 /\ p = End(k) \/ (p - Body(k)) % ChunkSize = 0

(* "idle": Send is not running; "header", "chunk": about to write one;     *)
(* "headerAck", "chunkAck": in read_some; "thrown": a write has thrown.    *)
ClientStates == {"idle", "header", "headerAck", "chunk", "chunkAck", "thrown"}

(* "reading": in async_read_some; "loop": in the loop of its handler;      *)
(* "wild": the size of a packet came from bytes that are not a length, or  *)
(* bytesRemaining went below zero; what follows is not modelled.           *)
SessionStates == {"reading", "loop", "wild"}

TcpTypeOK ==
  /\ client \in ClientStates
  /\ sent \in Seq([at : Nat, len : Lengths])
  /\ written \in Nat
  /\ replies \in Nat
  /\ session \in SessionStates
  /\ readPos \in 0 .. written
  /\ remaining \in 0 .. length
  /\ length \in 0 .. MaxRead
  /\ cur \in Seq([size : Lengths, data : Seq(Nat)]) /\ Len(cur) <= 1
  /\ cur # << >> => Len(cur[1].data) <= cur[1].size
  /\ delivered \in Seq(Seq(Nat))
  /\ closed \in BOOLEAN /\ clean \in BOOLEAN /\ whole \in BOOLEAN
  /\ firstRead \in 0 .. MaxRead

TcpInit ==
  /\ client = "idle" /\ sent = << >> /\ written = 0
  /\ replies = 0
  /\ session = "reading" /\ readPos = 0 /\ remaining = 0 /\ length = 0
  /\ cur = << >> /\ delivered = << >>
  /\ closed = FALSE /\ clean = TRUE /\ whole = TRUE /\ firstRead = 0
-----------------------------------------------------------------------------
(* The client. *)

Send ==
  /\ client = "idle" /\ Len(sent) < MaxPackets
  /\ \E n \in Lengths : sent' = Append(sent, [at |-> written, len |-> n])
  /\ client' = "header"
  /\ UNCHANGED <<written, replies, sessionVars, closed, whole>>

(* asio::write: n bytes; on a connection the server has closed it may      *)
(* still succeed, the bytes going nowhere, or throw.                       *)
Write(n, next) ==
  /\ written' = written + n
  /\ client' = next
  /\ UNCHANGED <<sent, replies, sessionVars, closed, whole>>

WriteHeader == client = "header" /\ Write(HeaderSize, "headerAck")

(* min(chunkSize, bytesRemain) *)
ChunkBytes == LET left == End(Len(sent)) - written
              IN IF left < ChunkSize THEN left ELSE ChunkSize

WriteChunk == client = "chunk" /\ Write(ChunkBytes, "chunkAck")

WriteThrows ==
  /\ closed /\ client \in {"header", "chunk"}
  /\ client' = "thrown"
  /\ UNCHANGED <<sent, written, replies, sessionVars, closed, whole>>

(* The while loop of Send: another chunk, or the end of the packet. *)
GoOn == client' = IF written < End(Len(sent)) THEN "chunk" ELSE "idle"

(* read_some returns as soon as one byte of a reply is there. *)
ReadReply ==
  /\ client \in {"headerAck", "chunkAck"}
  /\ \E n \in 1 .. ReplySize :
       /\ n <= replies
       /\ replies' = replies - n
       /\ whole' = (whole /\ n = ReplySize)
  /\ GoOn
  /\ UNCHANGED <<sent, written, sessionVars, closed>>

(* With the connection closed it sets ec, which nobody looks at. *)
ReadError ==
  /\ closed /\ client \in {"headerAck", "chunkAck"}
  /\ GoOn
  /\ UNCHANGED <<sent, written, replies, sessionVars, closed, whole>>
-----------------------------------------------------------------------------
(* The session. *)

(* What a read from position p of n bytes is: a header and nothing else,   *)
(* or bytes of one packet.                                                 *)
OneHeader(p, n) == n = HeaderSize /\ \E k \in DOMAIN sent : p = sent[k].at
OneBody(p, n)   == \E k \in DOMAIN sent : p >= Body(k) /\ p + n <= End(k)

(* The handler of async_read_some with length n > 0. *)
Read(n) ==
  /\ session = "reading" /\ ~closed
  /\ n <= written - readPos
  /\ length' = n /\ remaining' = n
  /\ readPos' = readPos + n
  /\ session' = "loop"
  /\ clean' = (clean /\ (OneHeader(readPos, n) \/ OneBody(readPos, n)))
  /\ whole' = (whole /\ WriteEnd(readPos + n))
  /\ firstRead' = IF firstRead = 0 THEN n ELSE firstRead
  /\ UNCHANGED <<clientVars, replies, closed, cur, delivered>>

(* The bytes of this read are in data, from its beginning. *)
Base == readPos - length

(* Mutant of CopyFrom: it copies all that remains. *)
CopyAll(p, pkt, left) ==
  LET full == [pkt EXCEPT !.data = @ \o [i \in 1 .. left |-> p + i - 1]]
  IN /\ remaining' = 0
     /\ IF Len(full.data) = full.size
          THEN cur' = << >> /\ delivered' = Append(delivered, full.data)
          ELSE cur' = <<full>> /\ UNCHANGED delivered

(* Copying to the packet from position p, and handing it on when full.     *)
(* Both the header and the bytes are taken from the beginning of data,     *)
(* whatever part of it was used before.                                    *)
CopyFrom(p, pkt, left) ==
  LET room == pkt.size - Len(pkt.data)
      n    == IF left < room THEN left ELSE room
      full == [pkt EXCEPT !.data = @ \o [i \in 1 .. n |-> p + i - 1]]
  IN /\ remaining' = left - n
     /\ IF Len(full.data) = full.size
          THEN cur' = << >> /\ delivered' = Append(delivered, full.data)
          ELSE cur' = <<full>> /\ UNCHANGED delivered

(* One turn of the loop without m_pCurPacket: data begins with a length. *)
NewPacket ==
  /\ session = "loop" /\ remaining > 0 /\ cur = << >>
  /\ remaining >= HeaderSize
  /\ \E k \in DOMAIN sent :
       LET new == [size |-> sent[k].len, data |-> << >>]
       IN /\ Base = sent[k].at
          /\ IF remaining > HeaderSize
               THEN CopyFrom(Base, new, remaining - HeaderSize)
               ELSE remaining' = 0 /\ cur' = <<new>> /\ UNCHANGED delivered
  /\ UNCHANGED <<clientVars, replies, closed, whole, session, readPos, length, clean, firstRead>>

(* It does not, or fewer bytes remain than a length has. *)
GoWild ==
  /\ session = "loop" /\ remaining > 0 /\ cur = << >>
  /\ remaining < HeaderSize \/ ~ \E k \in DOMAIN sent : Base = sent[k].at
  /\ session' = "wild"
  /\ UNCHANGED <<clientVars, replies, closed, whole, readPos, remaining, length, cur,
                 delivered, clean, firstRead>>

(* Mutant of FillPacket: it forgets the packet was filled by earlier reads. *)
FillPacketAnew ==
  /\ session = "loop" /\ remaining > 0 /\ cur # << >>
  /\ CopyFrom(Base, [cur[1] EXCEPT !.data = << >>], remaining)
  /\ UNCHANGED <<clientVars, replies, closed, whole, session, readPos, length, clean, firstRead>>

(* One turn of the loop with m_pCurPacket. *)
FillPacket ==
  /\ session = "loop" /\ remaining > 0 /\ cur # << >>
  /\ CopyFrom(Base, cur[1], remaining)
  /\ UNCHANGED <<clientVars, replies, closed, whole, session, readPos, length, clean, firstRead>>

(* Mutants of Respond: two replies to one read; none to a read that left   *)
(* a packet unfinished.                                                    *)
RespondTwice ==
  /\ session = "loop" /\ remaining = 0
  /\ replies' = replies + 2 * ReplySize
  /\ session' = "reading"
  /\ UNCHANGED <<clientVars, closed, whole, readPos, remaining, length, cur, delivered, clean,
                 firstRead>>

RespondWhenFull ==
  /\ session = "loop" /\ remaining = 0
  /\ replies' = IF cur = << >> THEN replies + ReplySize ELSE replies
  /\ session' = "reading"
  /\ UNCHANGED <<clientVars, closed, whole, readPos, remaining, length, cur, delivered, clean,
                 firstRead>>

(* send_response and do_read at the end of the handler. *)
Respond ==
  /\ session = "loop" /\ remaining = 0
  /\ replies' = replies + ReplySize
  /\ session' = "reading"
  /\ UNCHANGED <<clientVars, closed, whole, readPos, remaining, length, cur, delivered, clean,
                 firstRead>>

(* ~Server: io_context::stop, after which no handler is started. *)
StopServer ==
  /\ ~closed /\ closed' = TRUE
  /\ UNCHANGED <<clientVars, sessionVars, replies, whole>>

Client  == Send \/ WriteHeader \/ WriteChunk \/ WriteThrows \/ ReadReply \/ ReadError
Session == (\E n \in 1 .. MaxRead : Read(n)) \/ NewPacket \/ GoWild \/ FillPacket \/ Respond

TcpNext == Client \/ Session \/ StopServer

TcpSpec == TcpInit /\ [][TcpNext]_tcpVars

(* Send runs in its caller's thread, the handlers in the io_context's, and *)
(* TCP brings what was written while nobody closes the connection.         *)
FairTcpSpec ==
  TcpSpec /\ WF_tcpVars(WriteHeader \/ WriteChunk \/ ReadReply \/ ReadError) /\ WF_tcpVars(Session)
-----------------------------------------------------------------------------
(* Properties. *)

(* While each read gave either a header alone or bytes of one packet, the  *)
(* session hands on exactly the packets sent, in order: a packet may be    *)
(* cut anywhere, and an empty one comes late but right.                    *)
Faithful ==
  clean => /\ session # "wild"
           /\ \A k \in 1 .. Len(delivered) : delivered[k] = Payload(k)

(* The waits for replies are what keeps the reads apart.  While both sides *)
(* read in whole writes, at most one write or reply is under way, so no    *)
(* read ever joins a header with anything.                                 *)
StopAndWait ==
  whole => /\ clean
           /\ client \in {"idle", "header", "chunk"} /\ ~closed =>
                written = readPos /\ replies = 0 /\ session = "reading"

(* Then a Send that returned has its packet at m_onData, unless the packet *)
(* is empty: that one waits for the first read of the next.                *)
SentIsDelivered ==
  whole /\ ~closed /\ client = "idle" =>
    \/ Len(delivered) = Len(sent)
    \/ sent[Len(sent)].len = 0 /\ Len(delivered) = Len(sent) - 1

(* One header that comes whole is enough for the first packet, however its *)
(* bytes are cut and whatever follows it in the same read.                 *)
FirstPacketIntact ==
  firstRead = HeaderSize /\ delivered # << >> => delivered[1] = Payload(1)

(* A Send gets its replies and returns, even when reads cut and join what  *)
(* was written: every write leads to at least one read, and every read to  *)
(* a reply.  Only a session gone wild, or a server that stopped, leaves it.*)
SendReturns ==
  client # "idle" ~> client = "idle" \/ session = "wild" \/ closed
=============================================================================
