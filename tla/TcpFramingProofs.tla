--------------------------- MODULE TcpFramingProofs ---------------------------
(***************************************************************************)
(* Proofs about TcpFraming, for any lengths of packets, any number of      *)
(* them and any sizes of header, chunk, reply and read: where the packets  *)
(* lie on the wire, and what the session makes of them.                    *)
(***************************************************************************)
EXTENDS TcpFraming, SequenceTheorems, TLAPS

(* A call of Send, and m_pCurPacket's packet. *)
Call   == [at : Nat, len : Lengths]
Packet == [size : Lengths, data : Seq(Nat)]

(* The constants are numbers. *)
LEMMA Sizes ==
  /\ HeaderSize \in Nat /\ HeaderSize > 0
  /\ ChunkSize \in Nat /\ ChunkSize > 0
  /\ ReplySize \in Nat /\ ReplySize > 0
  /\ MaxRead \in Nat /\ MaxRead >= HeaderSize
  /\ \A n \in Lengths : n \in Nat
BY FramingAssumption DEF FramingAssumption

(* A call of Send: where it lies, in numbers. *)
LEMMA CallTyped ==
  ASSUME TcpTypeOK, NEW k \in DOMAIN sent
  PROVE  /\ k \in 1 .. Len(sent)
         /\ sent[k].at \in Nat /\ sent[k].len \in Nat /\ sent[k].len \in Lengths
         /\ Body(k) \in Nat /\ End(k) \in Nat
         /\ sent[k].at < Body(k) /\ Body(k) <= End(k)
         /\ Body(k) = sent[k].at + HeaderSize /\ End(k) = Body(k) + sent[k].len
<1>1. sent \in Seq(Call)
  BY DEF TcpTypeOK, Call
<1>2. k \in 1 .. Len(sent) /\ sent[k] \in Call
  BY <1>1
<1>3. sent[k].at \in Nat /\ sent[k].len \in Nat /\ sent[k].len \in Lengths
  BY <1>2, Sizes DEF Call
<1>4. QED
  BY <1>2, <1>3, Sizes DEF Body, End

(* Copying keeps the packet, what is delivered and what remains in their   *)
(* types.                                                                  *)
LEMMA CopyTyped ==
  ASSUME TcpTypeOK, NEW p \in Nat, NEW pkt \in Packet, Len(pkt.data) <= pkt.size,
         NEW left \in Nat, CopyFrom(p, pkt, left)
  PROVE  /\ remaining' \in 0 .. left
         /\ cur' \in Seq(Packet) /\ Len(cur') <= 1
         /\ cur' # << >> => Len(cur'[1].data) <= cur'[1].size
         /\ delivered' \in Seq(Seq(Nat))
<1>1. pkt.size \in Nat /\ pkt.size \in Lengths /\ pkt.data \in Seq(Nat) /\ Len(pkt.data) \in Nat
  BY Sizes DEF Packet
<1> DEFINE room == pkt.size - Len(pkt.data)
           n    == IF left < room THEN left ELSE room
           new  == [i \in 1 .. n |-> p + i - 1]
           full == [pkt EXCEPT !.data = @ \o new]
<1>2. room \in Nat /\ n \in 0 .. left /\ n <= room /\ n \in Nat
  BY <1>1
<1>3. new \in Seq(Nat) /\ Len(new) = n
  BY <1>2
<1>4. /\ full \in Packet /\ full.size = pkt.size /\ full.data = pkt.data \o new
      /\ full.data \in Seq(Nat) /\ Len(full.data) = Len(pkt.data) + n
  <2> HIDE DEF room, n, new
  <2>1. pkt.data \o new \in Seq(Nat) /\ Len(pkt.data \o new) = Len(pkt.data) + n
    BY <1>1, <1>3, ConcatProperties
  <2>2. /\ full \in [size : Lengths, data : Seq(Nat)]
        /\ full.size = pkt.size /\ full.data = pkt.data \o new
    BY <1>1, <2>1 DEF Packet
  <2>3. QED
    BY <1>1, <2>1, <2>2 DEF Packet
<1>5. /\ remaining' = left - n
      /\ IF Len(full.data) = full.size
           THEN cur' = << >> /\ delivered' = Append(delivered, full.data)
           ELSE cur' = <<full>> /\ UNCHANGED delivered
  BY DEF CopyFrom
<1>6. remaining' \in 0 .. left
  BY <1>2, <1>5
<1>7. delivered \in Seq(Seq(Nat))
  BY DEF TcpTypeOK
<1> HIDE DEF room, n, new, full
<1>8. CASE Len(full.data) = full.size
  <2>1. cur' = << >> /\ delivered' = Append(delivered, full.data)
    BY <1>5, <1>8
  <2>2. cur' \in Seq(Packet) /\ Len(cur') <= 1
    BY <2>1, EmptySeq
  <2>3. delivered' \in Seq(Seq(Nat))
    BY <1>4, <1>7, <2>1
  <2>4. QED
    BY <1>6, <2>1, <2>2, <2>3
<1>9. CASE Len(full.data) # full.size
  <2>1. cur' = <<full>> /\ delivered' = delivered
    BY <1>5, <1>9
  <2>2. Len(full.data) <= full.size
    BY <1>1, <1>2, <1>4 DEF room
  <2>3. cur' \in Seq(Packet) /\ Len(cur') = 1 /\ cur'[1] = full
    BY <1>4, <2>1
  <2>4. QED
    BY <1>6, <1>7, <2>1, <2>2, <2>3
<1>10. QED
  BY <1>8, <1>9
-----------------------------------------------------------------------------
(* Packets lie on the wire one after the other, and the client is within   *)
(* the last one, or through with it.                                       *)
WireInv ==
  /\ sent # << >> => sent[1].at = 0
  /\ \A k \in DOMAIN sent : k + 1 \in DOMAIN sent => sent[k + 1].at = End(k)
  /\ \A i, j \in DOMAIN sent : i < j => End(i) <= sent[j].at
  /\ sent = << >> => client = "idle" /\ written = 0
  /\ client = "idle" /\ sent # << >> => written = End(Len(sent))
  /\ client = "header" => written = sent[Len(sent)].at
  /\ client = "chunk" => Body(Len(sent)) <= written /\ written < End(Len(sent))
  /\ client \in {"headerAck", "chunkAck"} =>
       Body(Len(sent)) <= written /\ written <= End(Len(sent))
  /\ client = "thrown" => written <= End(Len(sent))

(* The last call of Send, when there is one. *)
LEMMA LastCall ==
  ASSUME TcpTypeOK, sent # << >>
  PROVE  Len(sent) \in DOMAIN sent /\ 1 \in DOMAIN sent
BY DEF TcpTypeOK

LEMMA InitTypeWire == TcpInit => TcpTypeOK /\ WireInv
<1>1. /\ << >> \in Seq([at : Nat, len : Lengths])
      /\ << >> \in Seq([size : Lengths, data : Seq(Nat)]) /\ << >> \in Seq(Seq(Nat))
  BY EmptySeq
<1>2. Len(<< >>) = 0 /\ DOMAIN << >> = {}
  OBVIOUS
<1>3. ASSUME TcpInit  PROVE TcpTypeOK
  <2>1. /\ written \in Nat /\ replies \in Nat /\ readPos \in 0 .. written
        /\ remaining \in 0 .. length /\ length \in 0 .. MaxRead /\ firstRead \in 0 .. MaxRead
    BY <1>3, Sizes DEF TcpInit
  <2>2. /\ cur \in Seq([size : Lengths, data : Seq(Nat)]) /\ Len(cur) <= 1 /\ cur = << >>
        /\ sent \in Seq([at : Nat, len : Lengths]) /\ delivered \in Seq(Seq(Nat))
    BY <1>1, <1>2, <1>3 DEF TcpInit
  <2>3. /\ client \in ClientStates /\ session \in SessionStates
        /\ closed \in BOOLEAN /\ clean \in BOOLEAN /\ whole \in BOOLEAN
    BY <1>3 DEF TcpInit, ClientStates, SessionStates
  <2>4. QED
    BY <2>1, <2>2, <2>3 DEF TcpTypeOK
<1>4. TcpInit => WireInv
  BY <1>2 DEF TcpInit, WireInv
<1>5. QED
  BY <1>3, <1>4

(* What Send adds to sent, and what it leaves. *)
LEMMA SendAppends ==
  ASSUME TcpTypeOK, Send
  PROVE  /\ sent' \in Seq([at : Nat, len : Lengths])
         /\ Len(sent') = Len(sent) + 1 /\ DOMAIN sent' = 1 .. Len(sent) + 1
         /\ DOMAIN sent = 1 .. Len(sent) /\ Len(sent) \in Nat
         /\ \A k \in DOMAIN sent : sent'[k] = sent[k]
         /\ sent'[Len(sent) + 1].at = written
<1>1. PICK n \in Lengths : sent' = Append(sent, [at |-> written, len |-> n])
  BY DEF Send
<1>2. [at |-> written, len |-> n] \in [at : Nat, len : Lengths]
  BY DEF TcpTypeOK
<1>3. sent \in Seq([at : Nat, len : Lengths])
  BY DEF TcpTypeOK
<1> DEFINE new == [at |-> written, len |-> n]
<1>4. new.at = written
  OBVIOUS
<1> HIDE DEF new
<1>5. sent' = Append(sent, new) /\ new \in [at : Nat, len : Lengths]
  BY <1>1, <1>2 DEF new
<1>6. QED
  BY <1>3, <1>4, <1>5

(* The client's steps keep types and layout. *)
LEMMA ClientStep ==
  ASSUME TcpTypeOK, WireInv, Client
  PROVE  TcpTypeOK' /\ WireInv'
<1>1. CASE Send
  <2>1. /\ sent' \in Seq([at : Nat, len : Lengths])
        /\ Len(sent') = Len(sent) + 1 /\ DOMAIN sent' = 1 .. Len(sent) + 1
        /\ DOMAIN sent = 1 .. Len(sent) /\ Len(sent) \in Nat
        /\ \A k \in DOMAIN sent : sent'[k] = sent[k]
        /\ sent'[Len(sent) + 1].at = written
    BY <1>1, SendAppends
  <2>2. /\ client = "idle" /\ client' = "header"
        /\ UNCHANGED <<written, replies, sessionVars, closed, whole>>
    BY <1>1 DEF Send
  <2>3. TcpTypeOK'
    BY <2>1, <2>2 DEF TcpTypeOK, ClientStates, sessionVars
  <2>4. \A k \in DOMAIN sent : End(k)' = End(k) /\ sent'[k].at = sent[k].at
    BY <2>1 DEF End
  <2>5. \A k \in DOMAIN sent : End(k) \in Nat /\ sent[k].at \in Nat
    BY CallTyped
  <2>6. written \in Nat /\ (sent = << >> => written = 0)
    BY DEF TcpTypeOK, WireInv
  <2>7. \A k \in DOMAIN sent : End(k) <= written
    <3>1. CASE sent = << >>
      BY <3>1
    <3>2. CASE sent # << >>
      <4>1. written = End(Len(sent)) /\ Len(sent) \in DOMAIN sent
        BY <2>2, <3>2, LastCall DEF WireInv
      <4>2. \A k \in DOMAIN sent : k < Len(sent) => End(k) <= sent[Len(sent)].at
        BY <4>1 DEF WireInv
      <4>3. sent[Len(sent)].at <= End(Len(sent))
        BY <4>1, CallTyped
      <4>4. QED
        BY <2>1, <2>5, <4>1, <4>2, <4>3
    <3>3. QED
      BY <3>1, <3>2
  <2>8. sent' # << >> /\ (sent # << >> => 1 \in DOMAIN sent)
    BY <2>1
  <2>9. sent'[1].at = 0
    BY <2>1, <2>4, <2>6, <2>8 DEF WireInv
  <2>10. \A k \in DOMAIN sent' : k + 1 \in DOMAIN sent' => sent'[k + 1].at = End(k)'
    <3>1. TAKE k \in DOMAIN sent'
    <3>2. HAVE k + 1 \in DOMAIN sent'
    <3>3. k \in DOMAIN sent
      BY <2>1, <3>2
    <3>4. CASE k + 1 \in DOMAIN sent
      BY <2>4, <3>3, <3>4 DEF WireInv
    <3>5. CASE k + 1 \notin DOMAIN sent
      <4>1. k = Len(sent) /\ sent # << >>
        BY <2>1, <3>3, <3>5
      <4>2. QED
        BY <2>1, <2>2, <2>4, <3>3, <4>1 DEF WireInv
    <3>6. QED
      BY <3>4, <3>5
  <2>11. \A i, j \in DOMAIN sent' : i < j => End(i)' <= sent'[j].at
    <3>1. TAKE i, j \in DOMAIN sent'
    <3>2. HAVE i < j
    <3>3. i \in DOMAIN sent
      BY <2>1, <3>2
    <3>4. CASE j \in DOMAIN sent
      BY <2>4, <3>2, <3>3, <3>4 DEF WireInv
    <3>5. CASE j \notin DOMAIN sent
      <4>1. j = Len(sent) + 1
        BY <2>1, <3>5
      <4>2. QED
        BY <2>1, <2>4, <2>7, <3>3, <4>1
    <3>6. QED
      BY <3>4, <3>5
  <2>12. written' = sent'[Len(sent')].at
    BY <2>1, <2>2
  <2>13. QED
    BY <2>2, <2>3, <2>8, <2>9, <2>10, <2>11, <2>12 DEF WireInv
<1>2. SUFFICES ASSUME Client, ~Send
              PROVE  TcpTypeOK' /\ WireInv'
  BY <1>1
<1>3. /\ client # "idle" /\ sent # << >>
      /\ UNCHANGED <<sent, sessionVars, closed>>
  BY <1>2 DEF Client, WriteHeader, WriteChunk, Write, WriteThrows, ReadReply, ReadError, WireInv,
              clientVars
<1> DEFINE last == Len(sent)
<1>4. /\ last \in DOMAIN sent /\ sent[last].at \in Nat /\ Body(last) \in Nat /\ End(last) \in Nat
      /\ sent[last].at < Body(last) /\ Body(last) <= End(last)
      /\ Body(last) = sent[last].at + HeaderSize
  BY <1>3, LastCall, CallTyped
<1>5. written \in Nat /\ replies \in Nat /\ readPos \in 0 .. written /\ HeaderSize \in Nat
      /\ ChunkSize \in Nat /\ ChunkSize > 0 /\ whole \in BOOLEAN
  BY Sizes DEF TcpTypeOK
<1> DEFINE left == End(last) - written
<1>6. WriteChunk => ChunkBytes \in Nat /\ written + ChunkBytes <= End(last)
  BY <1>4, <1>5 DEF WriteChunk, ChunkBytes, WireInv
<1>7. /\ client' \in ClientStates \ {"idle", "header"} \/ (client' = "idle" /\ written' = End(last))
      /\ written' \in Nat /\ written' >= written /\ written' <= End(last)
      /\ client' # "thrown" => Body(last) <= written'
      /\ client' = "chunk" => written' < End(last)
      /\ replies' \in Nat /\ whole' \in BOOLEAN
  <2>1. CASE WriteHeader
    BY <1>4, <1>5, <2>1 DEF WriteHeader, Write, WireInv, ClientStates
  <2>2. CASE WriteChunk
    BY <1>4, <1>5, <1>6, <2>2 DEF WriteChunk, Write, WireInv, ClientStates
  <2>3. CASE WriteThrows
    BY <1>4, <1>5, <2>3 DEF WriteThrows, WireInv, ClientStates
  <2>4. CASE ReadReply \/ ReadError
    <3>1. /\ written' = written /\ Body(last) <= written /\ written <= End(last)
          /\ client' = IF written < End(last) THEN "chunk" ELSE "idle"
      BY <2>4 DEF ReadReply, ReadError, WireInv, GoOn
    <3>2. replies' \in Nat
      BY <1>5, <2>4, Sizes DEF ReadReply, ReadError
    <3>3. whole' \in BOOLEAN
      <4>1. CASE ReadReply
        BY <4>1, Zenon DEF ReadReply
      <4>2. CASE ReadError
        BY <1>5, <4>2 DEF ReadError
      <4>3. QED
        BY <2>4, <4>1, <4>2
    <3>4. QED
      BY <1>4, <1>5, <3>1, <3>2, <3>3 DEF ClientStates
  <2>5. QED
    BY <1>2, <2>1, <2>2, <2>3, <2>4 DEF Client
<1>8. TcpTypeOK'
  BY <1>3, <1>5, <1>7 DEF TcpTypeOK, ClientStates, sessionVars
<1>9. \A k \in DOMAIN sent : End(k)' = End(k) /\ Body(k)' = Body(k)
  BY <1>3 DEF End, Body
<1>10. WireInv'
  BY <1>3, <1>4, <1>7, <1>9 DEF WireInv, ClientStates
<1>11. QED
  BY <1>8, <1>10

(* m_pCurPacket's packet, when there is one. *)
LEMMA CurTyped ==
  ASSUME TcpTypeOK, cur # << >>
  PROVE  /\ cur = <<cur[1]>> /\ cur[1] \in Packet
         /\ cur[1].size \in Nat /\ cur[1].size \in Lengths /\ cur[1].data \in Seq(Nat)
         /\ Len(cur[1].data) \in Nat /\ Len(cur[1].data) <= cur[1].size
<1>1. cur \in Seq(Packet)
  BY DEF TcpTypeOK, Packet
<1>2. Len(cur) <= 1
  BY DEF TcpTypeOK
<1>3. Len(cur[1].data) <= cur[1].size
  BY DEF TcpTypeOK
<1>4. Len(cur) \in Nat \ {0}
  BY <1>1, EmptySeq, Zenon
<1>5. Len(cur) = 1
  <2>1. \A n \in Nat \ {0} : n <= 1 => n = 1
    OBVIOUS
  <2>2. QED
    BY <1>2, <1>4, <2>1, Zenon
<1>6. cur[1] \in Packet /\ cur = <<cur[1]>>
  BY <1>1, <1>5
<1>7. QED
  BY <1>3, <1>6, Sizes DEF Packet

(* The session's numbers. *)
LEMMA SessionTyped ==
  ASSUME TcpTypeOK
  PROVE  /\ readPos \in Nat /\ written \in Nat /\ readPos <= written
         /\ length \in Nat /\ length <= MaxRead /\ remaining \in Nat /\ remaining <= length
         /\ firstRead \in Nat /\ firstRead <= MaxRead /\ replies \in Nat
BY Sizes DEF TcpTypeOK

(* What the session begins a packet with. *)
LEMMA NewTyped ==
  ASSUME TcpTypeOK, NEW k \in DOMAIN sent
  PROVE  LET new == [size |-> sent[k].len, data |-> << >>]
         IN new \in Packet /\ Len(new.data) <= new.size
<1>1. sent[k].len \in Lengths /\ sent[k].len \in Nat
  BY CallTyped
<1>2. << >> \in Seq(Nat) /\ Len(<< >>) = 0
  BY EmptySeq
<1>3. QED
  BY <1>1, <1>2 DEF Packet

(* The session's steps keep the types; Base is never less than 0 because   *)
(* what is read was written.                                               *)
LEMMA SessionStep ==
  ASSUME TcpTypeOK, Session \/ StopServer, Base \in Nat
  PROVE  TcpTypeOK'
<1> USE SessionTyped, Sizes
<1>1. ASSUME NEW n \in 1 .. MaxRead, Read(n)
      PROVE  TcpTypeOK'
  <2>1. /\ length' = n /\ remaining' = n /\ readPos' = readPos + n /\ n <= written - readPos
        /\ session' = "loop" /\ UNCHANGED <<clientVars, replies, closed, cur, delivered>>
        /\ firstRead' = IF firstRead = 0 THEN n ELSE firstRead
    BY <1>1 DEF Read
  <2>2. clean' \in BOOLEAN /\ whole' \in BOOLEAN
    BY <1>1, Zenon DEF Read
  <2>3. readPos' \in 0 .. written /\ remaining' \in 0 .. length' /\ length' \in 0 .. MaxRead
        /\ firstRead' \in 0 .. MaxRead
    BY <2>1
  <2>4. QED
    BY <2>1, <2>2, <2>3 DEF TcpTypeOK, SessionStates, clientVars
<1>2. ASSUME UNCHANGED <<clientVars, replies, closed, whole, session, readPos, length, clean,
                         firstRead>>,
             remaining' \in 0 .. remaining,
             cur' \in Seq(Packet), Len(cur') <= 1,
             cur' # << >> => Len(cur'[1].data) <= cur'[1].size,
             delivered' \in Seq(Seq(Nat))
      PROVE  TcpTypeOK'
  <2>1. remaining' \in 0 .. length
    BY <1>2
  <2>2. QED
    BY <1>2, <2>1 DEF TcpTypeOK, clientVars, Packet
<1>3. CASE NewPacket
  <2>1. PICK k \in DOMAIN sent :
          LET new == [size |-> sent[k].len, data |-> << >>]
          IN IF remaining > HeaderSize
               THEN CopyFrom(Base, new, remaining - HeaderSize)
               ELSE remaining' = 0 /\ cur' = <<new>> /\ UNCHANGED delivered
    BY <1>3 DEF NewPacket
  <2> DEFINE new == [size |-> sent[k].len, data |-> << >>]
  <2>2. new \in Packet /\ Len(new.data) <= new.size
    BY NewTyped
  <2> HIDE DEF new
  <2>3. CASE remaining > HeaderSize
    <3>1. CopyFrom(Base, new, remaining - HeaderSize) /\ remaining - HeaderSize \in Nat
      BY <2>1, <2>3 DEF new
    <3>2. /\ remaining' \in 0 .. (remaining - HeaderSize)
          /\ cur' \in Seq(Packet) /\ Len(cur') <= 1
          /\ cur' # << >> => Len(cur'[1].data) <= cur'[1].size
          /\ delivered' \in Seq(Seq(Nat))
      BY <2>2, <3>1, CopyTyped
    <3>3. remaining' \in 0 .. remaining
      BY <3>2
    <3>4. QED
      BY <1>2, <1>3, <3>2, <3>3 DEF NewPacket
  <2>4. CASE ~(remaining > HeaderSize)
    <3>1. remaining' = 0 /\ cur' = <<new>> /\ delivered' = delivered
      BY <2>1, <2>4 DEF new
    <3>2. cur' \in Seq(Packet) /\ Len(cur') = 1 /\ cur'[1] = new
      BY <2>2, <3>1
    <3>3. remaining' \in 0 .. remaining /\ delivered' \in Seq(Seq(Nat))
      BY <3>1 DEF TcpTypeOK
    <3>4. QED
      BY <1>2, <1>3, <2>2, <3>2, <3>3 DEF NewPacket
  <2>5. QED
    BY <2>3, <2>4
<1>4. CASE FillPacket
  <2>1. CopyFrom(Base, cur[1], remaining) /\ cur # << >>
    BY <1>4 DEF FillPacket
  <2>2. cur[1] \in Packet /\ Len(cur[1].data) <= cur[1].size
    BY <2>1, CurTyped
  <2>3. /\ remaining' \in 0 .. remaining
        /\ cur' \in Seq(Packet) /\ Len(cur') <= 1
        /\ cur' # << >> => Len(cur'[1].data) <= cur'[1].size
        /\ delivered' \in Seq(Seq(Nat))
    BY <2>1, <2>2, CopyTyped
  <2>4. QED
    BY <1>2, <1>4, <2>3 DEF FillPacket
<1>5. CASE GoWild
  BY <1>5 DEF GoWild, TcpTypeOK, SessionStates, clientVars
<1>6. CASE Respond
  BY <1>6 DEF Respond, TcpTypeOK, SessionStates, clientVars
<1>7. CASE StopServer
  BY <1>7 DEF StopServer, TcpTypeOK, clientVars, sessionVars
<1>8. QED
  BY <1>1, <1>3, <1>4, <1>5, <1>6, <1>7 DEF Session

(* The session has read what is in data. *)
ReadInv == length <= readPos

(* What holds of any connection, and every proof below rests on. *)
BaseInv == TcpTypeOK /\ WireInv /\ ReadInv

LEMMA BaseIsNat ==
  ASSUME BaseInv
  PROVE  Base \in Nat
<1>1. readPos \in Nat /\ length \in Nat /\ length <= readPos
  BY SessionTyped DEF BaseInv, ReadInv
<1>2. QED
  BY <1>1 DEF Base

LEMMA DeliveredCounts ==
  ASSUME BaseInv
  PROVE  Len(delivered) \in Nat
<1>1. delivered \in Seq(Seq(Nat))
  BY DEF BaseInv, TcpTypeOK
<1>2. QED
  BY <1>1

(* WireInv is about the client alone. *)
LEMMA WireKept ==
  ASSUME WireInv, UNCHANGED <<client, sent, written>>
  PROVE  WireInv'
BY DEF WireInv, Body, End

LEMMA BaseStep ==
  ASSUME BaseInv, [TcpNext]_tcpVars
  PROVE  BaseInv'
<1>1. CASE Client
  <2>1. UNCHANGED <<length, readPos>>
    BY <1>1 DEF Client, Send, WriteHeader, WriteChunk, Write, WriteThrows, ReadReply, ReadError,
                sessionVars
  <2>2. QED
    BY <1>1, <2>1, ClientStep DEF BaseInv, ReadInv
<1>2. CASE Session \/ StopServer
  <2>1. TcpTypeOK'
    BY <1>2, SessionStep, BaseIsNat DEF BaseInv
  <2>2. UNCHANGED <<client, sent, written>>
    BY <1>2 DEF Session, StopServer, Read, NewPacket, GoWild, FillPacket, Respond, clientVars
  <2>3. length' <= readPos'
    <3>1. ASSUME NEW n \in 1 .. MaxRead, Read(n)
          PROVE  length' <= readPos'
      BY <3>1, SessionTyped, Sizes DEF Read, BaseInv
    <3>2. CASE NewPacket \/ GoWild \/ FillPacket \/ Respond \/ StopServer
      BY <3>2 DEF BaseInv, ReadInv, NewPacket, GoWild, FillPacket, Respond, StopServer, sessionVars
    <3>3. QED
      BY <1>2, <3>1, <3>2 DEF Session
  <2>4. QED
    BY <2>1, <2>2, <2>3, WireKept DEF BaseInv, ReadInv
<1>3. CASE UNCHANGED tcpVars
  <2>1. UNCHANGED <<client, sent, written, readPos, length>> /\ TcpTypeOK'
    BY <1>3 DEF BaseInv, TcpTypeOK, tcpVars, clientVars, sessionVars
  <2>2. QED
    BY <2>1, WireKept DEF BaseInv, ReadInv
<1>4. QED
  BY <1>1, <1>2, <1>3 DEF TcpNext

LEMMA InitBase == TcpInit => BaseInv
<1>1. TcpInit => ReadInv
  BY DEF TcpInit, ReadInv
<1>2. QED
  BY <1>1, InitTypeWire DEF BaseInv

(* Whatever TCP cuts and joins, the session never copies more than a       *)
(* packet has room for, or than it has read; the client never writes past  *)
(* the end of a packet.                                                    *)
THEOREM TcpTypeCorrect == TcpSpec => []TcpTypeOK
<1>1. BaseInv => TcpTypeOK
  BY DEF BaseInv
<1>2. QED
  BY <1>1, InitBase, BaseStep, PTL DEF TcpSpec
-----------------------------------------------------------------------------
(* The first n bytes of packet k. *)
Bytes(k, n) == [i \in 1 .. n |-> Body(k) + i - 1]

(* Packets do not overlap. *)
LEMMA Apart ==
  ASSUME BaseInv, NEW i \in DOMAIN sent, NEW j \in DOMAIN sent, i < j
  PROVE  End(i) <= sent[j].at
BY DEF BaseInv, WireInv

(* The client changes nothing about the packets sent before. *)
LEMMA SentGrows ==
  ASSUME BaseInv, Client
  PROVE  /\ \A k \in DOMAIN sent : /\ k \in DOMAIN sent' /\ sent'[k] = sent[k]
                                   /\ Body(k)' = Body(k) /\ End(k)' = End(k)
                                   /\ Payload(k)' = Payload(k)
                                   /\ \A n \in Nat : Bytes(k, n)' = Bytes(k, n)
         /\ UNCHANGED sessionVars
<1>1. \A k \in DOMAIN sent : k \in DOMAIN sent' /\ sent'[k] = sent[k]
  <2>1. CASE Send
    BY <2>1, SendAppends DEF BaseInv
  <2>2. CASE ~Send
    <3>1. UNCHANGED sent
      BY <2>2 DEF Client, WriteHeader, WriteChunk, Write, WriteThrows, ReadReply, ReadError
    <3>2. QED
      BY <3>1
  <2>3. QED
    BY <2>1, <2>2
<1>2. UNCHANGED sessionVars
  BY DEF Client, Send, WriteHeader, WriteChunk, Write, WriteThrows, ReadReply, ReadError
<1>3. QED
  BY <1>1, <1>2 DEF Body, End, Payload, Bytes

(* n bytes from position b on; two such runs, one after the other. *)
Run(b, n) == [i \in 1 .. n |-> b + i - 1]

LEMMA RunsJoin ==
  ASSUME NEW b \in Nat, NEW m \in Nat, NEW n \in Nat
  PROVE  /\ Run(b, m) \o Run(b + m, n) = Run(b, m + n)
         /\ Len(Run(b, m) \o Run(b + m, n)) = m + n
<1> DEFINE s == Run(b, m)
           t == Run(b + m, n)
           u == Run(b, m + n)
<1>1. s \in Seq(Nat) /\ Len(s) = m /\ \A i \in 1 .. m : s[i] = b + i - 1
  BY DEF Run
<1>2. t \in Seq(Nat) /\ Len(t) = n /\ \A i \in 1 .. n : t[i] = b + m + i - 1
  BY DEF Run
<1>3. u \in Seq(Nat) /\ Len(u) = m + n /\ \A i \in 1 .. m + n : u[i] = b + i - 1
  BY DEF Run
<1> HIDE DEF s, t, u
<1>4. /\ s \o t \in Seq(Nat) /\ Len(s \o t) = m + n
      /\ \A i \in 1 .. m + n : (s \o t)[i] = IF i <= m THEN s[i] ELSE t[i - m]
  BY <1>1, <1>2, ConcatProperties
<1>5. \A i \in 1 .. m + n : (s \o t)[i] = u[i]
  <2>1. TAKE i \in 1 .. m + n
  <2>2. CASE i <= m
    BY <1>1, <1>3, <1>4, <2>2
  <2>3. CASE ~(i <= m)
    <3>1. i - m \in 1 .. n /\ b + m + (i - m) - 1 = b + i - 1
      BY <2>3
    <3>2. QED
      BY <1>2, <1>3, <1>4, <2>3, <3>1
  <2>4. QED
    BY <2>2, <2>3
<1>6. s \o t = u
  BY <1>3, <1>4, <1>5, SeqEqual
<1>7. QED
  BY <1>4, <1>6 DEF s, t, u

(* Copying to a packet that has its first bytes, from where the next ones  *)
(* are, gives it as many as are left or as it has room for; and if it is   *)
(* full it is the packet that was sent.                                    *)
LEMMA CopyContinues ==
  ASSUME BaseInv, NEW k \in DOMAIN sent, NEW pkt \in Packet, NEW left \in Nat,
         pkt.size = sent[k].len, Len(pkt.data) <= pkt.size,
         pkt.data = Bytes(k, Len(pkt.data)),
         NEW p, p = Body(k) + Len(pkt.data), CopyFrom(p, pkt, left)
  PROVE  \/ /\ left >= pkt.size - Len(pkt.data)
            /\ remaining' = left - (pkt.size - Len(pkt.data))
            /\ cur' = << >> /\ delivered' = Append(delivered, Payload(k))
         \/ /\ left < pkt.size - Len(pkt.data)
            /\ remaining' = 0
            /\ cur' # << >> /\ cur'[1].size = sent[k].len
            /\ cur'[1].data = Bytes(k, Len(pkt.data) + left)
            /\ Len(cur'[1].data) = Len(pkt.data) + left
            /\ delivered' = delivered
<1>1. /\ pkt.size \in Nat /\ pkt.data \in Seq(Nat) /\ Len(pkt.data) \in Nat
      /\ Body(k) \in Nat /\ sent[k].len \in Nat
  BY Sizes, CallTyped DEF Packet, BaseInv
<1> DEFINE had  == Len(pkt.data)
           room == pkt.size - had
           n    == IF left < room THEN left ELSE room
           new  == [i \in 1 .. n |-> p + i - 1]
           full == [pkt EXCEPT !.data = @ \o new]
<1>2. /\ remaining' = left - n
      /\ IF Len(full.data) = full.size
           THEN cur' = << >> /\ delivered' = Append(delivered, full.data)
           ELSE cur' = <<full>> /\ UNCHANGED delivered
  BY DEF CopyFrom
<1>3. had \in Nat /\ room \in Nat /\ n \in Nat /\ p \in Nat /\ p = Body(k) + had
  BY <1>1
<1>4. new \in Seq(Nat) /\ Len(new) = n /\ \A i \in 1 .. n : new[i] = p + i - 1
  BY <1>3
<1>5. full.size = pkt.size /\ full.data = pkt.data \o new
  BY DEF Packet
<1> HIDE DEF n, new, full
<1>6. new = Run(Body(k) + had, n) /\ pkt.data = Run(Body(k), had)
  BY <1>1, <1>3 DEF new, Run, Bytes
<1>7. /\ pkt.data \o new = Bytes(k, had + n) /\ Len(pkt.data \o new) = had + n
  <2> HIDE DEF had
  <2>1. /\ Run(Body(k), had) \o Run(Body(k) + had, n) = Run(Body(k), had + n)
        /\ Len(Run(Body(k), had) \o Run(Body(k) + had, n)) = had + n
    <3>1. Body(k) \in Nat /\ had \in Nat /\ n \in Nat
      BY <1>1, <1>3
    <3>2. QED
      BY <3>1, RunsJoin, Zenon
  <2>2. pkt.data \o new = Run(Body(k), had + n) /\ Len(pkt.data \o new) = had + n
    BY <1>6, <2>1
  <2>3. QED
    BY <2>2 DEF Run, Bytes
<1>8. CASE left >= room
  <2>1. n = room /\ had + n = pkt.size
    BY <1>1, <1>8 DEF n
  <2>2. full.data = Payload(k) /\ Len(full.data) = full.size
    BY <1>5, <1>7, <2>1 DEF Bytes, Payload
  <2>3. QED
    BY <1>2, <1>8, <2>1, <2>2
<1>9. CASE left < room
  <2>1. n = left /\ had + n # pkt.size
    BY <1>1, <1>9 DEF n
  <2>2. Len(full.data) # full.size
    BY <1>5, <1>7, <2>1
  <2>3. cur' = <<full>> /\ delivered' = delivered /\ remaining' = 0
    BY <1>2, <2>1, <2>2
  <2>4. QED
    BY <1>5, <1>7, <1>9, <2>1, <2>3
<1>10. QED
  BY <1>1, <1>3, <1>8, <1>9
-----------------------------------------------------------------------------
(* The session has the header of packet k and some of its bytes, and what  *)
(* it has still to look at begins with the next one.  A packet that has    *)
(* them all has been handed on, unless it is empty.                        *)
Within(k) ==
  /\ k \in DOMAIN sent
  /\ cur # << >>
  /\ cur[1].size = sent[k].len
  /\ Len(cur[1].data) < cur[1].size \/ cur[1].size = 0
  /\ cur[1].data = Bytes(k, Len(cur[1].data))
  /\ readPos - remaining = Body(k) + Len(cur[1].data)

(* The session is through with packet d, and at the next.                  *)
Between(d) ==
  /\ cur = << >>
  /\ d = 0 => readPos = remaining
  /\ d # 0 => d \in DOMAIN sent /\ readPos = End(d) + remaining

(* A read is used up at once, but for one that finds an empty packet; so   *)
(* the beginning of data is the right place to take bytes from.            *)
AtOnce == remaining \in {0, length} /\ (session = "reading" => remaining = 0)

(* The read that is being worked on is a header or bytes of one packet. *)
OneRead ==
  LET p == readPos - remaining
  IN remaining > 0 => OneHeader(p, remaining) \/ OneBody(p, remaining)

(* The packets handed on are those sent. *)
DeliveredRight == \A k \in DOMAIN delivered : k \in DOMAIN sent /\ delivered[k] = Payload(k)

(* While each read was one header or bytes of one packet. *)
CleanInv ==
  clean => /\ session # "wild"
           /\ AtOnce
           /\ OneRead
           /\ DeliveredRight
           /\ Within(Len(delivered) + 1) \/ Between(Len(delivered))

(* Where two packets lie, in numbers. *)
LEMMA Order ==
  ASSUME BaseInv, NEW i \in DOMAIN sent, NEW j \in DOMAIN sent
  PROVE  /\ i \in Nat /\ i > 0 /\ i <= Len(sent) /\ Len(sent) \in Nat
         /\ sent[i].at \in Nat /\ Body(i) \in Nat /\ End(i) \in Nat
         /\ sent[i].at < Body(i) /\ Body(i) <= End(i) /\ Body(i) = sent[i].at + HeaderSize
         /\ i < j => End(i) <= sent[j].at
<1>1. TcpTypeOK /\ sent \in Seq([at : Nat, len : Lengths])
  BY DEF BaseInv, TcpTypeOK
<1>2. Len(sent) \in Nat /\ i \in 1 .. Len(sent)
  BY <1>1
<1>3. QED
  BY <1>1, <1>2, CallTyped, Apart

(* A read that begins where the session is through with packet d is the    *)
(* header of the next packet, and nothing else.                            *)
LEMMA HeaderNext ==
  ASSUME BaseInv, CleanInv, clean, cur = << >>, remaining > 0
  PROVE  LET d == Len(delivered)
         IN /\ d \in Nat /\ d + 1 \in DOMAIN sent
            /\ Base = sent[d + 1].at /\ remaining = HeaderSize /\ remaining = length
            /\ readPos = Body(d + 1)
            /\ \A k \in DOMAIN sent : Base = sent[k].at => k = d + 1
<1> DEFINE d == Len(delivered)
<1>1. d \in Nat
  BY DeliveredCounts
<1>2. /\ readPos \in Nat /\ remaining \in Nat /\ length \in Nat /\ remaining = length
      /\ Base \in Nat /\ Base = readPos - remaining /\ HeaderSize \in Nat
  BY SessionTyped, BaseIsNat, Sizes DEF BaseInv, CleanInv, AtOnce, Base
<1>3. Between(d)
  BY DEF CleanInv, Within
<1>4. OneHeader(Base, remaining) \/ OneBody(Base, remaining)
  BY <1>2 DEF CleanInv, OneRead
<1>5. /\ d = 0 => Base = 0
      /\ d # 0 => d \in DOMAIN sent /\ Base = End(d)
  <2>1. ASSUME d # 0  PROVE d \in DOMAIN sent /\ Base = End(d)
    <3>1. d \in DOMAIN sent /\ readPos = End(d) + remaining
      BY <1>3, <2>1 DEF Between
    <3>2. End(d) \in Nat
      BY <3>1, Order
    <3>3. QED
      BY <1>2, <3>1, <3>2
  <2>2. QED
    BY <1>2, <1>3, <2>1 DEF Between
<1>6. ASSUME NEW k \in DOMAIN sent, Base = sent[k].at
      PROVE  k = d + 1
  <2>1. k \in Nat /\ k > 0 /\ k <= Len(sent) /\ Len(sent) \in Nat /\ sent[k].at \in Nat
        /\ sent[k].at < Body(k) /\ Body(k) <= End(k) /\ Body(k) \in Nat /\ End(k) \in Nat
    BY Order
  <2>2. CASE k <= d
    <3>1. d # 0
      BY <1>1, <2>1, <2>2
    <3>2. d \in DOMAIN sent /\ Base = End(d)
      BY <1>5, <3>1
    <3>3. k = d \/ End(k) <= sent[d].at
      BY <1>1, <2>1, <2>2, <3>2, Order
    <3>4. sent[d].at < End(d) /\ sent[d].at \in Nat /\ End(d) \in Nat
      <4>1. sent[d].at \in Nat /\ Body(d) \in Nat /\ End(d) \in Nat
            /\ sent[d].at < Body(d) /\ Body(d) <= End(d)
        BY <3>2, Order
      <4>2. QED
        BY <4>1
    <3>5. QED
      BY <1>6, <2>1, <3>2, <3>3, <3>4
  <2>3. CASE k > d + 1
    <3>1. DOMAIN sent = 1 .. Len(sent) /\ d + 1 \in DOMAIN sent
      BY <1>1, <2>1, <2>3 DEF BaseInv, TcpTypeOK
    <3>2. End(d + 1) <= sent[k].at
      BY <2>3, <3>1, Order
    <3>3. sent[d + 1].at = Base
      <4>1. CASE d = 0
        BY <1>5, <3>1, <4>1 DEF BaseInv, WireInv
      <4>2. CASE d # 0
        BY <1>5, <3>1, <4>2 DEF BaseInv, WireInv
      <4>3. QED
        BY <4>1, <4>2
    <3>4. sent[d + 1].at < End(d + 1) /\ sent[d + 1].at \in Nat /\ End(d + 1) \in Nat
      <4>1. /\ sent[d + 1].at \in Nat /\ Body(d + 1) \in Nat /\ End(d + 1) \in Nat
            /\ sent[d + 1].at < Body(d + 1) /\ Body(d + 1) <= End(d + 1)
        BY <3>1, Order
      <4>2. QED
        BY <4>1
    <3>5. QED
      BY <1>6, <2>1, <3>2, <3>3, <3>4
  <2>4. QED
    BY <1>1, <2>1, <2>2, <2>3
<1>7. ~OneBody(Base, remaining)
  <2>1. SUFFICES ASSUME NEW k \in DOMAIN sent, Base >= Body(k), Base + remaining <= End(k)
                 PROVE  FALSE
    BY DEF OneBody
  <2>2. k \in Nat /\ k > 0 /\ sent[k].at \in Nat
        /\ sent[k].at < Body(k) /\ Body(k) <= End(k) /\ Body(k) \in Nat /\ End(k) \in Nat
    BY Order
  <2>3. d # 0
    BY <1>5, <2>1, <2>2
  <2>4. d \in DOMAIN sent /\ Base = End(d)
    BY <1>5, <2>3
  <2>5. /\ sent[d].at \in Nat /\ Body(d) \in Nat /\ End(d) \in Nat
        /\ sent[d].at < Body(d) /\ Body(d) <= End(d)
    BY <2>4, Order
  <2>6. (k < d => End(k) <= sent[d].at) /\ (d < k => End(d) <= sent[k].at)
    BY <2>4, Order
  <2>7. QED
    BY <1>1, <1>2, <2>1, <2>2, <2>4, <2>5, <2>6
<1>8. PICK k \in DOMAIN sent : Base = sent[k].at /\ remaining = HeaderSize
  BY <1>4, <1>7 DEF OneHeader
<1>9. k = d + 1
  BY <1>6, <1>8
<1>10. readPos = Body(d + 1)
  BY <1>2, <1>8, <1>9 DEF Body
<1>11. QED
  BY <1>1, <1>2, <1>6, <1>8, <1>9, <1>10

(* A read that begins within packet k, and is of one packet or a header,   *)
(* ends within it.                                                         *)
LEMMA BodyNext ==
  ASSUME BaseInv, NEW k \in DOMAIN sent, NEW p \in Nat, NEW n \in Nat, n > 0,
         Body(k) <= p, p < End(k), OneHeader(p, n) \/ OneBody(p, n)
  PROVE  p + n <= End(k)
<1>1. /\ sent[k].at \in Nat /\ Body(k) \in Nat /\ End(k) \in Nat /\ k \in Nat
      /\ sent[k].at < Body(k) /\ Body(k) <= End(k)
  BY Order
<1>2. ASSUME NEW j \in DOMAIN sent
      PROVE  /\ sent[j].at \in Nat /\ Body(j) \in Nat /\ End(j) \in Nat /\ j \in Nat
             /\ sent[j].at < Body(j) /\ Body(j) <= End(j)
             /\ (j < k => End(j) <= sent[k].at) /\ (k < j => End(k) <= sent[j].at)
  BY Order
<1>3. ~OneHeader(p, n)
  <2>1. SUFFICES ASSUME NEW j \in DOMAIN sent, p = sent[j].at
                 PROVE  FALSE
    BY DEF OneHeader
  <2>2. QED
    BY <1>1, <1>2, <2>1
<1>4. PICK j \in DOMAIN sent : p >= Body(j) /\ p + n <= End(j)
  BY <1>3 DEF OneBody
<1>5. j = k
  BY <1>1, <1>2, <1>4
<1>6. QED
  BY <1>4, <1>5

(* One packet more is delivered as it was sent. *)
LEMMA DeliverRight ==
  ASSUME BaseInv, DeliveredRight, UNCHANGED sent,
         Len(delivered) + 1 \in DOMAIN sent,
         delivered' = Append(delivered, Payload(Len(delivered) + 1))
  PROVE  DeliveredRight' /\ Len(delivered') = Len(delivered) + 1 /\ Len(delivered) \in Nat
<1> DEFINE d == Len(delivered)
<1>1. delivered \in Seq(Seq(Nat)) /\ d \in Nat
  BY DEF BaseInv, TcpTypeOK
<1>2. /\ Len(delivered') = d + 1 /\ DOMAIN delivered' = 1 .. d + 1 /\ DOMAIN delivered = 1 .. d
      /\ \A k \in 1 .. d : delivered'[k] = delivered[k]
      /\ delivered'[d + 1] = Payload(d + 1)
  <2> DEFINE pay == Payload(d + 1)
  <2>1. delivered' = Append(delivered, pay)
    OBVIOUS
  <2> HIDE DEF pay
  <2>2. /\ Len(delivered') = d + 1 /\ DOMAIN delivered' = 1 .. d + 1 /\ DOMAIN delivered = 1 .. d
        /\ \A k \in 1 .. d : delivered'[k] = delivered[k]
        /\ delivered'[d + 1] = pay
    BY <1>1, <2>1
  <2>3. QED
    BY <2>2 DEF pay
<1>3. \A k \in DOMAIN sent : Payload(k)' = Payload(k)
  BY DEF Payload, Body
<1>4. \A k \in DOMAIN delivered' : k \in DOMAIN sent' /\ delivered'[k] = Payload(k)'
  <2>1. TAKE k \in DOMAIN delivered'
  <2>2. CASE k \in DOMAIN delivered
    BY <1>2, <1>3, <2>2 DEF DeliveredRight
  <2>3. CASE k \notin DOMAIN delivered
    <3>1. k = d + 1
      BY <1>1, <1>2, <2>3
    <3>2. QED
      BY <1>2, <1>3, <3>1
  <2>4. QED
    BY <2>2, <2>3
<1>5. QED
  BY <1>1, <1>2, <1>4 DEF DeliveredRight

(* The same of a step that delivers nothing and leaves sent alone. *)
LEMMA DeliverNone ==
  ASSUME DeliveredRight, UNCHANGED <<sent, delivered>>
  PROVE  DeliveredRight'
BY DEF DeliveredRight, Payload, Body

(* What a step has to establish to be within packet k. *)
LEMMA WithinNext ==
  ASSUME NEW k \in DOMAIN sent, UNCHANGED sent,
         cur' # << >>, cur'[1].size = sent[k].len,
         Len(cur'[1].data) < cur'[1].size \/ cur'[1].size = 0,
         cur'[1].data = Bytes(k, Len(cur'[1].data)),
         readPos' - remaining' = Body(k) + Len(cur'[1].data)
  PROVE  Within(k)'
BY DEF Within, Bytes, Body

(* The first turn for a packet takes its header, and no more. *)
LEMMA CleanNew ==
  ASSUME BaseInv, CleanInv, clean, NewPacket
  PROVE  CleanInv'
<1>1. cur = << >> /\ remaining > 0 /\ session = "loop"
      /\ UNCHANGED <<sent, session, readPos, length, clean>>
  BY DEF NewPacket, clientVars
<1>2. PICK k : k = Len(delivered) + 1
  OBVIOUS
<1>3. /\ Len(delivered) \in Nat /\ k \in DOMAIN sent /\ remaining = HeaderSize
      /\ readPos = Body(k) /\ \A j \in DOMAIN sent : Base = sent[j].at => j = k
  BY <1>1, <1>2, HeaderNext
<1> DEFINE new == [size |-> sent[k].len, data |-> << >>]
<1>4. remaining' = 0 /\ cur' = <<new>> /\ delivered' = delivered
  <2>1. PICK j \in DOMAIN sent :
          /\ Base = sent[j].at
          /\ LET nw == [size |-> sent[j].len, data |-> << >>]
             IN IF remaining > HeaderSize
                  THEN CopyFrom(Base, nw, remaining - HeaderSize)
                  ELSE remaining' = 0 /\ cur' = <<nw>> /\ UNCHANGED delivered
    BY DEF NewPacket
  <2>2. j = k
    BY <1>3, <2>1
  <2>3. ~(remaining > HeaderSize)
    BY <1>3, Sizes
  <2>4. QED
    BY <2>1, <2>2, <2>3
<1>5. /\ cur' # << >> /\ cur'[1].size = sent[k].len /\ cur'[1].data = << >>
      /\ Len(cur'[1].data) = 0
  <2>1. new.size = sent[k].len /\ new.data = << >> /\ Len(<< >>) = 0
    OBVIOUS
  <2> HIDE DEF new
  <2>2. cur' # << >> /\ cur'[1] = new
    BY <1>4
  <2>3. QED
    BY <2>1, <2>2
<1>6. /\ sent[k].len \in Nat /\ readPos \in Nat /\ Body(k) \in Nat
  BY <1>3, CallTyped, SessionTyped DEF BaseInv
<1>7. Within(k)'
  <2>1. << >> = Bytes(k, 0)
    BY DEF Bytes
  <2>2. readPos' - remaining' = Body(k) + Len(cur'[1].data)
    BY <1>1, <1>3, <1>4, <1>5, <1>6
  <2>3. Len(cur'[1].data) < cur'[1].size \/ cur'[1].size = 0
    BY <1>5, <1>6
  <2>4. QED
    BY <1>1, <1>3, <1>5, <2>1, <2>2, <2>3, WithinNext
<1>8. DeliveredRight'
  BY <1>1, <1>4, DeliverNone DEF CleanInv
<1>9. AtOnce' /\ OneRead' /\ session' # "wild"
  BY <1>1, <1>4 DEF AtOnce, OneRead
<1>10. QED
  BY <1>2, <1>4, <1>7, <1>8, <1>9 DEF CleanInv

(* What a step has to establish to be between packets d and d + 1. *)
LEMMA BetweenNext ==
  ASSUME NEW d \in DOMAIN sent, UNCHANGED sent, cur' = << >>, d # 0,
         readPos' = End(d) + remaining'
  PROVE  Between(d)'
BY DEF Between, End

(* A turn for a packet takes bytes that are its own: all of the read, or,  *)
(* of an empty packet, none, and then it is handed on.                     *)
LEMMA CleanFill ==
  ASSUME BaseInv, CleanInv, clean, FillPacket
  PROVE  CleanInv'
<1>1. cur # << >> /\ remaining > 0 /\ session = "loop" /\ CopyFrom(Base, cur[1], remaining)
      /\ UNCHANGED <<sent, session, readPos, length, clean>>
  BY DEF FillPacket, clientVars
<1>2. PICK k : k = Len(delivered) + 1
  OBVIOUS
<1>3. Within(k) /\ AtOnce /\ OneRead /\ DeliveredRight
  BY <1>1, <1>2 DEF CleanInv, Between
<1>4. /\ readPos \in Nat /\ remaining \in Nat /\ length \in Nat /\ remaining = length
      /\ Base = readPos - remaining /\ Base \in Nat
  BY <1>1, <1>3, SessionTyped, BaseIsNat DEF BaseInv, AtOnce, Base
<1>5. PICK pkt \in Packet : pkt = cur[1]
  BY <1>1, CurTyped DEF BaseInv
<1>6. PICK had \in Nat : had = Len(pkt.data)
  BY <1>1, <1>5, CurTyped DEF BaseInv
<1>7. /\ k \in DOMAIN sent /\ pkt.size = sent[k].len /\ had <= pkt.size
      /\ had < pkt.size \/ pkt.size = 0
      /\ pkt.data = Bytes(k, had) /\ Base = Body(k) + had
  <2>1. Len(cur[1].data) <= cur[1].size
    BY <1>1, CurTyped DEF BaseInv
  <2>2. QED
    BY <1>3, <1>4, <1>5, <1>6, <2>1 DEF Within
<1>8. /\ sent[k].len \in Nat /\ Body(k) \in Nat /\ End(k) \in Nat /\ k \in Nat /\ k > 0
      /\ pkt.size \in Nat /\ End(k) = Body(k) + pkt.size /\ Base = Body(k) + had
      /\ had <= pkt.size /\ (had < pkt.size \/ pkt.size = 0)
  <2>1. sent[k].len \in Nat /\ Body(k) \in Nat /\ End(k) \in Nat /\ k \in 1 .. Len(sent)
        /\ End(k) = Body(k) + sent[k].len
    BY <1>7, CallTyped DEF BaseInv
  <2>2. pkt.size = sent[k].len /\ had <= pkt.size /\ (had < pkt.size \/ pkt.size = 0)
        /\ Base = Body(k) + had
    BY <1>7
  <2>3. k \in Nat /\ k > 0
    BY <1>2, <2>1 DEF BaseInv, TcpTypeOK
  <2>4. QED
    BY <2>1, <2>2, <2>3
<1>9. \/ /\ remaining >= pkt.size - had
         /\ remaining' = remaining - (pkt.size - had)
         /\ cur' = << >> /\ delivered' = Append(delivered, Payload(k))
      \/ /\ remaining < pkt.size - had
         /\ remaining' = 0
         /\ cur' # << >> /\ cur'[1].size = sent[k].len
         /\ cur'[1].data = Bytes(k, had + remaining)
         /\ Len(cur'[1].data) = had + remaining
         /\ delivered' = delivered
  <2>1. CopyFrom(Base, pkt, remaining) /\ Len(pkt.data) <= pkt.size
        /\ pkt.data = Bytes(k, Len(pkt.data)) /\ Base = Body(k) + Len(pkt.data)
    BY <1>1, <1>5, <1>6, <1>7
  <2>2. QED
    BY <1>4, <1>6, <1>7, <2>1, CopyContinues
<1>10. pkt.size # 0 => remaining <= pkt.size - had
  <2>1. HAVE pkt.size # 0
  <2>2. Body(k) <= Base /\ Base < End(k)
    BY <1>8, <2>1
  <2>3. OneHeader(Base, remaining) \/ OneBody(Base, remaining)
    BY <1>1, <1>3, <1>4 DEF OneRead
  <2>4. Base + remaining <= End(k)
    BY <1>1, <1>4, <1>7, <2>2, <2>3, BodyNext
  <2>5. QED
    BY <1>4, <1>8, <2>4
<1>11. remaining' \in {0, remaining}
  <2>1. \/ remaining' = 0
        \/ remaining >= pkt.size - had /\ remaining' = remaining - (pkt.size - had)
    BY <1>9
  <2>2. QED
    BY <1>4, <1>8, <1>10, <2>1
<1>12. AtOnce' /\ OneRead' /\ session' # "wild"
  BY <1>1, <1>3, <1>4, <1>11 DEF AtOnce, OneRead, OneHeader, OneBody, Body, End
<1>13. CASE cur' = << >>
  <2>1. delivered' = Append(delivered, Payload(k)) /\ remaining' = remaining - (pkt.size - had)
    BY <1>9, <1>13
  <2>2. DeliveredRight' /\ Len(delivered') = k
    BY <1>1, <1>2, <1>3, <1>7, <2>1, DeliverRight
  <2>3. readPos' = End(k) + remaining'
    <3>1. readPos' = readPos /\ remaining' = remaining - (pkt.size - had)
      BY <1>1, <2>1
    <3>2. QED
      BY <1>4, <1>8, <3>1
  <2>4. Between(k)'
    BY <1>1, <1>7, <1>8, <1>13, <2>3, BetweenNext
  <2>5. QED
    BY <1>12, <2>2, <2>4 DEF CleanInv
<1>14. CASE cur' # << >>
  <2>1. /\ remaining < pkt.size - had /\ remaining' = 0
        /\ cur'[1].size = sent[k].len /\ cur'[1].data = Bytes(k, had + remaining)
        /\ Len(cur'[1].data) = had + remaining /\ delivered' = delivered
    BY <1>9, <1>14
  <2>2. Len(cur'[1].data) < cur'[1].size
    BY <1>4, <1>7, <1>8, <2>1
  <2>3. readPos' - remaining' = Body(k) + Len(cur'[1].data)
    <3>1. readPos' = readPos /\ remaining' = 0
      BY <1>1, <2>1
    <3>2. readPos' - remaining' = Body(k) + (had + remaining)
      BY <1>4, <1>8, <3>1
    <3>3. QED
      BY <2>1, <3>2
  <2>4. Within(k)'
    BY <1>1, <1>7, <1>14, <2>1, <2>2, <2>3, WithinNext
  <2>5. DeliveredRight'
    BY <1>1, <1>3, <2>1, DeliverNone
  <2>6. QED
    BY <1>2, <1>12, <2>1, <2>4, <2>5 DEF CleanInv
<1>15. QED
  BY <1>13, <1>14

(* A read begins where the session is. *)
LEMMA CleanRead ==
  ASSUME BaseInv, CleanInv, NEW n \in 1 .. MaxRead, Read(n), clean'
  PROVE  CleanInv'
<1>1. /\ session = "reading" /\ session' = "loop" /\ clean
      /\ length' = n /\ remaining' = n /\ readPos' = readPos + n
      /\ UNCHANGED <<sent, cur, delivered>>
      /\ OneHeader(readPos, n) \/ OneBody(readPos, n)
  BY DEF Read, clientVars
<1>2. remaining = 0 /\ readPos \in Nat /\ readPos' - remaining' = readPos
  BY <1>1, SessionTyped DEF CleanInv, AtOnce, BaseInv
<1>3. PICK d \in Nat : d = Len(delivered)
  BY DeliveredCounts
<1>4. Within(d + 1)' \/ Between(d)'
  <2>1. CASE Within(d + 1)
    BY <1>1, <1>2, <2>1 DEF Within, Bytes, Body
  <2>2. CASE Between(d)
    <3>1. d # 0 => End(d) \in Nat
      BY <2>2, CallTyped DEF BaseInv, Between
    <3>2. QED
      BY <1>1, <1>2, <1>3, <2>2, <3>1 DEF Between, End
  <2>3. QED
    BY <1>1, <1>3, <2>1, <2>2 DEF CleanInv
<1>5. DeliveredRight'
  BY <1>1, DeliverNone DEF CleanInv
<1>6. AtOnce' /\ OneRead'
  <2>1. OneHeader(readPos' - remaining', n) \/ OneBody(readPos' - remaining', n)
    BY <1>1, <1>2
  <2>2. QED
    BY <1>1, <1>2, <2>1 DEF AtOnce, OneRead, OneHeader, OneBody, Body, End
<1>7. QED
  BY <1>1, <1>3, <1>4, <1>5, <1>6 DEF CleanInv

(* The client goes on writing while the session works on what it has. *)
LEMMA CleanClient ==
  ASSUME BaseInv, CleanInv, Client
  PROVE  CleanInv'
<1>1. /\ \A k \in DOMAIN sent : /\ k \in DOMAIN sent' /\ sent'[k] = sent[k]
                                /\ Body(k)' = Body(k) /\ End(k)' = End(k)
                                /\ Payload(k)' = Payload(k)
                                /\ \A n \in Nat : Bytes(k, n)' = Bytes(k, n)
      /\ UNCHANGED <<session, readPos, remaining, length, cur, delivered, clean>>
  BY SentGrows DEF sessionVars
<1>2. SUFFICES ASSUME clean  PROVE CleanInv'
  BY <1>1 DEF CleanInv
<1>3. DeliveredRight'
  BY <1>1, <1>2 DEF CleanInv, DeliveredRight
<1>4. AtOnce' /\ OneRead'
  BY <1>1, <1>2 DEF CleanInv, AtOnce, OneRead, OneHeader, OneBody
<1>5. PICK d \in Nat : d = Len(delivered)
  BY DeliveredCounts
<1>6. CASE Within(d + 1)
  <2>1. Len(cur[1].data) \in Nat
    BY <1>6, CurTyped DEF BaseInv, Within
  <2>2. Within(d + 1)'
    BY <1>1, <1>6, <2>1 DEF Within
  <2>3. QED
    BY <1>1, <1>2, <1>3, <1>4, <1>5, <2>2 DEF CleanInv
<1>7. CASE Between(d)
  <2>1. Between(d)'
    BY <1>1, <1>7 DEF Between
  <2>2. QED
    BY <1>1, <1>2, <1>3, <1>4, <1>5, <2>1 DEF CleanInv
<1>8. QED
  BY <1>2, <1>5, <1>6, <1>7 DEF CleanInv

LEMMA CleanStep ==
  ASSUME BaseInv, CleanInv, [TcpNext]_tcpVars
  PROVE  CleanInv'
<1>1. SUFFICES ASSUME clean'  PROVE CleanInv'
  BY DEF CleanInv
<1>2. CASE Client
  BY <1>2, CleanClient
<1>3. ASSUME NEW n \in 1 .. MaxRead, Read(n)
      PROVE  CleanInv'
  BY <1>1, <1>3, CleanRead
<1>4. CASE NewPacket
  BY <1>1, <1>4, CleanNew DEF NewPacket
<1>5. CASE FillPacket
  BY <1>1, <1>5, CleanFill DEF FillPacket
<1>6. CASE GoWild
  <2>1. clean /\ cur = << >> /\ remaining > 0
    BY <1>1, <1>6 DEF GoWild
  <2>2. Len(delivered) + 1 \in DOMAIN sent /\ Base = sent[Len(delivered) + 1].at
        /\ remaining = HeaderSize
    BY <2>1, HeaderNext
  <2>3. ~(remaining < HeaderSize)
    BY <2>2, Sizes
  <2>4. QED
    BY <1>6, <2>2, <2>3 DEF GoWild
<1>7. CASE Respond \/ StopServer \/ UNCHANGED tcpVars
  <2>1. /\ UNCHANGED <<sent, readPos, remaining, length, cur, delivered, clean>>
        /\ session' = session \/ (session' = "reading" /\ remaining = 0)
    BY <1>7 DEF Respond, StopServer, tcpVars, clientVars, sessionVars
  <2>2. AtOnce' /\ OneRead' /\ DeliveredRight' /\ session' # "wild"
    BY <1>1, <2>1 DEF CleanInv, AtOnce, OneRead, OneHeader, OneBody, DeliveredRight, Payload,
                     Body, End
  <2>3. (Within(Len(delivered) + 1) \/ Between(Len(delivered)))'
    BY <1>1, <2>1 DEF CleanInv, Within, Between, Bytes, Body, End
  <2>4. QED
    BY <2>2, <2>3 DEF CleanInv
<1>8. QED
  BY <1>2, <1>3, <1>4, <1>5, <1>6, <1>7 DEF TcpNext, Session

LEMMA InitClean == TcpInit => CleanInv
BY DEF TcpInit, CleanInv, AtOnce, OneRead, DeliveredRight, Between

(* However the packets are cut, and whatever their lengths: while each     *)
(* read is a header alone or bytes of one packet, what is handed on is     *)
(* what was sent, and the session never takes other bytes for a length.    *)
THEOREM FramingIsFaithful == TcpSpec => []Faithful
<1>1. BaseInv /\ CleanInv => Faithful
  <2>1. SUFFICES ASSUME BaseInv, CleanInv  PROVE Faithful
    OBVIOUS
  <2>2. DOMAIN delivered = 1 .. Len(delivered)
    BY DEF BaseInv, TcpTypeOK
  <2>3. QED
    BY <2>1, <2>2 DEF CleanInv, DeliveredRight, Faithful
<1>2. QED
  BY <1>1, InitBase, InitClean, BaseStep, CleanStep, PTL DEF TcpSpec
-----------------------------------------------------------------------------
(* The session has read the first header and not looked at it yet. *)
AtHeader ==
  /\ sent # << >> /\ cur = << >> /\ session = "loop"
  /\ readPos = HeaderSize /\ length = HeaderSize /\ remaining = HeaderSize

(* What comes of a first read that was a header. *)
FirstInv ==
  /\ firstRead = 0 => /\ session = "reading" /\ readPos = 0 /\ remaining = 0
                      /\ cur = << >> /\ delivered = << >>
  /\ firstRead = HeaderSize =>
       \/ delivered # << >> /\ sent # << >> /\ delivered[1] = Payload(1)
       \/ delivered = << >> /\ session # "wild" /\ AtOnce /\ (Within(1) \/ AtHeader)

(* The first packet handed on stays the first. *)
LEMMA FirstStays ==
  ASSUME BaseInv, delivered # << >>, NEW x, delivered' = Append(delivered, x)
  PROVE  delivered' # << >> /\ delivered'[1] = delivered[1]
<1> DEFINE T == Seq(Nat) \cup {x}
<1>1. delivered \in Seq(Seq(Nat)) /\ Seq(Nat) \subseteq T /\ x \in T
  BY DEF BaseInv, TcpTypeOK
<1> HIDE DEF T
<1>2. delivered \in Seq(T)
  BY <1>1, SeqMonotonic, Zenon
<1>3. QED
  BY <1>1, <1>2

(* A turn of the loop hands on a packet or none. *)
LEMMA TurnDelivers ==
  ASSUME NewPacket \/ FillPacket
  PROVE  delivered' = delivered \/ \E x : delivered' = Append(delivered, x)
<1>1. ASSUME NEW p, NEW pkt, NEW left, CopyFrom(p, pkt, left)
      PROVE  delivered' = delivered \/ \E x : delivered' = Append(delivered, x)
  BY <1>1, Zenon DEF CopyFrom
<1>2. CASE FillPacket
  BY <1>1, <1>2 DEF FillPacket
<1>3. CASE NewPacket
  BY <1>1, <1>3, Zenon DEF NewPacket
<1>4. QED
  BY <1>2, <1>3

LEMMA FirstStep ==
  ASSUME BaseInv, FirstInv, [TcpNext]_tcpVars
  PROVE  FirstInv'
<1> USE Sizes
<1>1. CASE Client
  <2>1. /\ \A k \in DOMAIN sent : /\ k \in DOMAIN sent' /\ sent'[k] = sent[k]
                                  /\ Body(k)' = Body(k) /\ Payload(k)' = Payload(k)
                                  /\ \A n \in Nat : Bytes(k, n)' = Bytes(k, n)
        /\ UNCHANGED <<session, readPos, remaining, length, cur, delivered, firstRead>>
    BY <1>1, SentGrows DEF sessionVars
  <2>2. sent # << >> => 1 \in DOMAIN sent /\ sent' # << >> /\ Payload(1)' = Payload(1)
    <3>1. HAVE sent # << >>
    <3>2. 1 \in DOMAIN sent
      BY <3>1, LastCall DEF BaseInv
    <3>3. 1 \in DOMAIN sent'
      BY <2>1, <3>2
    <3>4. sent' # << >>
      BY <3>3
    <3>5. QED
      BY <2>1, <3>2, <3>4
  <2>3. Within(1) => Within(1)'
    <3>1. HAVE Within(1)
    <3>2. Len(cur[1].data) \in Nat
      BY <3>1, CurTyped DEF BaseInv, Within
    <3>3. QED
      BY <2>1, <3>1, <3>2 DEF Within
  <2>4. QED
    BY <2>1, <2>2, <2>3 DEF FirstInv, AtOnce, AtHeader
<1>2. ASSUME NEW n \in 1 .. MaxRead, Read(n)
      PROVE  FirstInv'
  <2>1. /\ session = "reading" /\ session' = "loop" /\ n <= written - readPos
        /\ length' = n /\ remaining' = n /\ readPos' = readPos + n
        /\ UNCHANGED <<client, sent, written, cur, delivered>>
        /\ firstRead' = IF firstRead = 0 THEN n ELSE firstRead
    BY <1>2 DEF Read, clientVars
  <2>2. readPos \in Nat /\ written \in Nat
    BY SessionTyped DEF BaseInv
  <2>3. firstRead' # 0
    BY <2>1
  <2>4. CASE firstRead = 0
    <3>1. sent # << >>
      BY <2>1, <2>2 DEF BaseInv, WireInv
    <3>2. n = HeaderSize => AtHeader'
      BY <2>1, <2>4, <3>1 DEF AtHeader, FirstInv
    <3>3. QED
      BY <2>1, <2>3, <2>4, <3>2 DEF FirstInv, AtOnce
  <2>5. CASE firstRead # 0
    <3>1. Within(1) /\ remaining = 0 => Within(1)'
      BY <2>1, <2>2 DEF Within, Bytes, Body
    <3>2. QED
      BY <2>1, <2>3, <2>5, <3>1 DEF FirstInv, AtOnce, AtHeader, Payload, Body
  <2>6. QED
    BY <2>4, <2>5
<1>3. CASE (NewPacket \/ FillPacket) /\ firstRead = HeaderSize
  <2>1. UNCHANGED <<sent, session, readPos, length, firstRead>> /\ session = "loop" /\ remaining > 0
    BY <1>3 DEF NewPacket, FillPacket, clientVars
  <2>2. readPos \in Nat /\ remaining \in Nat /\ length \in Nat
    BY SessionTyped DEF BaseInv
  <2>3. CASE delivered # << >>
    BY <1>3, <2>1, <2>3, TurnDelivers, FirstStays DEF FirstInv, Payload, Body
  <2>4. CASE delivered = << >> /\ AtHeader
    <3>1. /\ cur = << >> /\ Base = 0 /\ 1 \in DOMAIN sent /\ sent[1].at = 0
          /\ remaining = HeaderSize /\ readPos = HeaderSize
      BY <2>2, <2>4, LastCall DEF AtHeader, Base, BaseInv, WireInv
    <3>2. ASSUME NEW k \in DOMAIN sent, sent[k].at = 0  PROVE k = 1
      <4>1. /\ k \in Nat /\ k > 0 /\ sent[1].at < Body(1) /\ Body(1) <= End(1)
            /\ Body(1) \in Nat /\ End(1) \in Nat /\ (1 < k => End(1) <= sent[k].at)
        BY <3>1, Order
      <4>2. QED
        BY <3>1, <3>2, <4>1
    <3> DEFINE new == [size |-> sent[1].len, data |-> << >>]
    <3>3. remaining' = 0 /\ cur' = <<new>> /\ delivered' = delivered
      <4>1. NewPacket
        BY <1>3, <3>1 DEF FillPacket
      <4>2. PICK k \in DOMAIN sent :
              /\ Base = sent[k].at
              /\ LET nw == [size |-> sent[k].len, data |-> << >>]
                 IN IF remaining > HeaderSize
                      THEN CopyFrom(Base, nw, remaining - HeaderSize)
                      ELSE remaining' = 0 /\ cur' = <<nw>> /\ UNCHANGED delivered
        BY <4>1 DEF NewPacket
      <4>3. k = 1
        BY <3>1, <3>2, <4>2
      <4>4. ~(remaining > HeaderSize)
        BY <3>1
      <4>5. QED
        BY <4>2, <4>3, <4>4
    <3>4. new.size = sent[1].len /\ new.data = << >> /\ Len(<< >>) = 0 /\ << >> = Bytes(1, 0)
      BY DEF Bytes
    <3>5. sent[1].len \in Nat /\ Body(1) = HeaderSize
      BY <3>1, CallTyped DEF BaseInv, Body
    <3> HIDE DEF new
    <3>6. cur' # << >> /\ cur'[1] = new
      BY <3>3
    <3>7. Within(1)'
      <4>1. readPos' - remaining' = Body(1) + Len(cur'[1].data)
        BY <2>1, <3>1, <3>3, <3>4, <3>5, <3>6
      <4>2. Len(cur'[1].data) < cur'[1].size \/ cur'[1].size = 0
        BY <3>4, <3>5, <3>6
      <4>3. QED
        BY <2>1, <3>1, <3>4, <3>6, <4>1, <4>2, WithinNext
    <3>8. QED
      BY <1>3, <2>1, <2>4, <3>3, <3>7 DEF FirstInv, AtOnce
  <2>5. CASE delivered = << >> /\ Within(1) /\ AtOnce
    <3>1. cur # << >> /\ 1 \in DOMAIN sent /\ CopyFrom(Base, cur[1], remaining)
      BY <1>3, <2>5 DEF Within, NewPacket, FillPacket
    <3>2. /\ cur[1] \in Packet /\ cur[1].size = sent[1].len /\ Len(cur[1].data) <= cur[1].size
          /\ cur[1].data = Bytes(1, Len(cur[1].data)) /\ cur[1].size \in Nat
          /\ Len(cur[1].data) \in Nat
      BY <2>5, <3>1, CurTyped DEF Within, BaseInv
    <3>3. Base = Body(1) + Len(cur[1].data)
      BY <2>1, <2>2, <2>5 DEF AtOnce, Within, Base
    <3>4. \/ /\ cur' = << >> /\ delivered' = Append(delivered, Payload(1))
          \/ /\ remaining < cur[1].size - Len(cur[1].data)
             /\ remaining' = 0
             /\ cur' # << >> /\ cur'[1].size = sent[1].len
             /\ cur'[1].data = Bytes(1, Len(cur[1].data) + remaining)
             /\ Len(cur'[1].data) = Len(cur[1].data) + remaining
             /\ delivered' = delivered
      BY <2>2, <3>1, <3>2, <3>3, CopyContinues
    <3>5. CASE delivered' = Append(delivered, Payload(1))
      <4>1. Payload(1)' = Payload(1) /\ sent' # << >>
        BY <2>1, <3>1 DEF Payload, Body
      <4>2. delivered' # << >> /\ delivered'[1] = Payload(1)
        BY <2>5, <3>5
      <4>3. QED
        BY <1>3, <2>1, <4>1, <4>2 DEF FirstInv
    <3>6. CASE cur' # << >> /\ delivered' = delivered /\ remaining' = 0
      <4>1. /\ remaining < cur[1].size - Len(cur[1].data)
            /\ cur'[1].size = sent[1].len
            /\ cur'[1].data = Bytes(1, Len(cur[1].data) + remaining)
            /\ Len(cur'[1].data) = Len(cur[1].data) + remaining
        BY <3>4, <3>6
      <4>2. Body(1) \in Nat
        BY <3>1, CallTyped DEF BaseInv
      <4>3. PICK had \in Nat : had = Len(cur[1].data)
        BY <3>2
      <4>4. PICK size \in Nat : size = cur[1].size
        BY <3>2
      <4>5. Base = Body(1) + had /\ Base = readPos - remaining
        BY <2>1, <2>2, <2>5, <3>3, <4>3 DEF Base, AtOnce
      <4>6. /\ readPos = Body(1) + (had + remaining)
            /\ remaining < size - had => had + remaining < size
        BY <2>2, <4>2, <4>5
      <4>7. Within(1)'
        <5>1. readPos' - remaining' = Body(1) + Len(cur'[1].data)
          BY <2>1, <3>6, <4>1, <4>3, <4>4, <4>6
        <5>2. Len(cur'[1].data) < cur'[1].size
          BY <3>2, <4>1, <4>3, <4>4, <4>6
        <5>3. QED
          BY <2>1, <3>1, <3>6, <4>1, <5>1, <5>2, WithinNext
      <4>8. QED
        BY <1>3, <2>1, <2>5, <3>6, <4>7 DEF FirstInv, AtOnce
    <3>7. QED
      BY <3>4, <3>5, <3>6
  <2>6. QED
    BY <1>3, <2>3, <2>4, <2>5 DEF FirstInv
<1>4. CASE (NewPacket \/ FillPacket \/ GoWild) /\ firstRead # HeaderSize
  BY <1>4 DEF NewPacket, FillPacket, GoWild, FirstInv
<1>5. CASE GoWild /\ firstRead = HeaderSize
  <2>1. delivered # << >>
    <3>1. SUFFICES ASSUME delivered = << >>  PROVE FALSE
      OBVIOUS
    <3>2. AtHeader
      BY <1>5, <3>1 DEF GoWild, FirstInv, Within
    <3>3. Base = 0 /\ 1 \in DOMAIN sent /\ sent[1].at = 0
      BY <3>2, LastCall DEF AtHeader, Base, BaseInv, WireInv
    <3>4. QED
      BY <1>5, <3>2, <3>3 DEF GoWild, AtHeader
  <2>2. UNCHANGED <<sent, delivered, firstRead>>
    BY <1>5 DEF GoWild, clientVars
  <2>3. QED
    BY <1>5, <2>1, <2>2 DEF FirstInv, Payload, Body
<1>6. CASE Respond \/ StopServer \/ UNCHANGED tcpVars
  <2>1. /\ UNCHANGED <<sent, readPos, remaining, length, cur, delivered, firstRead>>
        /\ session' = session \/ (session' = "reading" /\ remaining = 0 /\ session = "loop")
    BY <1>6 DEF Respond, StopServer, tcpVars, clientVars, sessionVars
  <2>2. QED
    BY <2>1 DEF FirstInv, AtOnce, Within, AtHeader, Bytes, Payload, Body
<1>7. QED
  BY <1>1, <1>2, <1>3, <1>4, <1>5, <1>6 DEF TcpNext, Session

(* One header that comes whole is enough: the first packet is handed on as *)
(* it was sent, whatever TCP makes of the rest of the connection.          *)
THEOREM FirstIsIntact == TcpSpec => []FirstPacketIntact
<1>1. TcpInit => FirstInv
  BY Sizes DEF TcpInit, FirstInv
<1>2. FirstInv => FirstPacketIntact
  BY DEF FirstInv, FirstPacketIntact
<1>3. QED
  BY <1>1, <1>2, InitBase, BaseStep, FirstStep, PTL DEF TcpSpec
-----------------------------------------------------------------------------
(* Division, as far as it is needed. *)
LEMMA Divide ==
  ASSUME NEW C \in Nat, C > 0, NEW a \in Nat
  PROVE  a % C \in 0 .. C - 1 /\ a = C * (a \div C) + (a % C) /\ a \div C \in Int
OBVIOUS

LEMMA Multiples ==
  ASSUME NEW C \in Nat, C > 0, NEW p \in Int, NEW q \in Int, p < q
  PROVE  C * p \in Int /\ C * q \in Int /\ C * p + C <= C * q
OBVIOUS

(* Less than C past a multiple of C is none, and C past it is the next. *)
LEMMA NextMultiple ==
  ASSUME NEW C \in Nat, C > 0, NEW a \in Nat, a % C = 0, NEW n \in Nat, 0 < n, n <= C
  PROVE  (a + n) % C = 0 <=> n = C
<1> DEFINE q == a \div C
           s == (a + n) \div C
           r == (a + n) % C
<1>1. a = C * q /\ q \in Int
  BY Divide
<1>2. a + n = C * s + r /\ s \in Int /\ r \in 0 .. C - 1
  <2>1. a + n \in Nat
    OBVIOUS
  <2>2. QED
    BY <2>1, Divide
<1> HIDE DEF q, s, r
<1>3. C * q \in Int /\ C * s \in Int
  BY <1>1, <1>2
<1>4. q < s => C * q + C <= C * s
  BY <1>1, <1>2, Multiples
<1>5. s < q => C * s + C <= C * q
  BY <1>1, <1>2, Multiples
<1>6. q + 1 < s => C * (q + 1) + C <= C * s
  BY <1>1, <1>2, Multiples
<1>7. C * (q + 1) = C * q + C
  BY <1>1
<1>8. s = q => C * s = C * q
  OBVIOUS
<1>9. s = q + 1 => C * s = C * q + C
  BY <1>7
<1>10. r = 0 <=> n = C
  BY <1>1, <1>2, <1>3, <1>4, <1>5, <1>6, <1>7, <1>8, <1>9
<1>11. QED
  BY <1>10 DEF r

-----------------------------------------------------------------------------
(* The last call of Send. *)
Last == Len(sent)

(* A whole number of chunks of the last packet end at p. *)
AtChunk(p) == p >= Body(Last) /\ (p - Body(Last)) % ChunkSize = 0

(* One write is under way: a header, or a chunk. *)
UnderWay ==
  /\ replies = 0 /\ session = "reading" /\ readPos < written
  /\ \/ client = "headerAck" /\ readPos = sent[Last].at
     \/ client = "chunkAck" /\ AtChunk(readPos) /\ written - readPos <= ChunkSize

(* The write has been read, and is being answered or was. *)
Answered ==
  /\ readPos = written
  /\ \/ replies = 0 /\ session = "loop"
     \/ replies = ReplySize /\ session = "reading"

(* What the client waits for, and what it has written when it does not. *)
WaitInv ==
  /\ client # "thrown"
  /\ client \in {"idle", "header", "chunk"} =>
       written = readPos /\ replies = 0 /\ session = "reading"
  /\ client \in {"headerAck", "chunkAck"} => UnderWay \/ Answered
  /\ client = "headerAck" => written = Body(Last)
  /\ client \in {"chunk", "headerAck", "chunkAck"} /\ written < End(Last) => AtChunk(written)

(* As long as each read took whole writes, until the server stops. *)
StopInv == whole => clean /\ (~closed => WaitInv)

(* The last packet, in numbers. *)
LEMMA LastInNumbers ==
  ASSUME BaseInv, sent # << >>
  PROVE  /\ Last \in DOMAIN sent /\ Last \in Nat /\ Last > 0 /\ Last = Len(sent)
         /\ sent[Last].at \in Nat /\ Body(Last) \in Nat /\ End(Last) \in Nat
         /\ sent[Last].at < Body(Last) /\ Body(Last) <= End(Last)
         /\ Body(Last) = sent[Last].at + HeaderSize
<1>1. Last \in DOMAIN sent
  BY LastCall DEF BaseInv, Last
<1>2. QED
  BY <1>1, Order DEF Last

(* The end of a write in the last packet is that of its header, a chunk or *)
(* the packet.                                                             *)
LEMMA WriteEndsInLast ==
  ASSUME BaseInv, sent # << >>, NEW p \in Nat, sent[Last].at < p, WriteEnd(p)
  PROVE  Body(Last) <= p /\ (p = End(Last) \/ (p - Body(Last)) % ChunkSize = 0)
<1>1. PICK k \in DOMAIN sent : /\ p \in Body(k) .. End(k)
                               /\ p = End(k) \/ (p - Body(k)) % ChunkSize = 0
  BY DEF WriteEnd
<1>2. /\ Last \in DOMAIN sent /\ sent[Last].at \in Nat /\ Last = Len(sent)
  BY LastInNumbers
<1>3. /\ k \in Nat /\ k <= Last /\ Last \in Nat /\ Body(k) \in Nat /\ End(k) \in Nat
      /\ (k < Last => End(k) <= sent[Last].at)
  BY <1>2, Order
<1>4. k = Last
  BY <1>1, <1>2, <1>3
<1>5. QED
  BY <1>1, <1>3, <1>4

(* Of one write that is under way, a read that takes whole writes takes    *)
(* all: a header, or bytes of the last packet.                             *)
LEMMA WholeRead ==
  ASSUME BaseInv, UnderWay, NEW n \in 1 .. MaxRead, n <= written - readPos,
         client = "headerAck" => written = Body(Last), WriteEnd(readPos + n)
  PROVE  /\ readPos + n = written
         /\ OneHeader(readPos, n) \/ OneBody(readPos, n)
<1>1. sent # << >> /\ written <= End(Last)
  BY DEF BaseInv, WireInv, UnderWay, Last
<1>2. /\ Last \in DOMAIN sent
      /\ sent[Last].at \in Nat /\ Body(Last) \in Nat /\ End(Last) \in Nat
      /\ sent[Last].at < Body(Last) /\ Body(Last) = sent[Last].at + HeaderSize
  BY <1>1, LastInNumbers
<1>3. readPos \in Nat /\ written \in Nat /\ n \in Nat /\ n > 0 /\ HeaderSize \in Nat
  BY SessionTyped, Sizes DEF BaseInv
<1>4. CASE client = "headerAck"
  <2>1. readPos = sent[Last].at /\ written = Body(Last)
    BY <1>4 DEF UnderWay
  <2>2. Body(Last) <= readPos + n
    <3>1. readPos + n \in Nat /\ sent[Last].at < readPos + n
      BY <1>2, <1>3, <2>1
    <3>2. QED
      BY <1>1, <3>1, WriteEndsInLast
  <2>3. readPos + n = written /\ n = HeaderSize
    BY <1>2, <1>3, <2>1, <2>2
  <2>4. QED
    BY <1>2, <2>1, <2>3 DEF OneHeader
<1>5. CASE client = "chunkAck"
  <2>1. Body(Last) <= readPos /\ (readPos - Body(Last)) % ChunkSize = 0
        /\ written - readPos <= ChunkSize
    BY <1>5 DEF UnderWay, AtChunk
  <2>2. readPos + n \in Nat /\ sent[Last].at < readPos + n
    BY <1>2, <1>3, <2>1
  <2>3. readPos + n = End(Last) \/ ((readPos + n) - Body(Last)) % ChunkSize = 0
    BY <1>1, <2>2, WriteEndsInLast
  <2>4. readPos + n = written
    <3>1. CASE readPos + n = End(Last)
      BY <1>1, <1>2, <1>3, <3>1
    <3>2. CASE ((readPos + n) - Body(Last)) % ChunkSize = 0
      <4>1. PICK a \in Nat : a = readPos - Body(Last)
        BY <1>2, <1>3, <2>1
      <4>2. (readPos + n) - Body(Last) = a + n /\ n <= ChunkSize /\ ChunkSize \in Nat
        BY <1>2, <1>3, <2>1, <4>1, Sizes
      <4>3. n = ChunkSize
        BY <1>3, <2>1, <3>2, <4>1, <4>2, NextMultiple, Sizes
      <4>4. QED
        BY <1>3, <2>1, <4>2, <4>3
    <3>3. QED
      BY <2>3, <3>1, <3>2
  <2>5. QED
    BY <1>1, <1>2, <2>1, <2>4 DEF OneBody
<1>6. QED
  BY <1>4, <1>5 DEF UnderWay

(* A place of the last packet is none of a call still to come. *)
LEMMA LastKept ==
  ASSUME UNCHANGED sent
  PROVE  /\ Body(Last)' = Body(Last) /\ End(Last)' = End(Last) /\ Last' = Last
         /\ sent[Last]' = sent[Last] /\ \A p : AtChunk(p)' = AtChunk(p)
BY DEF Body, End, Last, AtChunk

(* The client waits: with whole replies it goes on only when its write has *)
(* been read and answered.                                                 *)
LEMMA StopClient ==
  ASSUME BaseInv, BaseInv', whole, clean, ~closed, WaitInv, Client, whole'
  PROVE  WaitInv'
<1> USE Sizes
<1>1. UNCHANGED <<session, readPos>>
  BY DEF Client, Send, WriteHeader, WriteChunk, Write, WriteThrows, ReadReply, ReadError,
         sessionVars
<1>2. readPos \in Nat /\ written \in Nat /\ replies \in Nat /\ readPos <= written
  BY SessionTyped DEF BaseInv
<1>3. CASE Send
  BY <1>1, <1>3 DEF Send, WaitInv
<1>4. ASSUME client # "idle"
      PROVE  /\ sent # << >> /\ Body(Last) \in Nat /\ End(Last) \in Nat
             /\ Body(Last) = sent[Last].at + HeaderSize /\ sent[Last].at \in Nat
             /\ Body(Last) <= End(Last)
  BY <1>4, LastInNumbers DEF BaseInv, WireInv
<1>5. CASE WriteHeader
  <2>1. /\ client = "header" /\ client' = "headerAck" /\ written' = written + HeaderSize
        /\ sent' = sent /\ replies' = replies
    BY <1>5 DEF WriteHeader, Write
  <2>2. /\ written = sent[Last].at /\ written = readPos /\ replies = 0 /\ session = "reading"
    BY <2>1 DEF BaseInv, WireInv, WaitInv, Last
  <2>3. written' = Body(Last) /\ Body(Last) \in Nat
    BY <1>4, <2>1, <2>2
  <2>4. AtChunk(written')
    <3>1. (written' - Body(Last)) = 0 /\ 0 % ChunkSize = 0
      BY <2>3, Divide
    <3>2. QED
      BY <2>3, <3>1 DEF AtChunk
  <2>5. UnderWay'
    <3>1. readPos' < written'
      BY <1>1, <1>2, <2>1, <2>2
    <3>2. readPos' = sent'[Last'].at
      BY <1>1, <2>1, <2>2, LastKept
    <3>3. QED
      BY <1>1, <2>1, <2>2, <3>1, <3>2 DEF UnderWay
  <2>6. AtChunk(written)'
    BY <2>1, <2>4 DEF AtChunk, Body, Last
  <2>7. QED
    BY <2>1, <2>3, <2>5, <2>6, LastKept DEF WaitInv
<1>6. CASE WriteChunk
  <2>1. /\ client = "chunk" /\ client' = "chunkAck" /\ written' = written + ChunkBytes
        /\ sent' = sent /\ replies' = replies
    BY <1>6 DEF WriteChunk, Write
  <2>2. written < End(Last) /\ AtChunk(written) /\ written = readPos /\ replies = 0
        /\ session = "reading"
    BY <2>1 DEF BaseInv, WireInv, WaitInv, Last
  <2>3. /\ ChunkBytes \in Nat /\ ChunkBytes > 0 /\ ChunkBytes <= ChunkSize
        /\ written' < End(Last) => ChunkBytes = ChunkSize
    BY <1>2, <1>4, <2>1, <2>2 DEF ChunkBytes, Last
  <2>4. UnderWay'
    <3>1. AtChunk(readPos)'
      BY <1>1, <2>1, <2>2 DEF AtChunk, Body, Last
    <3>2. readPos' < written' /\ written' - readPos' <= ChunkSize
      BY <1>1, <1>2, <2>1, <2>2, <2>3
    <3>3. QED
      BY <1>1, <2>1, <2>2, <3>1, <3>2 DEF UnderWay
  <2>5. ASSUME written' < End(Last)
        PROVE  AtChunk(written')
    <3>1. PICK a \in Nat : a = written - Body(Last) /\ a % ChunkSize = 0
      BY <1>2, <1>4, <2>1, <2>2 DEF AtChunk
    <3>2. (a + ChunkSize) % ChunkSize = 0
      BY <3>1, NextMultiple
    <3>3. written' - Body(Last) = a + ChunkSize /\ written' >= Body(Last)
      BY <1>2, <1>4, <2>1, <2>3, <2>5, <3>1
    <3>4. QED
      BY <3>2, <3>3 DEF AtChunk
  <2>6. written' < End(Last)' => AtChunk(written)'
    BY <2>1, <2>5 DEF AtChunk, Body, Last, End
  <2>7. QED
    BY <2>1, <2>4, <2>6 DEF WaitInv
<1>7. CASE ReadReply
  <2>1. /\ client \in {"headerAck", "chunkAck"} /\ sent' = sent /\ written' = written
        /\ client' = IF written < End(Last) THEN "chunk" ELSE "idle"
    BY <1>7 DEF ReadReply, GoOn, Last
  <2>2. replies >= ReplySize /\ replies' = replies - ReplySize
    BY <1>2, <1>7 DEF ReadReply
  <2>3. Answered /\ replies = ReplySize
    BY <1>2, <2>1, <2>2 DEF WaitInv, UnderWay, Answered
  <2>4. written < End(Last) => AtChunk(written)'
    BY <2>1 DEF WaitInv, AtChunk, Body, Last
  <2>5. replies' = 0 /\ written' = readPos' /\ session' = "reading"
    BY <1>1, <1>2, <2>1, <2>2, <2>3 DEF Answered
  <2>6. End(Last)' = End(Last)
    BY <2>1, LastKept
  <2>7. QED
    BY <1>2, <1>4, <2>1, <2>4, <2>5, <2>6 DEF WaitInv
<1>8. QED
  BY <1>3, <1>5, <1>6, <1>7 DEF Client, WriteThrows, ReadError

(* The session reads the write, works on it and answers once. *)
LEMMA StopStep ==
  ASSUME BaseInv, BaseInv', CleanInv, CleanInv', StopInv, [TcpNext]_tcpVars
  PROVE  StopInv'
<1> USE Sizes
<1>1. SUFFICES ASSUME whole'  PROVE clean' /\ (~closed' => WaitInv')
  BY DEF StopInv
<1>2. whole
  BY <1>1 DEF TcpNext, Client, Send, WriteHeader, WriteChunk, Write, WriteThrows, ReadReply,
              ReadError, Session, Read, NewPacket, GoWild, FillPacket, Respond, StopServer, tcpVars
<1>3. clean /\ (~closed => WaitInv)
  BY <1>2 DEF StopInv
<1>4. CASE Client
  <2>1. UNCHANGED <<clean, closed>>
    BY <1>4 DEF Client, Send, WriteHeader, WriteChunk, Write, WriteThrows, ReadReply, ReadError,
                sessionVars
  <2>2. QED
    BY <1>1, <1>2, <1>3, <1>4, <2>1, StopClient
<1>5. ASSUME NEW n \in 1 .. MaxRead, Read(n)
      PROVE  clean' /\ (~closed' => WaitInv')
  <2>1. /\ ~closed /\ session = "reading" /\ n <= written - readPos
        /\ readPos' = readPos + n /\ session' = "loop"
        /\ UNCHANGED <<client, sent, written, replies>>
        /\ WriteEnd(readPos + n)
    BY <1>1, <1>5 DEF Read, clientVars
  <2>2. readPos \in Nat /\ written \in Nat /\ n > 0
    BY SessionTyped DEF BaseInv
  <2>3. WaitInv
    BY <1>3, <2>1
  <2>4. client \in {"headerAck", "chunkAck"} /\ UnderWay
    <3>1. written # readPos
      BY <2>1, <2>2
    <3>2. QED
      BY <2>3, <3>1 DEF WaitInv, Answered, BaseInv, TcpTypeOK, ClientStates
  <2>5. readPos + n = written /\ (OneHeader(readPos, n) \/ OneBody(readPos, n))
    BY <2>1, <2>3, <2>4, WholeRead DEF WaitInv
  <2>6. clean'
    BY <1>3, <1>5, <2>5 DEF Read
  <2>7. Answered'
    BY <2>1, <2>4, <2>5 DEF Answered, UnderWay
  <2>8. QED
    BY <2>1, <2>3, <2>4, <2>6, <2>7 DEF WaitInv, AtChunk, Body, End, Last
<1>6. CASE NewPacket \/ FillPacket \/ GoWild
  <2>1. /\ UNCHANGED <<client, sent, written, replies, readPos, clean, closed>>
        /\ session = "loop" /\ (session' = "loop" \/ session' = "wild")
    BY <1>6 DEF NewPacket, FillPacket, GoWild, clientVars
  <2>2. session' = "loop"
    BY <1>3, <2>1 DEF CleanInv
  <2>3. WaitInv => WaitInv'
    BY <2>1, <2>2 DEF WaitInv, UnderWay, Answered, AtChunk, Body, End, Last
  <2>4. QED
    BY <1>3, <2>1, <2>3
<1>7. CASE Respond
  <2>1. /\ UNCHANGED <<client, sent, written, readPos, clean, closed>>
        /\ session = "loop" /\ session' = "reading" /\ replies' = replies + ReplySize
    BY <1>7 DEF Respond, clientVars
  <2>2. ASSUME WaitInv  PROVE WaitInv'
    <3>1. Answered /\ replies = 0 /\ client \in {"headerAck", "chunkAck"}
      BY <2>1, <2>2 DEF WaitInv, UnderWay, Answered, BaseInv, TcpTypeOK, ClientStates
    <3>2. replies' = ReplySize
      BY <2>1, <3>1
    <3>3. Answered'
      BY <2>1, <3>1, <3>2 DEF Answered
    <3>4. QED
      BY <2>1, <2>2, <3>1, <3>3 DEF WaitInv, AtChunk, Body, End, Last
  <2>3. QED
    BY <1>3, <2>1, <2>2
<1>8. CASE StopServer
  BY <1>3, <1>8 DEF StopServer, sessionVars
<1>9. CASE UNCHANGED tcpVars
  BY <1>3, <1>9 DEF tcpVars, clientVars, sessionVars, WaitInv, UnderWay, Answered, AtChunk, Body,
                    End, Last
<1>10. QED
  BY <1>4, <1>5, <1>6, <1>7, <1>8, <1>9 DEF TcpNext, Session

LEMMA InitStop == TcpInit => StopInv
BY DEF TcpInit, StopInv, WaitInv

(* Waiting for a reply after each write keeps the reads apart, as long as  *)
(* nothing is cut: at most one write or its answer is under way, and no    *)
(* read joins a header with anything.                                      *)
THEOREM RepliesKeepReadsApart == TcpSpec => []StopAndWait
<1>1. StopInv => StopAndWait
  BY DEF StopInv, WaitInv, StopAndWait
<1>2. QED
  BY <1>1, InitBase, InitClean, InitStop, BaseStep, CleanStep, StopStep, PTL DEF TcpSpec

(* Then a Send that has returned has its packet at m_onData, unless it was *)
(* empty: that one waits for the next.                                     *)
THEOREM SentIsAtOnData == TcpSpec => []SentIsDelivered
<1>1. ASSUME BaseInv, CleanInv, StopInv, whole, ~closed, client = "idle"
      PROVE  \/ Len(delivered) = Len(sent)
             \/ sent[Len(sent)].len = 0 /\ Len(delivered) = Len(sent) - 1
  <2>1. clean /\ written = readPos /\ session = "reading"
    BY <1>1 DEF StopInv, WaitInv
  <2>2. remaining = 0 /\ readPos \in Nat
    BY <1>1, <2>1, SessionTyped DEF CleanInv, AtOnce, BaseInv
  <2>3. PICK d \in Nat : d = Len(delivered)
    BY <1>1, DeliveredCounts
  <2>4. Within(d + 1) \/ Between(d)
    BY <1>1, <2>1, <2>3 DEF CleanInv
  <2>5. CASE sent = << >>
    <3>1. DOMAIN sent = {} /\ Len(sent) = 0
      BY <2>5
    <3>2. QED
      BY <2>3, <2>4, <3>1 DEF Within, Between
  <2>6. CASE sent # << >>
    <3>1. written = End(Last)
      BY <1>1, <2>6 DEF BaseInv, WireInv, Last
    <3>2. /\ Last \in DOMAIN sent /\ Last \in Nat /\ Last > 0 /\ Last = Len(sent)
          /\ sent[Last].at \in Nat /\ Body(Last) \in Nat /\ End(Last) \in Nat
          /\ sent[Last].at < Body(Last) /\ Body(Last) <= End(Last)
      BY <1>1, <2>6, LastInNumbers
    <3>3. ASSUME NEW k \in DOMAIN sent
          PROVE  /\ k \in Nat /\ k <= Last /\ Body(k) \in Nat /\ End(k) \in Nat
                 /\ (k < Last => End(k) < End(Last))
      <4>1. /\ k \in Nat /\ k <= Last /\ Body(k) \in Nat /\ End(k) \in Nat
            /\ (k < Last => End(k) <= sent[Last].at)
        BY <1>1, <3>2, Order
      <4>2. QED
        BY <3>2, <4>1
    <3>4. CASE Between(d)
      <4>1. d # 0
        BY <2>1, <2>2, <3>1, <3>2, <3>4 DEF Between
      <4>2. d \in DOMAIN sent /\ readPos = End(d) + 0
        BY <2>2, <3>4, <4>1 DEF Between
      <4>3. End(d) = End(Last)
        <5>1. End(d) \in Nat
          BY <3>3, <4>2
        <5>2. End(d) + 0 = End(d)
          BY <5>1
        <5>3. QED
          BY <2>1, <3>1, <4>2, <5>2
      <4>4. d = Last
        BY <3>2, <3>3, <4>2, <4>3
      <4>5. QED
        BY <2>3, <3>2, <4>4
    <3>5. CASE Within(d + 1)
      <4>1. PICK k \in DOMAIN sent : k = d + 1
        BY <3>5 DEF Within
      <4>2. /\ cur # << >> /\ cur[1].size = sent[k].len
            /\ Len(cur[1].data) < cur[1].size \/ cur[1].size = 0
            /\ readPos - remaining = Body(k) + Len(cur[1].data)
        BY <3>5, <4>1 DEF Within
      <4>3. PICK had \in Nat : had = Len(cur[1].data) /\ had <= cur[1].size
        BY <1>1, <4>2, CurTyped DEF BaseInv
      <4>4. sent[k].len \in Nat /\ End(k) = Body(k) + sent[k].len /\ Body(k) \in Nat
        BY <1>1, CallTyped DEF BaseInv
      <4>5. readPos = Body(k) + had /\ (had < sent[k].len \/ sent[k].len = 0) /\ had <= sent[k].len
        BY <2>2, <4>2, <4>3
      <4>6. ~(k < Last)
        <5>1. readPos <= End(k)
          BY <4>4, <4>5
        <5>2. QED
          BY <2>1, <2>2, <3>1, <3>2, <3>3, <5>1
      <4>7. k = Last
        BY <3>2, <3>3, <4>6
      <4>8. sent[k].len = 0
        <5>1. readPos = End(k)
          BY <2>1, <3>1, <4>7
        <5>2. QED
          BY <4>3, <4>4, <4>5, <5>1
      <4>9. QED
        BY <2>3, <3>2, <4>1, <4>7, <4>8
    <3>6. QED
      BY <2>4, <3>4, <3>5
  <2>7. QED
    BY <2>5, <2>6
<1>2. BaseInv /\ CleanInv /\ StopInv => SentIsDelivered
  BY <1>1 DEF SentIsDelivered
<1>3. QED
  BY <1>2, InitBase, InitClean, InitStop, BaseStep, CleanStep, StopStep, PTL DEF TcpSpec
=============================================================================
