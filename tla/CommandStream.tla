---------------------------- MODULE CommandStream ---------------------------
(***************************************************************************)
(* Command packets on the TCP stream.  The server writes whole packets; one *)
(* read of WaitMessageAndHandle returns whatever has arrived, from part of  *)
(* one packet to several, and its buffer is cleared before the next read.   *)
(* On the way a burst of errors may hit a packet where crc8 covers it: its   *)
(* data and the checksum itself.  (Nothing covers the header.)               *)
(***************************************************************************)
EXTENDS Rader, Crc8

CONSTANTS
  Payloads,    \* the commands the server sends
  MaxSent,     \* bound: packets the server sends
  Bursts,      \* errors on the way: bits from the first of the byte hit on
  MaxHits      \* bound: packets damaged

(* crc8 promises to catch a burst of up to eight bits in a row. *)
ASSUME StreamAssumption ==
  /\ MaxSent \in Nat /\ MaxHits \in Nat
  /\ \A data \in Payloads : data \in Seq(0 .. 255) /\ Len(data) < 65536
  /\ \A burst \in Bursts : /\ burst \subseteq 0 .. 14 /\ burst # {}
                            /\ \A a, b \in burst : a - b < 8

VARIABLES
  stream,      \* bytes sent and not yet read
  sent,        \* the commands sent so far, without those damaged on the way
  hits,        \* packets damaged so far
  taken        \* the commands forwarded to the radar so far

streamVars == <<raderVars, stream, sent, hits, taken>>

Init == RaderInit /\ stream = << >> /\ sent = << >> /\ hits = 0 /\ taken = << >>

Send(data) ==
  /\ Len(sent) + hits < MaxSent
  /\ sent' = Append(sent, data)
  /\ stream' = stream \o Packet(0, data)
  /\ UNCHANGED <<raderVars, hits, taken>>

(* the bits of byte i that a burst from the k-th byte on inverts *)
Hit(k, burst, i) == {b \in Bits : 8 * (i - k) + b \in burst}

Damaged(packet, k, burst) ==
  [i \in DOMAIN packet |-> NumberOf[Xor(BitsOf[packet[i]], Hit(k, burst, i))]]

(* all of it where crc8 covers the packet of data *)
Covered(data, k, burst) ==
  \A b \in burst : k + (b \div 8) \in 5 .. 5 + Len(data)

(* No packet inside a packet: where one has an ERUP_BEGIN after the first,  *)
(* what begins there is too long for any read or has the wrong checksum.  A *)
(* read that begins there would take it for a packet.  (The commands are    *)
(* single letters and "close socket!".)                                     *)
NoneInside(packet, longest) ==
  \A i \in 2 .. Len(packet) :
     packet[i] = ERUP_BEGIN =>
       LET p == SubSeq(packet, i, Len(packet))
       IN \/ ERUP_GET_PACKET_LEN(p) > longest
          \/ Complete(p) /\ ERUP_GET_CRC(p) # Crc8(ERUP_GET_DATA(p))

ASSUME PacketAssumption ==
  \A data \in Payloads :
     /\ NoneInside(Packet(0, data), MaxRead)
     /\ \A k \in 5 .. MaxRead, burst \in Bursts :
           Covered(data, k, burst) =>
             NoneInside(Damaged(Packet(0, data), k, burst), MaxRead)

SendDamaged(data, k, burst) ==
  /\ Len(sent) + hits < MaxSent /\ hits < MaxHits
  /\ Covered(data, k, burst)
  /\ hits' = hits + 1
  /\ stream' = stream \o Damaged(Packet(0, data), k, burst)
  /\ UNCHANGED <<raderVars, sent, taken>>

(* read(tcpFd,buf,sizeof(buf)); rader_cmd(uartFd,buf,len) *)
Read(n) ==
  /\ n \in 1 .. min(MaxRead, Len(stream))
  /\ rader_cmd(SubSeq(stream, 1, n))
  /\ stream' = SubSeq(stream, n + 1, Len(stream))
  /\ taken' = IF uartTx' # << >> THEN Append(taken, uartTx') ELSE taken
  /\ UNCHANGED <<sent, hits>>

Answered(data) == rader_recv(data) /\ UNCHANGED <<stream, sent, hits, taken>>

Next ==
  \/ \E data \in Payloads : Send(data)
  \/ \E data \in Payloads, k \in 5 .. MaxRead, burst \in Bursts :
        SendDamaged(data, k, burst)
  \/ \E n \in 1 .. MaxRead : Read(n)
  \/ \E data \in UartReads : Answered(data)

Spec == Init /\ [][Next]_streamVars

-----------------------------------------------------------------------------

(* However the stream is cut, a command that reaches the radar is one the   *)
(* server sent, in the order sent and once: no packet is made up of pieces, *)
(* a payload that begins like a packet is not taken for one, and a packet   *)
(* damaged on the way is dropped.                                           *)
TakenInOrder ==
  \E places \in SUBSET (1 .. Len(sent)) :
     \E order \in [1 .. Len(taken) -> places] :
        /\ \A i, j \in 1 .. Len(taken) : i < j => order[i] < order[j]
        /\ \A i \in 1 .. Len(taken) : taken[i] = sent[order[i]]

(* rader.c:132 "need continue recv data": a packet of which only a part has *)
(* been read is acted on when the rest has come.                            *)
PartialPacketResumed ==
  Len(sent) = 1 /\ stream = << >> => taken = sent
=============================================================================
