----------------------------- MODULE RaderProofs ----------------------------
(***************************************************************************)
(* What holds of src/rader.c for every table of answers, every size of ring *)
(* and every read that satisfy RaderAssumption; and that it does what       *)
(* ResponseAssembler says.                                                  *)
(***************************************************************************)
EXTENDS Rader, RingBufferLemmas, SequenceTheorems

(* AnswerInProgress is not inductive without the ring being sound: that     *)
(* ringbuffer_in does not wrap, and returns what rader_recv compares with   *)
(* raderDlen, follows from both together.                                   *)
RaderInv == Sound(fifo) /\ RaderTypeOK /\ AnswerInProgress

(* DataFlags does not contain the 0 of "no command". *)
LEMMA FlagLengths ==
  /\ 0 \notin DataFlags
  /\ \A flag \in DataFlags : /\ DataLen[flag] \in Nat \ {0}
                             /\ DataLen[flag] + MaxRead <= Size
                             /\ DataLen[flag] + 6 <= FrameBuf
                             /\ DataLen[flag] < 65536
<1>1. 0 \notin DataFlags
  BY DEF DataFlags, DATA_FLAG_F, DATA_FLAG_f, DATA_FLAG_m, DATA_FLAG_M,
         DATA_FLAG_p, DATA_FLAG_S
<1> QED
  BY <1>1, RaderAssumption DEF Frameable

(* rader_flag knows six letters and answers 0 to everything else. *)
LEMMA FlagType == ASSUME NEW cmd PROVE rader_flag(cmd) \in DataFlags \cup {0}
BY DEF rader_flag, LetterFlag, Letters, DataFlags, DATA_FLAG_F, DATA_FLAG_f,
       DATA_FLAG_m, DATA_FLAG_M, DATA_FLAG_p, DATA_FLAG_S

(* The static initialisers and rader_init establish the invariant. *)
LEMMA InitInv == RaderInit => RaderInv
BY InitSound DEF RaderInit, RaderInv, RaderTypeOK, AnswerInProgress, Sound

(* Forwarding a command ties flag, length and an empty ring together. *)
LEMMA BeginInv ==
  ASSUME RaderInv, NEW data, Begin(data)
  PROVE  /\ Sound(fifo')
         /\ rdaerCmdFlag' \in DataFlags \cup {0} /\ raderDlen' \in Nat
         /\ AnswerInProgress'
<1>1. /\ Sound(fifo') /\ fifo'.in = 0 /\ fifo'.out = 0
  BY ResetSound DEF Begin, RaderInv, Sound
<1>2. rdaerCmdFlag' \in DataFlags \cup {0}
  BY FlagType DEF Begin
<1>3. CASE rdaerCmdFlag' \in DataFlags
  BY <1>1, <1>3, FlagLengths DEF Begin, rader_dlen, AnswerInProgress
<1>4. CASE rdaerCmdFlag' = 0
  <2>1. raderDlen' = 0
    BY <1>4, FlagLengths DEF Begin, rader_dlen
  <2> QED
    BY <1>1, <1>4, <2>1 DEF AnswerInProgress
<1> QED
  BY <1>2, <1>3, <1>4

(* A read of the serial port while an answer is being assembled. *)
LEMMA ReadFits ==
  ASSUME RaderInv, raderDlen > 0, NEW n \in 1 .. MaxRead
  PROVE  n <= ringbuffer_unused(fifo) /\ fifo.in + n <= mask
<1>1. /\ Sound(fifo) /\ fifo.out = 0 /\ fifo.in \in Nat
      /\ fifo.in < raderDlen /\ raderDlen \in Nat
  BY RingAssumption DEF RaderInv, RaderTypeOK, AnswerInProgress, Sound, Rings
<1>2. raderDlen + MaxRead <= Size
  BY FlagLengths DEF RaderInv, AnswerInProgress
<1>3. ringbuffer_unused(fifo) = Size - fifo.in
  BY <1>1, UnusedValue
<1> QED
  BY <1>1, <1>2, <1>3, RaderAssumption, RingAssumption DEF mask

(* rader_cmd preserves it, whatever the read returned. *)
LEMMA CmdStep ==
  ASSUME RaderInv, NEW buf, rader_cmd(buf)
  PROVE  RaderInv'
<1>1. ret' \in {0, 1, DATA_FLAG_S}
  BY DEF rader_cmd
<1>2. CASE Takes(buf)
  <2>1. Begin(ERUP_GET_DATA(FromBegin(buf)))
    BY <1>2 DEF rader_cmd
  <2>2. /\ Sound(fifo')
        /\ rdaerCmdFlag' \in DataFlags \cup {0} /\ raderDlen' \in Nat
        /\ AnswerInProgress'
    BY <2>1, BeginInv
  <2> QED
    BY <1>1, <2>2 DEF RaderInv, RaderTypeOK, Sound
<1>3. CASE ~Takes(buf)
  <2>1. UNCHANGED <<fifo, rdaerCmdFlag, raderDlen>>
    BY <1>3 DEF rader_cmd, Refuse
  <2> QED
    BY <1>1, <2>1 DEF RaderInv, RaderTypeOK, AnswerInProgress, Sound
<1> QED
  BY <1>2, <1>3

(* rader_cmd_from_stdin preserves it, for every token. *)
LEMMA StdinStep ==
  ASSUME RaderInv, NEW token, rader_cmd_from_stdin(token)
  PROVE  RaderInv'
<1>1. ret' = 0
  BY DEF rader_cmd_from_stdin
<1>2. CASE rdaerCmdFlag' = 0 /\ raderDlen' = 0 /\ UNCHANGED fifo
  BY <1>1, <1>2 DEF RaderInv, RaderTypeOK, AnswerInProgress, Sound
<1>3. CASE \E data : Begin(data)
  <2>1. PICK data : Begin(data)
    BY <1>3
  <2>2. /\ Sound(fifo')
        /\ rdaerCmdFlag' \in DataFlags \cup {0} /\ raderDlen' \in Nat
        /\ AnswerInProgress'
    BY <2>1, BeginInv
  <2> QED
    BY <1>1, <2>2 DEF RaderInv, RaderTypeOK, Sound
<1>4. CASE Refuse
  BY <1>1, <1>4 DEF Refuse, RaderInv, RaderTypeOK, AnswerInProgress, Sound
<1> QED
  BY <1>2, <1>3, <1>4 DEF rader_cmd_from_stdin

(* rader_recv preserves it; only here does the ring fill. *)
LEMMA RecvStep ==
  ASSUME RaderInv, NEW data \in Seq(Byte), Len(data) \in 1 .. MaxRead,
         rader_recv(data)
  PROVE  RaderInv'
<1>1. data \in Seq(Byte) /\ Len(data) \in 1 .. MaxRead
  OBVIOUS
<1>2. /\ Sound(fifo) /\ raderDlen \in Nat
      /\ Sound(ringbuffer_in(fifo, data))
      /\ ringbuffer_in(fifo, data).out = fifo.out
  BY <1>1, InSound DEF RaderInv, RaderTypeOK
<1>3. CASE raderDlen > 0 /\ Enough(data)
  <2>1. /\ fifo' = ringbuffer_out(ringbuffer_in(fifo, data), raderDlen)
        /\ rdaerCmdFlag' = 0 /\ raderDlen' = 0
        /\ ret' \in {0, DATA_FLAG_S}
    BY <1>3 DEF rader_recv, Finish, Idle
  <2>2. Sound(fifo')
    BY <1>2, <2>1, OutSound
  <2> QED
    BY <2>1, <2>2 DEF RaderInv, RaderTypeOK, AnswerInProgress, Sound
<1>4. CASE raderDlen > 0 /\ ~Enough(data)
  <2>1. /\ fifo' = ringbuffer_in(fifo, data) /\ ret' = 0
        /\ UNCHANGED <<rdaerCmdFlag, raderDlen>>
    BY <1>4 DEF rader_recv, Idle
  <2>2. fifo.out = 0 /\ fifo.in + Len(data) <= mask
    BY <1>1, <1>4, ReadFits DEF RaderInv, AnswerInProgress
  <2>3. fifo'.in = ringbuffer_in_ret(fifo, data) /\ fifo'.out = 0
    BY <1>1, <1>2, <2>1, <2>2, InWithoutWrap
  <2>4. fifo'.in \in Nat /\ ~(fifo'.in >= raderDlen)
    BY <1>2, <1>4, <2>1, <2>3 DEF Enough, Sound, Rings
  <2>5. AnswerInProgress'
    BY <1>2, <1>4, <2>1, <2>3, <2>4 DEF RaderInv, AnswerInProgress
  <2> QED
    BY <1>2, <2>1, <2>5 DEF RaderInv, RaderTypeOK, Sound
<1>5. CASE Idle
  <2>1. UNCHANGED <<fifo, rdaerCmdFlag, raderDlen>> /\ ret' = 0
    BY <1>5 DEF rader_recv, Idle
  <2> QED
    BY <2>1 DEF RaderInv, RaderTypeOK, AnswerInProgress, Sound
<1> QED
  BY <1>3, <1>4, <1>5 DEF rader_recv

(* So does every step, set_raderDlen(0) included. *)
LEMMA StepInv == RaderInv /\ [RaderNext]_raderVars => RaderInv'
<1> SUFFICES ASSUME RaderInv, [RaderNext]_raderVars PROVE RaderInv'
  OBVIOUS
<1>1. CASE \E buf \in Commands : rader_cmd(buf)
  BY <1>1, CmdStep
<1>2. CASE \E token \in Tokens : rader_cmd_from_stdin(token)
  BY <1>2, StdinStep
<1>3. CASE \E data \in UartReads : rader_recv(data)
  BY <1>3, RecvStep, ReadsAssumption
<1>4. CASE set_raderDlen(0)
  BY <1>4 DEF set_raderDlen, RaderInv, RaderTypeOK, AnswerInProgress, Sound
<1>5. CASE UNCHANGED raderVars
  BY <1>5 DEF raderVars, RaderInv, RaderTypeOK, AnswerInProgress, Sound
<1> QED
  BY <1>1, <1>2, <1>3, <1>4, <1>5 DEF RaderNext

(* The inductive invariant of rader.c. *)
THEOREM Invariance == RaderSpec => []RaderInv
BY InitInv, StepInv, PTL DEF RaderSpec

(* The statics of rader.c keep their types. *)
THEOREM TypeCorrect == RaderSpec => []RaderTypeOK
<1>1. RaderInv => RaderTypeOK
  BY DEF RaderInv
<1> QED
  BY <1>1, Invariance, PTL

(* raderDlen, rdaerCmdFlag and the ring agree on the answer in progress. *)
THEOREM AnswerConsistent == RaderSpec => []AnswerInProgress
<1>1. RaderInv => AnswerInProgress
  BY DEF RaderInv
<1> QED
  BY <1>1, Invariance, PTL

(* No byte of an answer is lost to the clamp or the wrap of ringbuffer_in,  *)
(* whatever the sizes, as long as the longest answer and one read fit.      *)
THEOREM NothingIsCutOff == RaderSpec => []NothingCutOff
<1>1. RaderInv => NothingCutOff
  BY ReadFits DEF NothingCutOff
<1> QED
  BY <1>1, Invariance, PTL

-----------------------------------------------------------------------------
(* What the reply is made of *)

(* The bytes rader_recv takes out of the ring: as many as there are of an   *)
(* answer, whatever the positions.                                          *)
LEMMA PeekLength ==
  ASSUME NEW f, Sound(f), NEW n \in Nat
  PROVE  /\ ringbuffer_out_peek(f, n) \in Seq(Byte \cup {Wild})
         /\ Len(ringbuffer_out_peek(f, n)) <= n
<1> DEFINE len == min(n, ringbuffer_len(f))
           at(k) == IF k <= min(len, UnsignedSub(Size, f.out))
                      THEN f.out + k - 1
                      ELSE k - min(len, UnsignedSub(Size, f.out)) - 1
<1>1. len \in Nat /\ len <= n
  BY LenBound, RingAssumption DEF min
<1>2. ringbuffer_out_peek(f, n) = [k \in 1 .. len |-> ReadAt(f, at(k))]
  BY DEF ringbuffer_out_peek, ringbuffer_copy_out
<1>3. \A i : ReadAt(f, i) \in Byte \cup {Wild}
  BY DEF ReadAt, Sound, Rings
<1> HIDE DEF len, at
<1> QED
  BY <1>1, <1>2, <1>3

(* What is where in a frame, for data of any kind. *)
LEMMA PacketShape ==
  ASSUME NEW S, NEW data \in Seq(S), NEW flag, NEW p, p = Packet(flag, data)
  PROVE  /\ Len(data) \in Nat /\ Len(p) = Len(data) + 6
         /\ DOMAIN p = 1 .. Len(data) + 6 /\ \E T : p \in Seq(T)
         /\ p[1] = ERUP_BEGIN /\ p[2] = Len(data) \div 256
         /\ p[3] = Len(data) % 256 /\ p[4] = flag
         /\ \A i \in 1 .. Len(data) : p[4 + i] = data[i]
         /\ p[Len(data) + 5] = Crc8(data) /\ p[Len(data) + 6] = ERUP_END
<1> DEFINE n == Len(data)
           high == n \div 256
           low == n % 256
           T == S \cup {ERUP_BEGIN, high, low, flag, Crc8(data), ERUP_END}
           head == <<ERUP_BEGIN, high, low, flag>>
           tail == <<Crc8(data), ERUP_END>>
<1>1. n \in Nat
  OBVIOUS
<1>2. p = (head \o data) \o tail
  BY DEF Packet
<1> HIDE DEF n, high, low
<1>3. head \in Seq(T) /\ tail \in Seq(T)
  OBVIOUS
<1>4. data \in Seq(T)
  BY SeqMonotonic
<1>5. /\ Len(head) = 4 /\ head[1] = ERUP_BEGIN /\ head[2] = high
      /\ head[3] = low /\ head[4] = flag
  OBVIOUS
<1>6. Len(tail) = 2 /\ tail[1] = Crc8(data) /\ tail[2] = ERUP_END
  OBVIOUS
<1> HIDE DEF head, tail, T
<1> DEFINE body == head \o data
<1>7. /\ body \in Seq(T) /\ Len(body) = Len(head) + Len(data)
      /\ \A i \in 1 .. Len(head) + Len(data) :
            body[i] = IF i <= Len(head) THEN head[i] ELSE data[i - Len(head)]
  BY <1>3, <1>4, ConcatProperties
<1> HIDE DEF body
<1>8. /\ p \in Seq(T) /\ Len(p) = Len(body) + Len(tail)
      /\ \A i \in 1 .. Len(body) + Len(tail) :
            p[i] = IF i <= Len(body) THEN body[i] ELSE tail[i - Len(body)]
  BY <1>2, <1>3, <1>7, ConcatProperties DEF body
<1>9. Len(body) = 4 + n /\ Len(p) = n + 6
  BY <1>1, <1>5, <1>6, <1>7, <1>8 DEF n
<1>10. ASSUME NEW i \in 1 .. 4 + n
       PROVE  p[i] = IF i <= 4 THEN head[i] ELSE data[i - 4]
  BY <1>1, <1>5, <1>6, <1>7, <1>8, <1>9 DEF n
<1>11. ASSUME NEW i \in 5 + n .. 6 + n
       PROVE  p[i] = tail[i - (4 + n)]
  BY <1>1, <1>6, <1>8, <1>9
<1>12. p[1] = head[1] /\ p[2] = head[2] /\ p[3] = head[3] /\ p[4] = head[4]
  BY <1>1, <1>10
<1>13. \A i \in 1 .. n : p[4 + i] = data[i]
  <2> SUFFICES ASSUME NEW i \in 1 .. n PROVE p[4 + i] = data[i]
    OBVIOUS
  <2>1. 4 + i \in 1 .. 4 + n /\ ~(4 + i <= 4) /\ (4 + i) - 4 = i
    BY <1>1
  <2> QED
    BY <1>10, <2>1
<1>14. p[n + 5] = tail[1] /\ p[n + 6] = tail[2]
  <2>1. n + 5 \in 5 + n .. 6 + n /\ (n + 5) - (4 + n) = 1
    BY <1>1
  <2>2. n + 6 \in 5 + n .. 6 + n /\ (n + 6) - (4 + n) = 2
    BY <1>1
  <2> QED
    BY <1>11, <2>1, <2>2
<1>15. DOMAIN p = 1 .. n + 6
  BY <1>8, <1>9, LenProperties
<1> QED
  BY <1>1, <1>5, <1>6, <1>8, <1>9, <1>12, <1>13, <1>14, <1>15
     DEF n, high, low

(* The reply that ends a command fits into the buffer it is framed in. *)
LEMMA ReplyLength ==
  ASSUME RaderInv, NEW data \in Seq(Byte), Len(data) \in 1 .. MaxRead,
         rader_recv(data)
  PROVE  ReplyFits'
<1>1. CASE raderDlen > 0 /\ Enough(data)
  <2> DEFINE full == ringbuffer_in(fifo, data)
             answer == ringbuffer_out_peek(full, raderDlen)
  <2>1. Sound(full) /\ raderDlen \in Nat
    BY InSound DEF RaderInv, RaderTypeOK
  <2>2. answer \in Seq(Byte \cup {Wild}) /\ Len(answer) <= raderDlen
    BY <2>1, PeekLength
  <2>3. tcpTx' = Packet(rdaerCmdFlag, answer)
    BY <1>1 DEF rader_recv, Reply, Idle
  <2> HIDE DEF answer
  <2>4. Len(tcpTx') = Len(answer) + 6
    BY <2>2, <2>3, PacketShape
  <2>5. raderDlen + 6 <= FrameBuf
    BY <1>1, FlagLengths DEF RaderInv, AnswerInProgress
  <2> QED
    BY <2>1, <2>2, <2>4, <2>5, RaderAssumption DEF ReplyFits
<1>2. CASE ~(raderDlen > 0 /\ Enough(data))
  <2>1. tcpTx' = << >>
    BY <1>2 DEF rader_recv
  <2> QED
    BY <2>1, RaderAssumption DEF ReplyFits
<1> QED
  BY <1>1, <1>2

(* No reply outgrows the buffer rader_recv frames it in, whatever the table *)
(* of answers, as long as it satisfies RaderAssumption.                     *)
THEOREM EveryReplyFits == RaderSpec => []ReplyFits
<1>1. RaderInit => ReplyFits
  BY RaderAssumption DEF RaderInit, ReplyFits
<1>2. RaderInv /\ ReplyFits /\ [RaderNext]_raderVars => ReplyFits'
  <2> SUFFICES ASSUME RaderInv, ReplyFits, [RaderNext]_raderVars
               PROVE  ReplyFits'
    OBVIOUS
  <2>1. CASE tcpTx' = << >>
    BY <2>1, RaderAssumption DEF ReplyFits
  <2>2. CASE \E data \in UartReads : rader_recv(data)
    BY <2>2, ReplyLength, ReadsAssumption
  <2>3. CASE UNCHANGED raderVars
    BY <2>3 DEF raderVars, ReplyFits
  <2> QED
    BY <2>1, <2>2, <2>3
       DEF RaderNext, rader_cmd, rader_cmd_from_stdin, set_raderDlen
<1> QED
  BY <1>1, <1>2, Invariance, PTL DEF RaderSpec

-----------------------------------------------------------------------------
(* A ring that has not wrapped holds the start of its memory. *)
LEMMA PeekUnwrapped ==
  ASSUME NEW f, Sound(f), f.out = 0, NEW n \in Nat, n <= f.in
  PROVE  /\ ringbuffer_out_peek(f, n) = [k \in 1 .. n |-> f.rdata[k - 1]]
         /\ ringbuffer_out_peek(f, n) \in Seq(Byte)
<1>1. /\ f.in \in Nat /\ f.in <= Size - 1 /\ Size \in Nat
      /\ f.rdata \in [Slots -> Byte]
  BY RingAssumption DEF Sound, Slots, Rings
<1>2. ringbuffer_len(f) = f.in
  BY <1>1 DEF ringbuffer_len
<1>3. min(n, ringbuffer_len(f)) = n
  BY <1>1, <1>2 DEF min
<1>4. min(n, UnsignedSub(Size, f.out)) = n
  BY <1>1 DEF min, UnsignedSub
<1>5. ringbuffer_out_peek(f, n) =
        [k \in 1 .. n |-> ReadAt(f, IF k <= n THEN f.out + k - 1
                                              ELSE k - n - 1)]
  BY <1>3, <1>4 DEF ringbuffer_out_peek, ringbuffer_copy_out
<1>6. ASSUME NEW k \in 1 .. n
      PROVE  /\ ReadAt(f, IF k <= n THEN f.out + k - 1 ELSE k - n - 1)
                  = f.rdata[k - 1]
             /\ f.rdata[k - 1] \in Byte
  <2>1. k - 1 \in Slots /\ f.out + k - 1 = k - 1
    BY <1>1 DEF Slots
  <2> QED
    BY <1>1, <2>1 DEF ReadAt
<1> QED
  BY <1>5, <1>6

(* What rader_recv has stored of an answer. *)
LEMMA ContentsUnwrapped ==
  ASSUME NEW f, Sound(f), f.out = 0
  PROVE  /\ f.in \in Nat
         /\ Contents(f) = [k \in 1 .. f.in |-> f.rdata[k - 1]]
         /\ Contents(f) \in Seq(Byte) /\ Len(Contents(f)) = f.in
<1>1. f.in \in Nat /\ f.in <= f.in
  BY DEF Sound, Rings
<1>2. Contents(f) = ringbuffer_out_peek(f, f.in)
  BY <1>1 DEF Contents, ringbuffer_len
<1>3. /\ ringbuffer_out_peek(f, f.in) = [k \in 1 .. f.in |-> f.rdata[k - 1]]
      /\ ringbuffer_out_peek(f, f.in) \in Seq(Byte)
  BY <1>1, PeekUnwrapped
<1>4. /\ Contents(f) = [k \in 1 .. f.in |-> f.rdata[k - 1]]
      /\ Contents(f) \in Seq(Byte)
  BY <1>2, <1>3
<1> QED
  BY <1>1, <1>4

(* One more read is appended to it. *)
LEMMA InAppends ==
  ASSUME NEW f, Sound(f), f.out = 0,
         NEW buf \in Seq(Byte), f.in + Len(buf) <= mask
  PROVE  Contents(ringbuffer_in(f, buf)) = Contents(f) \o buf
<1> DEFINE g == ringbuffer_in(f, buf)
           n == Len(buf)
<1>1. f.in \in Nat /\ n \in Nat /\ f \in Rings /\ Size \in Nat
      /\ f.in + n <= Size - 1
  BY RingAssumption DEF Sound, Rings, mask
<1>2. Sound(g) /\ g.out = 0 /\ g.in = f.in + n
  BY InSound, InWithoutWrap
<1>3. g.rdata = ringbuffer_copy_in(f, buf, n, f.in)
  <2>1. ringbuffer_unused(f) = Size - f.in
    BY <1>1, UnusedValue
  <2>2. min(n, ringbuffer_unused(f)) = n
    BY <1>1, <2>1 DEF min
  <2> QED
    BY <1>1, <2>2 DEF ringbuffer_in, Rings
<1>4. min(n, Size - f.in) = n
  BY <1>1 DEF min
<1>5. ASSUME NEW i \in 0 .. f.in + n - 1
      PROVE  g.rdata[i] = IF i < f.in THEN f.rdata[i] ELSE buf[i - f.in + 1]
  <2>1. i \in Slots /\ ~(i < n - n)
    BY <1>1 DEF Slots
  <2>2. g.rdata[i] = IF i < n - n THEN buf[n + i + 1]
                     ELSE IF f.in <= i /\ i < f.in + n THEN buf[i - f.in + 1]
                     ELSE f.rdata[i]
    BY <1>3, <1>4, <2>1 DEF ringbuffer_copy_in
  <2>3. i < f.in + n /\ (i < f.in <=> ~(f.in <= i))
    BY <1>1
  <2> QED
    BY <2>1, <2>2, <2>3
<1> HIDE DEF g, n
<1>6. /\ Contents(f) \in Seq(Byte) /\ Len(Contents(f)) = f.in
      /\ \A k \in 1 .. f.in : Contents(f)[k] = f.rdata[k - 1]
  BY ContentsUnwrapped
<1>7. /\ Contents(g) \in Seq(Byte) /\ Len(Contents(g)) = f.in + n
      /\ \A k \in 1 .. f.in + n : Contents(g)[k] = g.rdata[k - 1]
  BY <1>2, ContentsUnwrapped
<1>8. /\ Contents(f) \o buf \in Seq(Byte)
      /\ Len(Contents(f) \o buf) = Len(Contents(f)) + Len(buf)
      /\ \A k \in 1 .. Len(Contents(f)) + Len(buf) :
           (Contents(f) \o buf)[k] =
             IF k <= Len(Contents(f)) THEN Contents(f)[k]
                                      ELSE buf[k - Len(Contents(f))]
  BY <1>6, ConcatProperties
<1>9. Len(Contents(f)) + Len(buf) = f.in + n
  BY <1>6 DEF n
<1>10. ASSUME NEW k \in 1 .. f.in + n
       PROVE  Contents(g)[k] = (Contents(f) \o buf)[k]
  <2>1. k - 1 \in 0 .. f.in + n - 1 /\ (k - 1 < f.in <=> k <= f.in)
        /\ (k - 1) - f.in + 1 = k - f.in
    BY <1>1
  <2>2. Contents(g)[k] = IF k <= f.in THEN f.rdata[k - 1] ELSE buf[k - f.in]
    BY <1>5, <1>7, <2>1
  <2>3. (Contents(f) \o buf)[k] =
          IF k <= f.in THEN Contents(f)[k] ELSE buf[k - f.in]
    BY <1>6, <1>8, <1>9
  <2>4. k <= f.in => Contents(f)[k] = f.rdata[k - 1]
    BY <1>1, <1>6
  <2> QED
    BY <2>2, <2>3, <2>4
<1>11. Contents(g) = Contents(f) \o buf
  BY <1>7, <1>8, <1>9, <1>10, SeqEqual
<1> QED
  BY <1>11 DEF g

(* The server decodes from a reply exactly the flag and the bytes framed.   *)
LEMMA Decodable ==
  ASSUME NEW S, NEW data \in Seq(S), Len(data) < 65536,
         NEW flag, NEW p, p = Packet(flag, data)
  PROVE  /\ p # << >> /\ Accepts(p) /\ ERUP_GET_LEN(p) = Len(data)
         /\ ERUP_GET_FLAG(p) = flag /\ ERUP_GET_DATA(p) = data
<1> DEFINE n == Len(data)
<1>1. n < 65536 /\ n \in Nat
  OBVIOUS
<1>2. Len(p) = n + 6 /\ DOMAIN p = 1 .. n + 6
  BY PacketShape
<1>3. /\ p[1] = ERUP_BEGIN /\ p[2] = n \div 256
      /\ p[3] = n % 256 /\ p[4] = flag
      /\ p[n + 5] = Crc8(data) /\ p[n + 6] = ERUP_END
  BY PacketShape
<1>4. \A i \in 1 .. n : p[4 + i] = data[i]
  BY PacketShape
<1>5. PICK T : p \in Seq(T)
  BY PacketShape
<1> HIDE DEF n
<1>6. ERUP_GET_LEN(p) = n
  <2>1. 2 \in DOMAIN p /\ 3 \in DOMAIN p
    BY <1>1, <1>2
  <2>2. ByteAt(p, 1) = p[2] /\ ByteAt(p, 2) = p[3]
    BY <2>1 DEF ByteAt
  <2>3. (n \div 256) * 256 + (n % 256) = n
    BY <1>1
  <2> QED
    BY <1>3, <2>2, <2>3 DEF ERUP_GET_LEN
<1>7. FromBegin(p) = p
  <2> DEFINE begins == {i \in DOMAIN p : p[i] = ERUP_BEGIN}
             first == CHOOSE i \in begins : \A j \in begins : i <= j
  <2>1. 1 \in DOMAIN p /\ \A j \in DOMAIN p : 1 <= j /\ j \in Int
    BY <1>1, <1>2
  <2>2. 1 \in begins /\ \A j \in begins : 1 <= j /\ j \in Int
    BY <1>3, <2>1
  <2> HIDE DEF begins
  <2>3. first \in begins /\ \A j \in begins : first <= j
    BY <2>2
  <2> HIDE DEF first
  <2>4. first = 1
    BY <2>2, <2>3
  <2>5. FromBegin(p) =
          IF begins = {} THEN << >> ELSE SubSeq(p, first, Len(p))
    BY DEF FromBegin, begins, first
  <2> QED
    BY <1>5, <2>2, <2>4, <2>5, SubSeqFull
<1>8. ERUP_GET_DATA(p) = data
  <2>1. ASSUME NEW i \in 5 .. 4 + n PROVE p[i] \in S
    <3>1. i - 4 \in 1 .. n /\ 4 + (i - 4) = i
      BY <1>1
    <3>2. data[i - 4] \in S
      BY <3>1 DEF n
    <3> QED
      BY <1>4, <3>1, <3>2
  <2>2. 5 \in Int /\ 4 + n \in Int /\ (4 + n) - 5 + 1 = n
        /\ (IF 5 <= 4 + n THEN (4 + n) - 5 + 1 ELSE 0) = n
    BY <1>1
  <2>3. /\ SubSeq(p, 5, 4 + n) \in Seq(S)
        /\ Len(SubSeq(p, 5, 4 + n)) = IF 5 <= 4 + n THEN (4 + n) - 5 + 1 ELSE 0
        /\ \A i \in 1 .. (4 + n) - 5 + 1 : SubSeq(p, 5, 4 + n)[i] = p[5 + i - 1]
    BY <2>1, <2>2, SubSeqProperties
  <2>4. ASSUME NEW i \in 1 .. n PROVE SubSeq(p, 5, 4 + n)[i] = data[i]
    <3>1. 5 + i - 1 = 4 + i
      BY <1>1
    <3> QED
      BY <1>4, <2>2, <2>3, <3>1
  <2>5. SubSeq(p, 5, 4 + n) = data
    BY <2>2, <2>3, <2>4, SeqEqual DEF n
  <2> QED
    BY <1>6, <2>5 DEF ERUP_GET_DATA
<1>9. /\ ERUP_GET_FLAG(p) = flag /\ ERUP_GET_CRC(p) = Crc8(data)
      /\ ERUP_GET_END(p) = ERUP_END /\ ERUP_GET_PACKET_LEN(p) = n + 6
  <2>1. 4 \in DOMAIN p /\ n + 5 \in DOMAIN p /\ n + 6 \in DOMAIN p
        /\ (n + 4) + 1 = n + 5 /\ (n + 5) + 1 = n + 6
    BY <1>1, <1>2
  <2> QED
    BY <1>3, <1>6, <2>1
       DEF ERUP_GET_FLAG, ERUP_GET_CRC, ERUP_GET_END, ERUP_GET_PACKET_LEN,
           ByteAt
<1>10. Accepts(p)
  BY <1>1, <1>2, <1>7, <1>8, <1>9 DEF Accepts, Complete, Intact
<1>11. p # << >>
  BY <1>1, <1>2
<1> QED
  BY <1>6, <1>8, <1>9, <1>10, <1>11 DEF n

-----------------------------------------------------------------------------
(* The steps *)

(* rader_init starts with no command, nothing heard and no reply. *)
LEMMA InitMaps == RaderInit => RA!Init
BY DEF RaderInit, RA!Init, Idle, Decoded

(* the state of ResponseAssembler that module Rader's stands for *)
Pending == IF Idle THEN 0 ELSE rdaerCmdFlag
Heard == IF Idle THEN << >> ELSE Contents(fifo)

(* A ring that has just been reset holds nothing. *)
LEMMA ResetEmpty ==
  ASSUME NEW f \in Rings
  PROVE  Contents(ringbuffer_reset(f)) = << >>
<1>1. /\ Sound(ringbuffer_reset(f))
      /\ ringbuffer_reset(f).in = 0 /\ ringbuffer_reset(f).out = 0
  BY ResetSound
<1>2. Contents(ringbuffer_reset(f)) \in Seq(Byte)
      /\ Len(Contents(ringbuffer_reset(f))) = 0
  BY <1>1, ContentsUnwrapped
<1> QED
  BY <1>2

(* A command that is forwarded is pending, or, if the radar does not answer *)
(* it, nothing is.                                                          *)
LEMMA BeginMaps ==
  ASSUME RaderInv, Idle, NEW data, Begin(data), tcpTx' = << >>
  PROVE  RA!Next
<1>1. /\ Pending = 0 /\ fifo' = ringbuffer_reset(fifo) /\ fifo \in Rings
      /\ rdaerCmdFlag' = rader_flag(data)
      /\ raderDlen' = rader_dlen(rdaerCmdFlag')
  BY DEF Pending, Begin, RaderInv, Sound
<1>2. Decoded' = << >> /\ Contents(fifo') = << >>
  BY <1>1, ResetEmpty DEF Decoded
<1>3. Heard' = << >>
  BY <1>2 DEF Heard
<1>4. CASE rdaerCmdFlag' \in DataFlags
  <2>1. raderDlen' \in Nat \ {0}
    BY <1>1, <1>4, FlagLengths DEF rader_dlen
  <2>2. Pending' = rdaerCmdFlag'
    BY <2>1 DEF Pending, Idle
  <2>3. RA!Command(rdaerCmdFlag')
    BY <1>1, <1>2, <1>3, <2>2 DEF RA!Command, Pending, Heard
  <2> QED
    BY <1>4, <2>3 DEF RA!Next
<1>5. CASE rdaerCmdFlag' \notin DataFlags
  <2>1. Pending' = 0
    BY <1>1, <1>5 DEF rader_dlen, Pending, Idle
  <2>2. RA!Cancel
    BY <1>2, <1>3, <2>1 DEF RA!Cancel, Pending, Heard
  <2> QED
    BY <2>2 DEF RA!Next
<1> QED
  BY <1>4, <1>5

(* A call that leaves the command in progress alone, and replies nothing. *)
LEMMA QuietMaps ==
  ASSUME UNCHANGED <<fifo, rdaerCmdFlag, raderDlen>>, tcpTx' = << >>
  PROVE  RA!Next
BY DEF RA!Next, RA!Quiet, Decoded, Idle, Contents, ringbuffer_out_peek,
       ringbuffer_len, ringbuffer_copy_out, ReadAt

(* A call that ends it without a reply: "cls", or a new TCP connection. *)
LEMMA CancelMaps ==
  ASSUME raderDlen' = 0, tcpTx' = << >>
  PROVE  RA!Next
BY DEF RA!Next, RA!Cancel, Decoded, Idle

(* The first n elements of a sequence. *)
LEMMA FirstOnes ==
  ASSUME NEW s, NEW n \in Nat, \A k \in 1 .. n : s[k] \in Byte
  PROVE  /\ SubSeq(s, 1, n) \in Seq(Byte) /\ Len(SubSeq(s, 1, n)) = n
         /\ \A k \in 1 .. n : SubSeq(s, 1, n)[k] = s[k]
<1>1. 1 \in Int /\ n \in Int /\ n - 1 + 1 = n
      /\ (IF 1 <= n THEN n - 1 + 1 ELSE 0) = n
  OBVIOUS
<1>2. /\ SubSeq(s, 1, n) \in Seq(Byte)
      /\ Len(SubSeq(s, 1, n)) = IF 1 <= n THEN n - 1 + 1 ELSE 0
      /\ \A i \in 1 .. n - 1 + 1 : SubSeq(s, 1, n)[i] = s[1 + i - 1]
  BY <1>1, SubSeqProperties
<1>3. ASSUME NEW k \in 1 .. n PROVE SubSeq(s, 1, n)[k] = s[k]
  <2>1. 1 + k - 1 = k
    OBVIOUS
  <2> QED
    BY <1>1, <1>2, <2>1
<1> QED
  BY <1>1, <1>2, <1>3

(* While a command is in progress a read is appended to what is stored of   *)
(* its answer; when that is complete, it is what the reply is made of.      *)
LEMMA RecvStores ==
  ASSUME RaderInv, raderDlen > 0,
         NEW data \in Seq(Byte), Len(data) \in 1 .. MaxRead, rader_recv(data),
         NEW all, all = Contents(fifo) \o data
  PROVE  /\ Contents(fifo) \in Seq(Byte) /\ all \in Seq(Byte)
         /\ \/ /\ Len(all) < raderDlen /\ tcpTx' = << >>
               /\ Contents(fifo') = all
               /\ UNCHANGED <<rdaerCmdFlag, raderDlen>>
            \/ /\ Len(all) >= raderDlen /\ raderDlen' = 0
               /\ SubSeq(all, 1, raderDlen) \in Seq(Byte)
               /\ Len(SubSeq(all, 1, raderDlen)) = raderDlen
               /\ \A k \in 1 .. raderDlen : SubSeq(all, 1, raderDlen)[k] = all[k]
               /\ tcpTx' = Packet(rdaerCmdFlag, SubSeq(all, 1, raderDlen))
<1> DEFINE full == ringbuffer_in(fifo, data)
           answer == SubSeq(all, 1, raderDlen)
<1>1. /\ Sound(fifo) /\ fifo.out = 0 /\ raderDlen \in Nat \ {0}
      /\ raderDlen = DataLen[rdaerCmdFlag] /\ ~Idle
  BY DEF RaderInv, RaderTypeOK, AnswerInProgress, Idle
<1>2. fifo.in + Len(data) <= mask
  BY ReadFits
<1>3. /\ Contents(full) = all /\ Sound(full) /\ full.out = 0
      /\ full.in = ringbuffer_in_ret(fifo, data)
  BY <1>1, <1>2, InAppends, InSound, InWithoutWrap
<1> HIDE DEF full
<1>4. /\ all \in Seq(Byte) /\ Len(all) = full.in /\ full.in \in Nat
      /\ all = [k \in 1 .. full.in |-> full.rdata[k - 1]]
  BY <1>3, ContentsUnwrapped
<1>5. Contents(fifo) \in Seq(Byte)
  BY <1>1, ContentsUnwrapped
<1>6. CASE Enough(data)
  <2>1. Len(all) >= raderDlen
    BY <1>3, <1>4, <1>6 DEF Enough
  <2>2. \A k \in 1 .. raderDlen : all[k] \in Byte
    BY <1>1, <1>4, <2>1
  <2>3. raderDlen \in Nat
    BY <1>1
  <2>4. /\ answer \in Seq(Byte) /\ Len(answer) = raderDlen
        /\ \A k \in 1 .. raderDlen : answer[k] = all[k]
    BY <2>2, <2>3, FirstOnes
  <2> DEFINE peeked == ringbuffer_out_peek(full, raderDlen)
  <2>6. /\ peeked = [k \in 1 .. raderDlen |-> full.rdata[k - 1]]
        /\ peeked \in Seq(Byte)
    BY <1>1, <1>3, <1>4, <2>1, PeekUnwrapped
  <2> HIDE DEF peeked, answer
  <2>7. Len(peeked) = raderDlen
    BY <1>1, <2>6
  <2>8. \A k \in 1 .. raderDlen : peeked[k] = all[k]
    BY <1>1, <1>4, <2>1, <2>6
  <2>9. peeked = answer
    BY <2>4, <2>6, <2>7, <2>8, SeqEqual
  <2>10. tcpTx' = Packet(rdaerCmdFlag, peeked) /\ raderDlen' = 0
    BY <1>1, <1>6 DEF rader_recv, Reply, Finish, full, peeked
  <2> QED
    BY <1>4, <1>5, <2>1, <2>4, <2>9, <2>10 DEF answer
<1>7. CASE ~Enough(data)
  <2>1. Len(all) < raderDlen
    BY <1>1, <1>3, <1>4, <1>7 DEF Enough
  <2>2. /\ fifo' = full /\ tcpTx' = << >>
        /\ UNCHANGED <<rdaerCmdFlag, raderDlen>>
    BY <1>1, <1>7 DEF rader_recv, full
  <2> QED
    BY <1>3, <1>4, <1>5, <2>1, <2>2
<1> QED
  BY <1>6, <1>7

(* The bytes of a read are heard; with the last of them the reply goes out, *)
(* and it decodes to the command and to its answer.                         *)
LEMMA RecvMaps ==
  ASSUME RaderInv, NEW data \in UartReads, rader_recv(data)
  PROVE  RA!Next
<1>1. data \in Seq(Byte) /\ Len(data) \in 1 .. MaxRead
  BY ReadsAssumption
<1>2. CASE Idle
  BY <1>2, QuietMaps DEF rader_recv, Idle
<1>3. CASE raderDlen > 0
  <2> DEFINE all == Contents(fifo) \o data
             answer == SubSeq(all, 1, raderDlen)
  <2>1. /\ rdaerCmdFlag \in DataFlags /\ raderDlen = DataLen[rdaerCmdFlag]
        /\ rdaerCmdFlag # 0 /\ ~Idle /\ raderDlen \in Nat
    BY <1>3, FlagLengths DEF RaderInv, RaderTypeOK, AnswerInProgress, Idle
  <2>2. Pending = rdaerCmdFlag /\ Heard = Contents(fifo)
    BY <2>1 DEF Pending, Heard
  <2>3. /\ all \in Seq(Byte)
        /\ \/ /\ Len(all) < raderDlen /\ tcpTx' = << >>
              /\ Contents(fifo') = all
              /\ UNCHANGED <<rdaerCmdFlag, raderDlen>>
           \/ /\ Len(all) >= raderDlen /\ raderDlen' = 0
              /\ answer \in Seq(Byte) /\ Len(answer) = raderDlen
              /\ tcpTx' = Packet(rdaerCmdFlag, answer)
    BY <1>1, <1>3, RecvStores
  <2> HIDE DEF all, answer
  <2>4. CASE Len(all) < raderDlen
    <3>1. /\ tcpTx' = << >> /\ Contents(fifo') = all
          /\ UNCHANGED <<rdaerCmdFlag, raderDlen>>
      BY <2>1, <2>3, <2>4
    <3>2. Pending' = Pending /\ Heard' = all /\ Decoded' = << >>
      BY <2>1, <3>1 DEF Pending, Heard, Decoded, Idle
    <3>3. RA!Hear(data)
      BY <2>1, <2>2, <2>4, <3>2 DEF RA!Hear, Pending, Heard, all
    <3> QED
      BY <3>3 DEF RA!Next
  <2>5. CASE Len(all) >= raderDlen
    <3>1. /\ raderDlen' = 0 /\ tcpTx' = Packet(rdaerCmdFlag, answer)
          /\ answer \in Seq(Byte) /\ Len(answer) = raderDlen
      BY <2>1, <2>3, <2>5
    <3>2. Len(answer) < 65536
      BY <2>1, <3>1, FlagLengths
    <3>3. Decoded' = <<rdaerCmdFlag, answer>>
      <4>1. /\ tcpTx' # << >> /\ Accepts(tcpTx')
            /\ ERUP_GET_FLAG(tcpTx') = rdaerCmdFlag
            /\ ERUP_GET_DATA(tcpTx') = answer
        BY <3>1, <3>2, Decodable
      <4> QED
        BY <4>1 DEF Decoded
    <3>4. Pending' = 0 /\ Heard' = << >>
      BY <3>1 DEF Pending, Heard, Idle
    <3>5. RA!Hear(data)
      BY <2>1, <2>2, <2>3, <2>5, <3>3, <3>4
         DEF RA!Hear, Pending, Heard, all, answer
    <3> QED
      BY <3>5 DEF RA!Next
  <2> QED
    BY <2>1, <2>3, <2>4, <2>5
<1> QED
  BY <1>2, <1>3 DEF rader_recv

(* rader_cmd maps, whatever the read of the socket returned. *)
LEMMA CmdMaps ==
  ASSUME RaderInv, NEW buf, rader_cmd(buf)
  PROVE  RA!Next
<1>1. CASE Takes(buf)
  BY <1>1, BeginMaps DEF rader_cmd, Takes
<1>2. CASE ~Takes(buf)
  BY <1>2, QuietMaps DEF rader_cmd, Refuse
<1> QED
  BY <1>1, <1>2

(* So does rader_cmd_from_stdin, whatever was typed. *)
LEMMA StdinMaps ==
  ASSUME RaderInv, NEW token, rader_cmd_from_stdin(token)
  PROVE  RA!Next
<1>1. CASE token \in Cls
  BY <1>1, CancelMaps DEF rader_cmd_from_stdin
<1>2. CASE token \notin Cls /\ Idle
  BY <1>2, BeginMaps DEF rader_cmd_from_stdin
<1>3. CASE token \notin Cls /\ ~Idle
  BY <1>3, QuietMaps DEF rader_cmd_from_stdin, Refuse
<1> QED
  BY <1>1, <1>2, <1>3

(* A step that leaves the statics of rader.c alone is none of the assembler.*)
LEMMA StutterMaps ==
  ASSUME UNCHANGED raderVars
  PROVE  UNCHANGED RA!vars
BY DEF raderVars, RA!vars, Decoded, Idle, Contents, ringbuffer_out_peek,
       ringbuffer_len, ringbuffer_copy_out, ReadAt

(* Every function of rader.c is a step of ResponseAssembler. *)
LEMMA StepMaps ==
  ASSUME RaderInv, [RaderNext]_raderVars
  PROVE  [RA!Next]_RA!vars
<1>1. CASE \E buf \in Commands : rader_cmd(buf)
  BY <1>1, CmdMaps
<1>2. CASE \E token \in Tokens : rader_cmd_from_stdin(token)
  BY <1>2, StdinMaps
<1>3. CASE \E data \in UartReads : rader_recv(data)
  BY <1>3, RecvMaps
<1>4. CASE set_raderDlen(0)
  BY <1>4, CancelMaps DEF set_raderDlen
<1>5. CASE UNCHANGED raderVars
  BY <1>5, StutterMaps
<1> QED
  BY <1>1, <1>2, <1>3, <1>4, <1>5 DEF RaderNext

(* src/rader.c implements ResponseAssembler: one command at a time, exactly *)
(* the bytes heard since it was forwarded, in order, in its reply.          *)
THEOREM AssemblesAnswers == RaderSpec => ImplementsAssembler
BY InitMaps, StepMaps, Invariance, PTL
   DEF RaderSpec, ImplementsAssembler, RA!Spec
====
