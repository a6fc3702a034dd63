-------------------------------- MODULE Rader -------------------------------
(***************************************************************************)
(* src/rader.c: the command in progress and the assembly of its answer.     *)
(* One action per function; each is the whole function, and what it passes  *)
(* to write() is in `uartTx' (the serial port) and `tcpTx' (the server)     *)
(* until the next call.                                                     *)
(***************************************************************************)
EXTENDS RingBuffer, Erup

DATA_FLAG_F == 1
DATA_FLAG_f == 2
DATA_FLAG_m == 16
DATA_FLAG_M == 17
DATA_FLAG_p == 32
DATA_FLAG_S == 33

DataFlags == {DATA_FLAG_F, DATA_FLAG_f, DATA_FLAG_m, DATA_FLAG_M,
              DATA_FLAG_p, DATA_FLAG_S}

CONSTANTS
  DataLen,       \* DataLen[flag]: the table in rader_dlen
  MaxRead,       \* sizeof(buf) of WaitMessageAndHandle, the longest read
  FrameBuf,      \* sizeof(buf) of rader_recv
  UartReads,     \* what one read of the serial port may return
  Commands,      \* what one read of a socket may return
  Tokens,        \* what one scanf("%s") of the console may return
  CloseSocket,   \* the payloads strcasecmp takes for "close socket!"
  Cls            \* the tokens strcasecmp takes for "cls"

(* The sizes of the code satisfy this (RealSizes below); the assembly       *)
(* relies on all three conjuncts about DataLen.                             *)
ASSUME RaderAssumption ==
  /\ MaxRead \in Nat \ {0} /\ FrameBuf \in Nat
  /\ DataLen \in [DataFlags -> Nat \ {0}]
  /\ \A flag \in DataFlags : /\ DataLen[flag] + MaxRead <= Size
                             /\ DataLen[flag] + 6 <= FrameBuf
                             /\ Frameable(DataLen[flag])

ASSUME ReadsAssumption ==
  \A data \in UartReads : data \in Seq(Byte) /\ Len(data) \in 1 .. MaxRead

VARIABLES
  fifo,           \* raderFifo over raderBuf
  rdaerCmdFlag,   \* the command being answered; may be stale when idle
  raderDlen,      \* bytes its answer has, 0 when no command is being answered
  ret,            \* what the last call returned
  uartTx,         \* what the last call wrote to the serial port
  tcpTx           \* what the last call wrote to the TCP socket

raderVars == <<fifo, rdaerCmdFlag, raderDlen, ret, uartTx, tcpTx>>

(* rader_dlen as compiled in; DataLen stands for it so that a small         *)
(* instance can use shorter answers                                         *)
RealDataLen ==
  [flag \in DataFlags |->
     CASE flag = DATA_FLAG_f -> 3172 [] flag = DATA_FLAG_F -> 3178
       [] flag = DATA_FLAG_p -> 1024 [] flag = DATA_FLAG_m -> 2144
       [] flag = DATA_FLAG_M -> 64   [] flag = DATA_FLAG_S -> 10]

(* RaderAssumption for the arrays raderBuf, buf of WaitMessageAndHandle and *)
(* buf of rader_recv                                                        *)
ASSUME RealSizes ==
  \A flag \in DataFlags : /\ RealDataLen[flag] + 4096 <= 4096 * 2
                          /\ RealDataLen[flag] + 6 <= 4096
                          /\ Frameable(RealDataLen[flag])

rader_dlen(flag) == IF flag \in DataFlags THEN DataLen[flag] ELSE 0

(* the first byte of a command: the characters f F p m M S *)
Letters == {102, 70, 112, 109, 77, 83}
LetterFlag ==
  [c \in Letters |->
     CASE c = 102 -> DATA_FLAG_f [] c = 70  -> DATA_FLAG_F
       [] c = 112 -> DATA_FLAG_p [] c = 109 -> DATA_FLAG_m
       [] c = 77  -> DATA_FLAG_M [] c = 83  -> DATA_FLAG_S]

rader_flag_Letter(cmd) == IF cmd = << >> THEN 0 ELSE cmd[1]
rader_flag(cmd) ==
  IF cmd # << >> /\ cmd[1] \in Letters THEN LetterFlag[cmd[1]] ELSE 0

-----------------------------------------------------------------------------

(* rader_init, after the static initialisers *)
RaderInit ==
  /\ fifo = ringbuffer_init
  /\ rdaerCmdFlag = 0 /\ raderDlen = 0
  /\ ret = 0 /\ uartTx = << >> /\ tcpTx = << >>

Idle == raderDlen = 0

(* forward a command to the serial port and get ready for its answer *)
Begin_NoReset(data) ==
  /\ fifo' = fifo
  /\ rdaerCmdFlag' = rader_flag(data)
  /\ raderDlen' = rader_dlen(rdaerCmdFlag')
  /\ uartTx' = data
Begin(data) ==
  /\ fifo' = ringbuffer_reset(fifo)
  /\ rdaerCmdFlag' = rader_flag(data)
  /\ raderDlen' = rader_dlen(rdaerCmdFlag')
  /\ uartTx' = data

Refuse == uartTx' = << >> /\ UNCHANGED <<fifo, rdaerCmdFlag, raderDlen>>

Takes_Busy(buf) == Accepts(buf)
Takes(buf) == Accepts(buf) /\ Idle

Closes_WhenTaken(buf) ==
  LET data == ERUP_GET_DATA(FromBegin(buf))
  IN Takes(buf) /\ Len(data) <= 30 /\ data \in CloseSocket
Closes(buf) ==
  LET data == ERUP_GET_DATA(FromBegin(buf))
  IN Accepts(buf) /\ Len(data) <= 30 /\ data \in CloseSocket

(* A packet that is incomplete or not intact is dropped; one that is intact *)
(* is forwarded only when no command is in progress, but is recognised as   *)
(* "close socket!" either way.  What follows it in buf is dropped.          *)
rader_cmd(buf) ==
  /\ IF Takes(buf) THEN Begin(ERUP_GET_DATA(FromBegin(buf))) ELSE Refuse
  /\ ret' = IF Closes(buf) THEN 1 ELSE 0
  /\ tcpTx' = << >>

(* "0x.." stands for the byte StrToInt(buf) && 0xFF, which is 1 or 0; hex   *)
(* digits are told apart only by being '0' or not.  (A value of more than   *)
(* eight digits overflows the int; tokens are shorter.)                     *)
IsHex(token) ==
  Len(token) >= 3 /\ token[1] = 48 /\ token[2] \in {88, 120}
HexByte(token) ==
  IF \E i \in 3 .. Len(token) :
        token[i] \in (49 .. 57) \cup (65 .. 70) \cup (97 .. 102)
    THEN 1 ELSE 0

rader_cmd_from_stdin(token) ==
  /\ \/ /\ token \in Cls
        /\ rdaerCmdFlag' = 0 /\ raderDlen' = 0
        /\ uartTx' = << >>
        /\ UNCHANGED fifo
     \/ /\ token \notin Cls
        /\ IF Idle
             THEN Begin(IF IsHex(token) THEN <<HexByte(token)>> ELSE token)
             ELSE Refuse
  /\ ret' = 0 /\ tcpTx' = << >>

(* Bytes from the serial port are kept only while a command is in progress. *)
(* When there are enough, the reply is framed and sent, and the command is  *)
(* over; a tail beyond the answer stays in the fifo until the next reset.   *)
Enough_Late(data) == ringbuffer_in_ret(fifo, data) > raderDlen
Enough(data) == ringbuffer_in_ret(fifo, data) >= raderDlen

Finish_FlagOnly == rdaerCmdFlag' = 0 /\ UNCHANGED raderDlen
Finish == rdaerCmdFlag' = 0 /\ raderDlen' = 0

Reply_Everything(full) ==
  Packet(rdaerCmdFlag, ringbuffer_out_peek(full, ringbuffer_len(full)))
Reply(full) ==
  Packet(rdaerCmdFlag, ringbuffer_out_peek(full, raderDlen))

rader_recv(data) ==
  /\ \/ /\ raderDlen > 0 /\ Enough(data)
        /\ LET full == ringbuffer_in(fifo, data)
           IN fifo' = ringbuffer_out(full, raderDlen) /\ tcpTx' = Reply(full)
        /\ ret' = IF rdaerCmdFlag = DATA_FLAG_S THEN DATA_FLAG_S ELSE 0
        /\ Finish
     \/ /\ raderDlen > 0 /\ ~Enough(data)
        /\ fifo' = ringbuffer_in(fifo, data)
        /\ tcpTx' = << >> /\ ret' = 0
        /\ UNCHANGED <<rdaerCmdFlag, raderDlen>>
     \/ /\ Idle
        /\ tcpTx' = << >> /\ ret' = 0
        /\ UNCHANGED <<fifo, rdaerCmdFlag, raderDlen>>
  /\ uartTx' = << >>

(* called with 0 when a TCP connection is established; the flag stays *)
set_raderDlen_Ignored(value) ==
  /\ ret' = 0 /\ uartTx' = << >> /\ tcpTx' = << >>
  /\ UNCHANGED <<fifo, rdaerCmdFlag, raderDlen>>
set_raderDlen(value) ==
  /\ raderDlen' = value
  /\ ret' = 0 /\ uartTx' = << >> /\ tcpTx' = << >>
  /\ UNCHANGED <<fifo, rdaerCmdFlag>>

RaderNext ==
  \/ \E buf \in Commands : rader_cmd(buf)
  \/ \E token \in Tokens : rader_cmd_from_stdin(token)
  \/ \E data \in UartReads : rader_recv(data)
  \/ set_raderDlen(0)

RaderSpec == RaderInit /\ [][RaderNext]_raderVars

-----------------------------------------------------------------------------

RaderTypeOK ==
  /\ fifo \in Rings
  /\ rdaerCmdFlag \in DataFlags \cup {0}
  /\ raderDlen \in Nat
  /\ ret \in {0, 1, DATA_FLAG_S}

(* While an answer is being assembled it belongs to the command in progress *)
(* and lies unwrapped at the start of raderBuf, short of complete.  The     *)
(* three statics are set and cleared by four functions; this is what keeps  *)
(* them together, the clearing of raderDlen alone by set_raderDlen included.*)
AnswerInProgress ==
  raderDlen > 0 =>
    /\ rdaerCmdFlag \in DataFlags /\ raderDlen = DataLen[rdaerCmdFlag]
    /\ fifo.out = 0 /\ fifo.in < raderDlen

(* The next read of the serial port, however long, is stored completely and *)
(* in one piece: rader_recv never meets the wrong `unused' of a wrapped     *)
(* ring, nor the clamp of ringbuffer_in, nor a full ring read as empty.     *)
NothingCutOff ==
  raderDlen > 0 =>
    \A n \in 1 .. MaxRead :
       /\ n <= ringbuffer_unused(fifo)
       /\ fifo.in + n <= mask

(* The frame rader_recv builds in its 4096 bytes fits there.                *)
ReplyFits == Len(tcpTx) <= FrameBuf

(* The reply as the server would decode it *)
Decoded ==
  IF tcpTx = << >> THEN << >>
  ELSE IF Accepts(tcpTx) THEN <<ERUP_GET_FLAG(tcpTx), ERUP_GET_DATA(tcpTx)>>
  ELSE <<0>>

(* rader.c assembles answers as ResponseAssembler says: one command at a    *)
(* time, exactly the bytes heard since it was forwarded, in order, and a    *)
(* reply that decodes to them.                                              *)
RA == INSTANCE ResponseAssembler WITH
        Answers <- DataFlags, Need <- DataLen, Chunks <- UartReads,
        Nobody <- 0,
        pending <- IF Idle THEN 0 ELSE rdaerCmdFlag,
        heard <- IF Idle THEN << >> ELSE Contents(fifo),
        reply <- Decoded
ImplementsAssembler == RA!Spec
=============================================================================
