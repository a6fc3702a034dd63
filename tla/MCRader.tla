------------------------------- MODULE MCRader ------------------------------
(***************************************************************************)
(* Rader with answers of one to four bytes, every read of up to three bytes *)
(* 0 and 1 from the serial port, and the packets and tokens that take the   *)
(* different ways through rader_cmd and rader_cmd_from_stdin.               *)
(***************************************************************************)
EXTENDS Rader

(* any function of the data does for crc8, which only has to agree with     *)
(* itself; this one is cheap and tells the packets below apart              *)
MCCrc8(data) == IF data = << >> THEN 0 ELSE (data[1] + 3 * Len(data)) % 256

MCWord == 256
MCByte == {0, 1}
MCWild == -1
MCDataLen ==
  [flag \in DataFlags |->
     CASE flag = DATA_FLAG_F -> 4 [] flag = DATA_FLAG_f -> 3
       [] flag = DATA_FLAG_M -> 1 [] OTHER -> 2]
MCUartReads == UNION {[1 .. n -> MCByte] : n \in 1 .. 3}

close == <<99, 33>>        \* stands for "close socket!"
cls == <<99, 108, 115>>
MCCloseSocket == {close}
MCCls == {cls}

Good(data) == Packet(0, data)
MCCommands ==
  {Good(<<c>>) : c \in Letters} \cup
  { Good(<<120>>),                          \* unknown letter
    Good(<< >>), Good(close),
    <<7, 9>> \o Good(<<109, 49>>),          \* noise before the packet
    Good(<<83>>) \o Good(<<102>>),          \* two packets in one read
    <<251, 0, 1, 0, 83>>,                   \* cut short
    <<251, 0, 1, 0, 83, 0, 254>>,           \* wrong CRC
    [Good(<<83>>) EXCEPT ![7] = 0],         \* wrong end mark
    <<1, 2, 3>> }                           \* no packet at all
MCTokens ==
  { cls, <<70>>, <<102>>, <<120>>, << >>,
    <<48, 120, 52, 54>>,                    \* 0x46
    <<48, 88, 48>> }                        \* 0X0
=============================================================================
