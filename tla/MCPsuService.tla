---------------------------- MODULE MCPsuService ----------------------------
(***************************************************************************)
(* PsuService with commands S, M and "close socket!", answers of one or two *)
(* bytes read one or two at a time, and every byte of the radar's marked    *)
(* with the command it answers.                                             *)
(***************************************************************************)
EXTENDS PsuService

MCCrc8(data) == IF data = << >> THEN 0 ELSE (data[1] + 3 * Len(data)) % 256

MCWord == 256
MCByte == {0} \cup DataFlags
MCWild == -1
MCDataLen ==
  [flag \in DataFlags |-> IF flag \in {DATA_FLAG_S, DATA_FLAG_M} THEN 2 ELSE 1]
MCOneRead == {<<0>>, <<1>>}
MCUartReads == UNION {[1 .. n -> {0, 1}] : n \in 1 .. 2}

close == <<99, 33>>        \* stands for "close socket!"
cls == <<99, 108, 115>>
MCCloseSocket == {close}
MCCls == {cls}

Good(data) == Packet(0, data)
S == Good(<<83>>)
C == Good(close)
MCBlank == <<10>>
Console == {cls, <<77>>}
JustM == {<<77>>}
MOrBlank == {<<77>>, MCBlank}
JustS == {S}
JustClose == {C}
SAndClose == {S, C}
TwoPeers == {"server", "host"}
OnePeer == {"server"}
=============================================================================
