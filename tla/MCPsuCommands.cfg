SPECIFICATION Spec
CONSTANTS
  Size = 4
  Word <- MCWord
  Byte <- MCByte
  Nul = 0
  Wild <- MCWild
  Crc8 <- MCCrc8
  DataLen <- MCDataLen
  MaxRead = 2
  FrameBuf = 8
  UartReads <- MCUartReads
  Commands = {}
  Tokens = {}
  CloseSocket <- MCCloseSocket
  Cls <- MCCls
  Peers <- OnePeer
  Server = "server"
  ServerPackets <- JustS
  Datagrams <- SAndClose
  Lines <- Console
  MaxQueue = 1
  MaxLine = 3
  Fds = {3, 4, 5, 6}
  Blank <- MCBlank
  Failures = {"refuse"}
INVARIANTS AutoFTaken OwnAnswer SameConnection
