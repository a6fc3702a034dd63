SPECIFICATION Spec
CONSTANTS
  Size = 4
  Word <- MCWord
  Byte <- MCByte
  Nul = 0
  Wild <- MCWild
  Crc8 <- MCCrc8
  DataLen <- MCDataLen
  MaxRead = 2
  FrameBuf = 8
  UartReads <- MCUartReads
  Commands = {}
  Tokens = {}
  CloseSocket <- MCCloseSocket
  Cls <- MCCls
  Peers <- OnePeer
  Server = "server"
  ServerPackets = {}
  Datagrams <- JustClose
  Lines <- MOrBlank
  MaxQueue = 1
  MaxLine = 2
  Fds = {3, 4, 5, 6}
  Blank <- MCBlank
  Failures = {"openUart", "openTcp", "connect", "openUdp", "refuse", "hangup", "unplug", "lose", "select", "timeout", "signal"}
INVARIANTS PsuTypeOK DescriptorsOwned UsesOpenDescriptors ConnectedIsUp
