SPECIFICATION LiveSpec
CONSTANTS
  Size = 4
  Word <- MCWord
  Byte <- MCByte
  Nul = 0
  Wild <- MCWild
  Crc8 <- MCCrc8
  DataLen <- MCDataLen
  MaxRead = 1
  FrameBuf = 8
  UartReads <- MCOneRead
  Commands = {}
  Tokens = {}
  CloseSocket <- MCCloseSocket
  Cls <- MCCls
  Peers <- TwoPeers
  Server = "server"
  ServerPackets = {}
  Datagrams <- JustClose
  Lines <- JustM
  MaxQueue = 1
  MaxLine = 2
  Fds = {3, 4, 5, 6}
  Blank <- MCBlank
  Failures = {"refuse", "hangup", "lose", "unplug"}
PROPERTIES BusyEnds SlotFreed ConnectsToAddressed DatagramsTaken CloseEndsDeadConnection
