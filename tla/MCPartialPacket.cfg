SPECIFICATION Spec
CONSTANTS
  Size = 14
  Word <- MCWord
  Byte = {0}
  Nul = 0
  Wild <- MCWild
  Crc8 <- crc8
  DataLen <- MCDataLen
  MaxRead = 12
  FrameBuf = 8
  UartReads <- MCUartReads
  Commands = {}
  Tokens = {}
  CloseSocket = {}
  Cls = {}
  Payloads <- MCPayloads
  Bursts <- MCNoBursts
  MaxHits = 0
  MaxSent = 1
INVARIANT PartialPacketResumed
