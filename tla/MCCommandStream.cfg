SPECIFICATION Spec
CONSTANTS
  Size = 14
  Word <- MCWord
  Byte = {0}
  Nul = 0
  Wild <- MCWild
  Crc8 <- crc8
  DataLen <- MCDataLen
  MaxRead = 12
  FrameBuf = 8
  UartReads <- MCUartReads
  Commands = {}
  Tokens = {}
  CloseSocket = {}
  Cls = {}
  Payloads <- MCPayloads
  Bursts <- MCBursts
  MaxHits = 1
  MaxSent = 3
INVARIANT TakenInOrder
