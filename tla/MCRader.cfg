SPECIFICATION RaderSpec
CONSTANTS
  Size = 7
  Word <- MCWord
  Byte <- MCByte
  Nul = 0
  Wild <- MCWild
  Crc8 <- MCCrc8
  DataLen <- MCDataLen
  MaxRead = 3
  FrameBuf = 10
  UartReads <- MCUartReads
  Commands <- MCCommands
  Tokens <- MCTokens
  CloseSocket <- MCCloseSocket
  Cls <- MCCls
INVARIANTS RaderTypeOK AnswerInProgress NothingCutOff ReplyFits
PROPERTY ImplementsAssembler
