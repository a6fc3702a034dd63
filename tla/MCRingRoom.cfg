SPECIFICATION RoomSpec
CONSTANTS
  Size = 5
  Word <- MCWord
  Byte <- MCByte
  Nul = 0
  Wild <- MCWild
  MaxIn = 4
  MaxOut = 6
PROPERTY ImplementsByteQueue
