SPECIFICATION SkipSpec
CONSTANTS
  Size = 3
  Word <- MCWord
  Byte <- MCByte
  Nul = 0
  Wild <- MCWild
  MaxIn = 2
  MaxOut = 3
INVARIANT SkipDropsOne
