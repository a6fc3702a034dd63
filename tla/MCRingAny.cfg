SPECIFICATION AnySpec
CONSTANTS
  Size = 3
  Word <- MCWord
  Byte <- MCByte
  Nul = 0
  Wild <- MCWild
  MaxIn = 7
  MaxOut = 4
INVARIANTS TypeOK IndicesInBounds CopiesInBounds NoWildRead
