SPECIFICATION Spec
CONSTANTS
  a = a
  b = b
  plain = plain
  escaped = escaped
  second = second
  None = None
  Names = {a, b}
  Spellings = {plain, escaped, second}
  Decoded <- TheDecoded
  MaxDepth = 2
  MaxTokens = 9
  Lengths <- TheLengths
  MaxEncoded = 16384
  MaxDecoded = 12288
  IssueLists <- TheIssueLists
INVARIANTS
  IInv
  ScanIsExact
  DigestIsDeserved
  RefusalIsNamed
CHECK_DEADLOCK FALSE
