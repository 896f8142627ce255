CONSTANTS
  SIZE = 3
  Byte <- MCByte
  Zero = 0
  Blocks <- MCBlocks
  Lengths <- MCLengths
SPECIFICATION Spec
PROPERTY ForceKeepsNewest
