\* Chunks of up to four bytes for an array of three: they fit, fit after
\* compacting, make the array grow once and twice, or are read in two parts.
SPECIFICATION Spec
CONSTANTS
  Byte = {0, 1}
  Zero = 0
  InitSize = 3
  MaxChunk = 4
  MaxSize = 8
INVARIANT TypeOK
PROPERTIES ImplementsByteQueue
