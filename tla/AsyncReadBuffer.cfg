\* A buffer of five bytes.  The requests are the smallest that keep the relation
\* between the real ones and the real buffer: one byte, several bytes, the whole
\* buffer, and one byte too many.
SPECIFICATION FairSpec
CONSTANTS
  Capacity = 5
  Requests = {1, 3, 5, 6}
  MaxBytes = 9
  MaxPosted = 2
INVARIANTS
  BufferInv
  UnreadBytesKept
  PostedBytesIntact
PROPERTIES
  ImplementsByteStream
  WedgeEnds
