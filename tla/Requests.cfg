CONSTANTS
  Texts = {"t1", "t2"}
  Worlds = {"w1", "w2"}
  Raw <- MCRaw
  Requests = {r1, r2}
  None = None
  MaxEdits = 2
  Chars = {"a", "wide", "astral", "nl"}
  Bytes <- MCBytes
  Units <- MCUnits
  Newline = "nl"
  Inserts <- MCInserts
  MaxLength = 3
  MaxBatch = 2
  MaxSends = 1
SPECIFICATION Spec
INVARIANT BufferMirrored
INVARIANT TreeFollows
INVARIANT PositionsRoundTrip
INVARIANT DeltaFits
PROPERTY Settled
CHECK_DEADLOCK FALSE
