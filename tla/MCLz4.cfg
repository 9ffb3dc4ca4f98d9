CONSTANTS
  Escape = 2
  MinMatch = 2
  MaxOffset = 60
  Slack = 2
  Unset = Unset
  Streams <- MCStreams
SPECIFICATION DecodeSpec
INVARIANTS
  NoStaleBytes
  RoundTrip
PROPERTY WritesOnlyItsBlock
CHECK_DEADLOCK FALSE
