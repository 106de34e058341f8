SPECIFICATION Spec
CONSTANTS
  Total = 8
  SampleSize = 2
  Periods = {2, 4}
  MAX_AUDIO_BYTES = 4
  Messages = {0, 4, 8}
  Formats = {"pcm", "opus"}
  Decoded = {0, 4, 8}
  DelayPeriods = 1
  Prelude = 2
  Serials = 3
INVARIANTS
  Accounting
  Aligned
PROPERTIES
  SkipsOnlyWhenDelayed
  ImplementsSampleQueue
