SPECIFICATION Spec
CONSTANTS
  Intakes = {i1, i2}
  Timestamps = {1, 2}
  Contents = {1, 2}
  MaxDisturbances = 1
  NoFile = NoFile
  HalfCopied = HalfCopied
INVARIANT RetainedSourcesStay
