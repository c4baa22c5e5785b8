SPECIFICATION Spec
CONSTANTS
  MaxBytes = 80
  MaxWidth = 64
  Schemas <- MCSchemas
INVARIANTS CodecTypeOK CopyIsExact CopyStaysInside WireIsDense RoundTripIsExact JsonIsComplete
PROPERTY CallsAreLegal
