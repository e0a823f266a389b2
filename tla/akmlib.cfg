SPECIFICATION Spec
CONSTANTS
  Offsets <- MCOffsets
  Saved <- MCSaved
  Elsewhere = {5}
  HO_TH = 4
  AKFS_ADATA_SIZE = 2
  AKFS_HNAVE_V = 2
  AKFS_HBUF_SIZE = 4
  AKFS_HOBUF_SIZE = 2
  OPENS = 1
INVARIANTS
  OffsetsAgreed
  RestartsSound
CHECK_DEADLOCK FALSE
