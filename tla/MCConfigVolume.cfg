CONSTANTS
  Image <- ConfigImage
  Signed <- ConfigImage
  Enforcing <- ConfigImage
  Manifest <- ConfigManifest
  Setting = {s1, s2}
  Default = s1
  NoImage = NoImage
  Torn = Torn
  Invalid = Invalid
  Corrupt = Corrupt
  None = None
  Blank = Blank
  PersistMounted = TRUE
  EjectHasNoSize = FALSE
SPECIFICATION FairSpec
INVARIANTS ExclusiveImage ConfigAnswered
PROPERTIES EditsNotDropped VolumeReturns
