CONSTANTS
  Image <- MCImage
  Signed <- MCSigned
  Enforcing <- MCSigned
  Manifest <- UpdateManifest
  Setting = {s1}
  Default = s1
  NoImage = NoImage
  Torn = Torn
  Invalid = Invalid
  Corrupt = Corrupt
  None = None
  Blank = Blank
  PersistMounted = TRUE
  EjectHasNoSize = FALSE
SPECIFICATION FairSpec
PROPERTIES SkippedIsInstalled
