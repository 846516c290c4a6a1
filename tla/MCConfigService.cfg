CONSTANTS
  Image <- ServiceImage
  Signed <- ConfigImage
  Enforcing <- ConfigImage
  Manifest <- ServiceManifest
  Setting = {s1}
  Default = s1
  NoImage = NoImage
  Torn = Torn
  Invalid = Invalid
  Corrupt = Corrupt
  None = None
  Blank = Blank
  PersistMounted = TRUE
  EjectHasNoSize = TRUE
SPECIFICATION ServiceSpec
INVARIANTS TypeOK OneUpdater ReportTrue
PROPERTIES KeepsBootable
