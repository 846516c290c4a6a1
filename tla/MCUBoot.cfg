CONSTANTS
  Image <- MCImage
  Signed <- MCSigned
  Enforcing <- MCEnforcing
  Manifest <- MCManifest
  NoImage = NoImage
  Torn = Torn
  Profile <- MCProfile
  ProfileOf <- MCProfileOf
  Card <- MCCard
  NoProfile = NoProfile
  NoCard = NoCard
  NoSystem = NoSystem
SPECIFICATION BoardSpec
INVARIANTS AppliedIsInstalled BoardTypeOK
PROPERTIES CodeStarts BootAfterFit SelectionKept ResetIsLast
