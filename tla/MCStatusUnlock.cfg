CONSTANTS
  Field <- MCField
  Value <- MCValue
  Reset0 = 0
  Holdover <- MCHoldover
SPECIFICATION UnlockFairSpec
INVARIANTS TypeOK QuietIsCurrent
PROPERTIES Settles WholeWhileLocked
