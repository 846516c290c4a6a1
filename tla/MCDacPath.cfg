CONSTANTS
  Field <- MCField
  Value <- MCValue
  Reset0 = 0
  ManualMode = "manual_mode"
  ManualDac = "manual_dac"
  HOLDOVER_DAC = 1
  Bits = 2
  CLOCK_DIVIDER = 2
  UnknownCode = UnknownCode
SPECIFICATION DacFairSpec
INVARIANTS DacTypeOK RecordIsTrue
PROPERTIES WholeWords FrameIsOneCode CodeReachesDac
